SPECIFICATION Spec
CONSTANTS
  Agents = {a1, a2, a3}
  MaxId = 3
  MaxJobs = 3
  MaxExits = 1
SYMMETRY Symmetry
INVARIANTS OneWinner CompletedStays IdsFresh BlocksAgree
PROPERTIES ClaimIsFree
CHECK_DEADLOCK FALSE
