CONSTANTS
  MaxCalls = 4
  Permits = 2
  IdRank <- Descending
  Cancels = {"caller", "tool"}
SPECIFICATION BatchSpec
INVARIANTS ExclusiveIsBarrier ReturnsAnswers
CHECK_DEADLOCK FALSE
