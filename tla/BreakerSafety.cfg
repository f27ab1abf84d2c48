CONSTANTS
  c1 = c1
  c2 = c2
  c3 = c3
  Callers = {c1, c2, c3}
  Checked = {}
  FailureThreshold = 5
  SuccessThreshold = 3
  MaxHalfOpen = 3
  HasFallback = TRUE
  Operated = TRUE
SPECIFICATION FairSpec
PROPERTIES OpenStaysOpen Heals
