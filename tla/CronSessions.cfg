SPECIFICATION FairSpec
CONSTANTS
  Sessions = {s1, s2}
  MaxCrashes = 2
  OneShots = {once}
  Recurring = {daily}
  DueAt = 1
  MaxTime = 2
CONSTRAINT Explored
INVARIANTS OneOwnerElse OwnerIsNamed FiresOnce NothingLost
PROPERTIES TakesOver DueIsFired
CHECK_DEADLOCK FALSE
