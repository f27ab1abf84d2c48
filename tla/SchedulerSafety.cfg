CONSTANTS
  job1 = job1
  job2 = job2
  Jobs = {job1, job2}
  Offered <- Mixed
  MaxIterations = 2
  MaxJobs = 2
  Controllers = {c1}
  Ticks = {t1, t2}
  NoTick = NoTick
  MaxTroubles = 2
SPECIFICATION FairSpec
INVARIANTS NoOverlap RepeatsBounded
PROPERTIES RunningEnds
