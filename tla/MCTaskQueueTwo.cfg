CONSTANTS
  w1 = w1
  w2 = w2
  Tasks <- TwoTasks
  Workers <- Two
  Concurrency = 2
  MaxAttempts = 2
  RaisesEarly <- None
  RaisesLate <- TwoTasks
  MaxFaults = 0
SPECIFICATION FairSpec
INVARIANTS
  NoStrandedClaim
PROPERTIES
  EveryTaskSettles
CHECK_DEADLOCK FALSE
