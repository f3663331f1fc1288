CONSTANTS
  w1 = w1
  w2 = w2
  Tasks <- TwoTasks
  Workers <- One
  Concurrency = 2
  MaxAttempts = 3
  RaisesEarly <- None
  RaisesLate <- None
  MaxFaults = 1
SPECIFICATION FairSpec
PROPERTIES
  LeaseExpires
CHECK_DEADLOCK FALSE
