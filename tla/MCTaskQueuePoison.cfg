CONSTANTS
  w1 = w1
  w2 = w2
  Tasks <- TwoTasks
  Workers <- One
  Concurrency = 2
  MaxAttempts = 3
  RaisesEarly <- OnlySecond
  RaisesLate <- None
  MaxFaults = 0
SPECIFICATION FairSpec
PROPERTIES
  BatchIsolation
CHECK_DEADLOCK FALSE
