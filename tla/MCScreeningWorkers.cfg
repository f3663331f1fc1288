CONSTANTS
  w1 = w1
  w2 = w2
  a1 = a1
  i1 = i1
  i2 = i2
  i3 = i3
  Tasks <- TwoTasks
  Workers <- TwoWorkers
  Concurrency = 1
  MaxAttempts = 2
  RaisesEarly <- None
  RaisesLate <- None
  MaxFaults = 0
  Items <- TwoItems
  Unreadable <- None
  Admins <- None
SPECIFICATION SSpec
INVARIANTS
  CountersAgreeAtRest
CHECK_DEADLOCK FALSE
