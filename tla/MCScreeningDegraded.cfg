CONSTANTS
  w1 = w1
  w2 = w2
  a1 = a1
  i1 = i1
  i2 = i2
  i3 = i3
  Tasks <- FourTasks
  Workers <- OneWorkerSet
  Concurrency = 2
  MaxAttempts = 2
  RaisesEarly <- FourTasks
  RaisesLate <- FirstTask
  MaxFaults = 1
  Items <- ThreeItems
  Unreadable <- OneItemBad
  Admins <- OneAdmin
SPECIFICATION SSpec
INVARIANTS
  ScreenedTally
  CountersAgreeAtRest
CHECK_DEADLOCK FALSE
