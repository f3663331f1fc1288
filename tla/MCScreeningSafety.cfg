CONSTANTS
  w1 = w1
  w2 = w2
  a1 = a1
  i1 = i1
  i2 = i2
  i3 = i3
  Tasks <- FiveTasks
  Workers <- OneWorkerSet
  Concurrency = 2
  MaxAttempts = 2
  RaisesEarly <- None
  RaisesLate <- None
  MaxFaults = 0
  Items <- TwoItems
  Unreadable <- None
  Admins <- OneAdmin
SPECIFICATION SFairSpec
INVARIANTS
  STypeOK
  CompletedMeansScreened
  CountersAgreeAtRest
  OneTaskPerOpenItem
PROPERTIES
  ResultStands
  JobFinishes
  RetriedItemsFinish
CHECK_DEADLOCK FALSE
