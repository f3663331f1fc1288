CONSTANTS
  w1 = w1
  o1 = o1
  o2 = o2
  c1 = c1
  Tasks <- ThreeTasks
  Workers <- OneWorkerSet
  Concurrency = 3
  MaxAttempts = 1
  RaisesEarly <- BothEnds
  RaisesLate <- OnlySecond
  MaxFaults = 1
  Bulk <- BothEnds
  Operators <- OneOperator
  External <- None
  Comments <- Texts
  MaxTrail = 4
SPECIFICATION VFairSpec
INVARIANTS
  VTypeOK
  RepeatsTakeTwoLosses
  DecisionStands
  OverrideIsExplained
  TrailTellsState
  SucceededMeansReported
CHECK_DEADLOCK FALSE
PROPERTIES
  ImplementsWorkflow
  EverySubmissionReported
