CONSTANTS
  w1 = w1
  w2 = w2
  Tasks <- ThreeTasks
  Workers <- One
  Concurrency = 2
  MaxAttempts = 3
  RaisesEarly <- OnlySecond
  RaisesLate <- ThreeTasks
  MaxFaults = 2
SPECIFICATION Spec
INVARIANTS
  TypeOK
  RetryBudget
PROPERTIES
  SettledIsFinal
CHECK_DEADLOCK FALSE
