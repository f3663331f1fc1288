CONSTANTS
  w1 = w1
  o1 = o1
  o2 = o2
  c1 = c1
  Tasks <- OneTask
  Workers <- OneWorkerSet
  Concurrency = 1
  MaxAttempts = 2
  RaisesEarly <- None
  RaisesLate <- None
  MaxFaults = 0
  Bulk <- None
  Operators <- TwoOperators
  External <- None
  Comments <- Texts
  MaxTrail = 5
SPECIFICATION VSpec
INVARIANTS
  DecisionStands
CHECK_DEADLOCK FALSE
