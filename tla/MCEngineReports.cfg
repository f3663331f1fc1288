CONSTANTS
  Keys <- TwoKeys
  Values <- ThreeValues
  Blanks <- OneBlank
  Lengths <- SomeLengths
  Confidences <- TwoLevels
  OrgMins <- FourMins
  MaxRecords = 2
SPECIFICATION ESpec
INVARIANTS
  ETypeOK
  VerifiedIsCorroborated
  ReportFits
CHECK_DEADLOCK FALSE
