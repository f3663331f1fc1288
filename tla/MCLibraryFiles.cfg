CONSTANTS
  r1 = r1
  r2 = r2
  Requests <- TwoRequests
  Types <- TwoTypes
  SeedTypes <- OneSeed
  Documents <- OneKind
  MaxSize = 1
  MaxPaths = 3
  MaxRefs = 2
  MaxLosses = 1
SPECIFICATION LSpec
INVARIANTS
  LTypeOK
  RowsHaveFiles
  FilesHaveOneRow
  NothingOrphaned
  NewCodesAreNew
  StoredAreDocuments
SYMMETRY RequestSymmetry
CHECK_DEADLOCK FALSE
