CONSTANTS
  SlabSize = 3
  CellSz <- MCCellSz
  SoaMax = 2
  ArenaSlabs = 2
  ScbSize = 1
  BucketMax <- MCBucketMax
  Machine = 3
  Base = 3
  Avail = 28
  ArenaSlack = 2
  ArenaMin = 4
  Requests = {1, 2, 4}
  MaxObjects = 3
  MaxCalls = 8
  Validating = {TRUE}
SPECIFICATION Spec
INVARIANTS Apart FreesAreRight NoLeak Audited
CHECK_DEADLOCK FALSE
