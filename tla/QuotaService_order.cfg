CONSTANTS
  Call = {c1, c2}
  Token = {t1}
  NoKey = NoKey
  Quota = 2
  Amount = {}
  Operation = {"consume"}
  Failure = {}
  SyncQueueSize = 2
  LogQueueSize = 1
  SyncBatch = 1
  MaxRecursionDepth = 2
SPECIFICATION Spec
SYMMETRY Symmetry
INVARIANT LatestKept
