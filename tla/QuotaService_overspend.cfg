CONSTANTS
  Call = {c1, c2}
  Token = {t1}
  NoKey = NoKey
  Quota = 1
  Amount = {}
  Operation = {"consume"}
  Failure = {"expiry"}
  SyncQueueSize = 1
  LogQueueSize = 1
  SyncBatch = 1
  MaxRecursionDepth = 2
SPECIFICATION Spec
SYMMETRY Symmetry
INVARIANT NoOverspend
