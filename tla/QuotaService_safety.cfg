CONSTANTS
  Call = {c1, c2}
  Token = {t1}
  NoKey = NoKey
  Quota = 1
  Amount = {2}
  Operation = {"consume", "query", "update"}
  Failure = {"redis", "db", "expiry"}
  SyncQueueSize = 1
  LogQueueSize = 1
  SyncBatch = 2
  MaxRecursionDepth = 1
SPECIFICATION Spec
INVARIANT TypeOK
INVARIANT Conserved
INVARIANT RowLags
INVARIANT PaidOnce
INVARIANT NeverInflated
INVARIANT LogsAccounted
PROPERTY CallsReturn
