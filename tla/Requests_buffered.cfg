CONSTANTS
  Focus = {"upload"}
  None = None
  Caller = {c1, c2}
  Request = {r1, r2}
  Token = {t1, t2}
  PerMinute = 2
  Burst = 1
  WindowSeconds = 2
  MaxTokens = 1
  MaxErrors = 1
  CleanupAge = 0
  RedisFails = TRUE
  LimiterTime = 2
  LimiterCalls = 2
  IP = {"i"}
  Rate <- MCOne
  Capacity <- MCCapacity
  MaxAge <- MCOne
  Interval = 1
  AddressTime = 3
  CodeTTL = 1
  CooldownTTL = 1
  MailTTL = 1
  MaxAttempts = 2
  RateLimit <- MCRateLimit
  MaxCodes = 2
  QueryTime = 2
  MaxPerWindow = 1
  PageTTL = 1
  SessionTTL = 2
  CookieAge = 2
  MaxSessions = 2
  PageTime = 3
  Bearer = {"counted", "timed"}
  Metered = {"counted"}
  Quota = 1
  MaxConcurrent = 1
  MaxAccepted = 1
  Code = {"a", "b", "c", "n", "x"}
  Normal <- MCNormal
  Shard <- MCShard
  ShardSize = 2
  ValidCodes = {"a", "b", "c"}
  Compiles = {"a", "b", "c"}
  MaxCompiles = 3
  Lengths = {2, 3, 4}
  ChunkSize = 2
  ReadSizes = {1, 3}
  MaxSize = 3
  MaxBody = 2
  BodyCalls = 4
  Name = {"a", "q"}
  Awkward = {"q"}
  PartSizes = {1, 2}
  Threshold = 6
  MaxPart = 1
  MaxEntries = 2
  UploadSizes = {1, 2}
  MaxBuffered = 2
  MaxStreaming = 2
  MaxFile = 2
  StreamGuess = 1
  UploadEntries = 2
  MaxUploads = 2
  PooledRuntimes = {"r1", "r2"}
  LoopRuntime = "loop"
  AllocationLimit = 16
  AllocationNumbers = {2, 3, 17}
  MaxLoads = 2
  MaxAllocations = 2
  BlobByte = {7}
  BlobLimits = {1, 13}
  BlobTexts <- MCBlobTexts
  BlobFirst <- MCBlobFirst
  MaxBlobs = 2
  MaxStores = 3
  MaxPut = 1
SPECIFICATION SpecOfAll
SYMMETRY Symmetry
INVARIANTS BufferedWithinLimit
CHECK_DEADLOCK FALSE
