CONSTANTS
  None = None
  Submitter = {"s1", "s2"}
  Worker = {"w1", "w2"}
  QueueSize = 1
  MaxTasks = 2
  Key = {"a", "b"}
  Batches <- MCBatches
  FlushSize = 2
  Extra = {"e1"}
  MaxSets = 3
  DBFails = TRUE
  Trigger = {"t"}
  DeleteSize = 2
  MaxOld = 3
  Recorder = {"r1", "r2"}
  Id = {"x", "y"}
  Token = {"t"}
  Codes <- MCCodes
  MaxRecords = 2
  Call = {"c1", "c2"}
  MaxConcurrent = 1
  MinRequests = 2
  FailPercent = 50
  Probes = 1
  MaxCalls = 2
  Handler = {"h1", "h2"}
  MaxRequests = 3
SPECIFICATION LiveSpec
INVARIANTS DrainedMeansRun ClosedMeansWritten CleanedAccounted NoWaitCycle LoopsBounded  BodyReadable 
PROPERTIES AsyncReturns  
CHECK_DEADLOCK FALSE
