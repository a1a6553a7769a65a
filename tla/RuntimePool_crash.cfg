CONSTANTS
  Request = {r1, r2}
  Runtime = {x1, x2, x3, x4}
  NoRuntime = NoRuntime
  PoolSize = 1
  MinPoolSize = 1
  MaxPoolSize = 2
  MaxConcurrent = 2
  MaxReuse = 1
  MinErrorCount = 0
  ErrorPercent = 10
  ExpandPercent = 100
  IdleFloor = 0
  ShrinkStep = 10
  ExpandFloor = 1
  MaxTicks = 0
SPECIFICATION Spec
INVARIANT NoCrash
