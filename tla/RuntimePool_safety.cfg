CONSTANTS
  Request = {r1, r2}
  Runtime = {x1, x2, x3, x4}
  NoRuntime = NoRuntime
  PoolSize = 1
  MinPoolSize = 1
  MaxPoolSize = 2
  MaxConcurrent = 2
  MaxReuse = 2
  MinErrorCount = 0
  ErrorPercent = 10
  ExpandPercent = 100
  IdleFloor = 0
  ShrinkStep = 10
  ExpandFloor = 1
  MaxTicks = 2
SPECIFICATION Spec
SYMMETRY Symmetry
INVARIANT TypeOK
INVARIANT OneOwner
INVARIANT SizeAccounted
INVARIANT WornOutLeaves
INVARIANT PooledClean
INVARIANT DrainsEarlyCalls
