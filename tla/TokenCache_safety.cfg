CONSTANTS
  Token = {t1, t2}
  Managed = {t1}
  Reader = {r1}
  Admin = {a1, a2}
  HotMax = 1
  HotTTL = 1
  WarmTTL = 1
  QueueSize = 1
  Expiry = {0, 99}
  Environments = {{"time", "quota", "redis"}, {"clear", "db"}}
  MaxVersion = 3
  MaxTime = 2
  None = None
SPECIFICATION Spec
INVARIANTS TypeOK HotAgrees StaleNeedsOverlap
PROPERTIES BoundedStaleness
CHECK_DEADLOCK FALSE
