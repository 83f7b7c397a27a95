SPECIFICATION FairSpec
CONSTANTS
  a1 = a1
  a2 = a2
  b1 = b1
  b2 = b2
  w1 = w1
  w2 = w2
  None = None
  Addr = {a1, a2}
  Block = {b1, b2}
  Worker = {w1, w2}
  NameResAtStart = {TRUE}
  Toggles = FALSE
  Signals = TRUE
  MaxActive = 2
  Slack = 0
  RefreshDelay = 1
  FailDelay = 2
  FoundDelay = 2
  MaxDelay = 4
  Jitter = {0}
  MaxTick = 1
  MaxQueue = 2
INVARIANTS
  NoLostWakeup
  RightName
PROPERTIES
  RequestsAnswered
CHECK_DEADLOCK FALSE
