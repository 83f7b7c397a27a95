SPECIFICATION FairSpec
CONSTANTS
  a1 = a1
  b1 = b1
  w1 = w1
  None = None
  Addr = {a1}
  Block = {b1}
  Worker = {w1}
  NameResAtStart = {TRUE}
  Toggles = FALSE
  Signals = TRUE
  MaxActive = 2
  Slack = 0
  RefreshDelay = 1
  FailDelay = 2
  FoundDelay = 1
  MaxDelay = 4
  Jitter = {0}
  MaxTick = 1
  MaxQueue = 2
PROPERTIES
  ExitsOnSignal
CHECK_DEADLOCK FALSE
