SPECIFICATION Spec
CONSTANTS
  a1 = a1
  a2 = a2
  a3 = a3
  a4 = a4
  b1 = b1
  b2 = b2
  b3 = b3
  b4 = b4
  w1 = w1
  None = None
  Addr = {a1, a2, a3, a4}
  Block = {b1, b2, b3, b4}
  Worker = {w1}
  NameResAtStart = {TRUE}
  Toggles = TRUE
  Signals = FALSE
  MaxActive = 2
  Slack = 0
  RefreshDelay = 0
  FailDelay = 0
  FoundDelay = 0
  MaxDelay = 4
  Jitter = {0}
  MaxTick = 1
  MaxQueue = 2
SYMMETRY ResolverSymmetry
INVARIANTS
  TypeOK
  NoItemForgotten
