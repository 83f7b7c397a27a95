SPECIFICATION FairSpec
CONSTANTS
  Commands = {"next", "timeout"}
  TimerId = {t1, t2}
  t1 = t1
  t2 = t2
  FileLen = 4
  Delays = {0, 2}
  ForceMin = 1
  InitFails = {}
  ReadErrors = FALSE
  Signals = FALSE
  Load = "any"
INVARIANTS
  PacedReplay
PROPERTIES
  ReplayEnds
