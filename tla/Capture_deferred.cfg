SPECIFICATION FairSpec
CONSTANTS
  Commands = {"start", "stop", "pause"}
  TimerId = {t1, t2}
  t1 = t1
  t2 = t2
  FileLen = 1
  Delays = {0, 2}
  ForceMin = 1
  InitFails = {}
  ReadErrors = FALSE
  Signals = FALSE
  Load = "heavy"
PROPERTIES
  StopHonoured
  EofShown
