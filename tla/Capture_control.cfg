SPECIFICATION Spec
CONSTANTS
  Commands = {"start", "pause", "next", "stop", "interface", "open", "mode", "timeout"}
  TimerId = {t1, t2, t3}
  t1 = t1
  t2 = t2
  t3 = t3
  FileLen = 2
  Delays = {0, 2}
  ForceMin = 1
  InitFails = {"open", "link"}
  ReadErrors = TRUE
  Signals = TRUE
  Load = "any"
SYMMETRY TimerSymmetry
INVARIANTS
  TypeOK
  RunningIsOpen
  ReplayTimerCurrent
  OpenDeviceRuns
PROPERTIES
  StopWaitsForUpdate
