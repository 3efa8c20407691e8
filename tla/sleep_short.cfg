SPECIFICATION Spec
CONSTANTS
  MaxTask = 2
  SleepMs = {0, 20}
  Pipes = {}
  NoPipe = NoPipe
  Signals = {}
PROPERTY OnlyTheTimerCounts
CHECK_DEADLOCK FALSE
