SPECIFICATION Spec
CONSTANTS
  MaxTask = 2
  SleepMs = {0}
  Pipes = {}
  NoPipe = NoPipe
  Signals = {2}
PROPERTY KillTerminates
CHECK_DEADLOCK FALSE
