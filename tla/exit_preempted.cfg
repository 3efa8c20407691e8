SPECIFICATION FairSpec
CONSTANTS
  MaxTask = 2
  SleepMs = {0}
  Pipes = {p1}
  NoPipe = NoPipe
  Signals = {}
PROPERTY ExitReleasesWaiters
CHECK_DEADLOCK FALSE
