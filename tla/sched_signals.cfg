SPECIFICATION FairSpec
CONSTANTS
  MaxTask = 2
  SleepMs = {0, 20}
  Pipes = {}
  NoPipe = NoPipe
  Signals = {1}
INVARIANT WaitersHaveTarget
 
PROPERTY ExitReleasesWaiters
CHECK_DEADLOCK FALSE
