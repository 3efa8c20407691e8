SPECIFICATION FairSpec
CONSTANTS
  MaxTask = 2
  SleepMs = {0, 20}
  Pipes = {p1}
  NoPipe = NoPipe
  Signals = {}
INVARIANT TypeOK
INVARIANT NoUseAfterFree
PROPERTY RefinesLifecycle
PROPERTY ReadyRuns
 
PROPERTY InterruptsReturn
