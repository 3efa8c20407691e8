SPECIFICATION FairSpec
CONSTANTS
  Procs = {p1, p2}
  Creator = p1
  Bytes = {"a", "b"}
  NoByte = "?"
  PIPE_BUF_SIZE = 2
  MaxSize = 3
INVARIANT TypeOK
INVARIANT AsleepForAReason
INVARIANT FreedIsUnused
INVARIANT FreedOnce
PROPERTY ClosedEndsReleasePeers
PROPERTY ImplementsChannel
CHECK_DEADLOCK FALSE
