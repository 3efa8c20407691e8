SPECIFICATION Spec
CONSTANTS
  Procs = {p1, p2}
  First = p1
  MaxFds = 2
  MAX_OPEN_FILES = 3
  Pipes = {q1}
  NoPipe = NoPipe
  None = None
INVARIANT DescriptorsStayOpen
CHECK_DEADLOCK FALSE
