SPECIFICATION Spec
CONSTANTS
  Frames = {1,2,3,4,5,6,7,8,9,10,11,12,13,14,15,16,17}
  PAGE_SIZE = 8
  HEADER = 1
  SLACK = 1
  Pids = {1, 2}
  Entries = 4
  StackPages = 1
  Programs = {1, 2}
  TASK = 2
  PIPE = 9
  PHDRS = 3
  Buffers = {3}
  MaxPipes = 1
INVARIANTS MemoryTypeOK   
PROPERTY PagesKept
CHECK_DEADLOCK FALSE
