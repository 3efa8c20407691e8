SPECIFICATION FilesSpec
CONSTANTS
  Blocks = {1, 2, 3}
  Inodes = {2, 3, 4}
  ROOT = 2
  Direct = 2
  Slots = 3
  Names = {a, b}
  NoName = NoName
  Values = {x}
  Users = {0, 1}
  MaxDepth = 2
  MaxStops = 1
  MaxAttributed = 0
  Offsets = {0, 2}
  Sizes = {1, 2}
  Mounts <- MCMounts
  Letters = {"f", "d"}
  MaxInput = 3
  MaxFrom = 2
SYMMETRY MCSymmetry
INVARIANTS AccountsTypeOK   NothingLost   MountsGoByComponents
 
CHECK_DEADLOCK FALSE
