SPECIFICATION Spec
CONSTANTS
  Clusters = {2, 3, 4}
  ROOT = 2
  Slots = 4
  Copies = 2
  Names = {a, b}
  Lfns = {1, 2}
  Values = {x}
  Junk = Junk
  Offsets = {0, 1}
  Sizes = {1}
  MaxDepth = 2
  MaxStops = 1
SYMMETRY MCSymmetry
INVARIANTS TypeOK   CopiesFollow
 
CHECK_DEADLOCK FALSE
