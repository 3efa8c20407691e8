SPECIFICATION Spec
CONSTANTS
  Readers = {r1, r2}
  Letters = {"c", "x"}
  CKey = "c"
  Shifts = {"left_shift", "right_shift"}
  Controls = {"ctrl"}
  Silent = {"alt"}
  Beyond = {"F1"}
  KEY_BUFFER_SIZE = 3
  NoChar = NoChar
INVARIANT TypeOK
 
PROPERTY ImplementsTypeAhead
