SPECIFICATION Spec
CONSTANTS
  Limit = 16
  Request = {1, 4}
  SplitAt = 2
  Extra = 1
  Increase = 2
INVARIANTS TypeOK Tiled NoneMissed Room
PROPERTY HeapRefined
CHECK_DEADLOCK FALSE
