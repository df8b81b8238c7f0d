SPECIFICATION Spec
CONSTANTS
  MaxCmds = 3
  MaxLines = 2
  MaxTurns = 2
  Capacity = 1
  MaxWrite = 2
INVARIANTS TypeOK StatusDecides NoChildLeftBehind
PROPERTY Returns
CHECK_DEADLOCK FALSE
