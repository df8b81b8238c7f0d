SPECIFICATION Spec
CONSTANTS
  Limit = 16
  Request = {1, 4}
  SplitAt = 2
  Extra = 1
  Increase = 2
INVARIANT MergesKeepFirst
CHECK_DEADLOCK FALSE
