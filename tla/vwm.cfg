SPECIFICATION FairSpec
CONSTANTS
  MaxWins = 2
  MaxFrames = 2
  Rows = {4, 7}
  Params = {2, 3}
INVARIANTS TypeOK NothingFreed RowsFilled
PROPERTIES NoneLeftBehind SizeTold DeadFramesGo KeysHeard
CHECK_DEADLOCK FALSE
