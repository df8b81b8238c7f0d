SPECIFICATION Spec
CONSTANTS
  Line = {x, EMPTY}
  EMPTY = EMPTY
  MaxLines = 3
  MaxActions = 2
  MaxTyped = 3
  MaxUndo = 1
  Edges = {"joinLast"}
PROPERTY HistoryRefined
