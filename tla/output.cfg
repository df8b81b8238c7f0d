SPECIFICATION Spec
CONSTANTS
  t1 = t1
  t2 = t2
  s1 = s1
  Tty = {t1, t2}
  Sender = {}
  Size = {z1}
  NoSize = NoSize
  QMax = 2
  SMax = 1
  LowWater = 1
  MaxInput <- QuietInput
  MaxOut = 3
  MaxStops = 1
  PtyOut = 2
  PtyIn = 1
  Chunk = 2
INVARIANT LoneClientMissesNothing
PROPERTY OutputInOrder
CHECK_DEADLOCK FALSE
