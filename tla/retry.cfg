SPECIFICATION Spec
CONSTANTS
  t1 = t1
  t2 = t2
  s1 = s1
  Tty = {t1}
  Sender = {}
  Size = {z1}
  NoSize = NoSize
  QMax = 2
  SMax = 2
  LowWater = 1
  MaxInput <- RetryInput
  MaxOut = 3
  MaxStops = 0
  PtyOut = 2
  PtyIn = 1
  Chunk = 2
PROPERTY RetryOnlyIfNothingHappened
CHECK_DEADLOCK FALSE
