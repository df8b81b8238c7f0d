SPECIFICATION FairSpec
CONSTANTS
  t1 = t1
  t2 = t2
  s1 = s1
  Tty = {t1}
  Sender = {}
  Size = {z1, z2}
  NoSize = NoSize
  QMax = 1
  SMax = 1
  LowWater = 1
  MaxInput <- LiveInput
  MaxOut = 1
  MaxStops = 0
  PtyOut = 1
  PtyIn = 1
  Chunk = 1
INVARIANT SizeSettles
PROPERTIES AttachServed ExitEndsMaster MasterEndEndsClients
CHECK_DEADLOCK FALSE
