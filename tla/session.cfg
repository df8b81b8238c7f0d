SPECIFICATION Spec
CONSTANTS
  t1 = t1
  t2 = t2
  s1 = s1
  Tty = {t1}
  Sender = {s1}
  Size = {z1}
  NoSize = NoSize
  QMax = 2
  SMax = 1
  LowWater = 1
  MaxInput <- OneInput
  MaxOut = 2
  MaxStops = 0
  PtyOut = 2
  PtyIn = 1
  Chunk = 2
INVARIANTS TypeOK NoFreedClient AttachReplay SocketModeAgrees IInv
PROPERTIES ChunkReachesSomebody OutputBroadcast
CHECK_DEADLOCK FALSE
