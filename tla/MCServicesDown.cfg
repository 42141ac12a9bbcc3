CHECK_DEADLOCK FALSE
SPECIFICATION PartsSpec
CONSTANTS
  Event = {"a1", "big"}
  Shape <- ShapeOf
  Serial <- SerialOf
  Disk = {"a", "b"}
  Call = {c1}
  NoEvent = NoEvent
  BusShapes = {"storage", "oversized"}
  BusMayStop = TRUE
  MaxDials = 2
  Port = {p1, p2}
  NoPort = NoPort
  BusState = {"absent", "refusing", "failing", "garbled", "answering", "hung"}
  MaxFaults = 0
  Request = {r1}
  Bad = Bad
INVARIANT
  DaemonOutlivesBus
