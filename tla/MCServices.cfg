CHECK_DEADLOCK FALSE
SPECIFICATION PartsFairSpec
CONSTANTS
  Event = {"a1", "a2", "raid"}
  Shape <- ShapeOf
  Serial <- SerialOf
  Disk = {"a", "b"}
  Call = {c1, c2}
  NoEvent = NoEvent
  BusShapes = {"storage", "foreign", "raid_status", "oversized", "no_uuid"}
  BusMayStop = TRUE
  MaxDials = 2
  Port = {p1, p2}
  NoPort = NoPort
  BusState = {"absent", "refusing", "failing", "garbled", "answering", "hung"}
  MaxFaults = 2
  Request = {r1, r2}
  Bad = Bad
INVARIANTS
  PartsTypeOK
  SerialIsCleared
  NoStaleRoute
  WorkIsBounded
  VerifiesAsWritten
PROPERTIES
  SentIsHandled
  EventuallyServes
  EveryRequestAnswered
