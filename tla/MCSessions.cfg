SPECIFICATION BoundedSpec
CONSTANTS
  User = {u1, u2}
  Admin = {u1}
  Legacy = {u1}
  Handler = {h1, h2}
  MaxSid = 3
  SessionCap = 2
  DenyCap = 1
  MaxExpired = 1
  MaxFaults = 1
SYMMETRY Symmetry
INVARIANTS
  TypeOK
  RetiredFamiliesStayDead
  OneLiveLeafPerLogin
  LoggedOutStaysOut
PROPERTY OldPasswordStaysOut
CHECK_DEADLOCK FALSE
