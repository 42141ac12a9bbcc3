SPECIFICATION Spec
CONSTANTS
  User = {u1}
  Admin = {u1}
  Legacy = {}
  Handler = {h1}
  MaxSid = 2
  SessionCap = 2
  DenyCap = 1
  MaxExpired = 0
  MaxFaults = 1
SYMMETRY Symmetry
INVARIANTS
  HalfLogoutFailsClosed
CHECK_DEADLOCK FALSE
