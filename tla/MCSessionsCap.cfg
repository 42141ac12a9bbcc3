SPECIFICATION Spec
CONSTANTS
  User = {u1}
  Admin = {u1}
  Legacy = {}
  Handler = {h1}
  MaxSid = 4
  SessionCap = 2
  DenyCap = 1
  MaxExpired = 0
  MaxFaults = 0
SYMMETRY Symmetry
INVARIANTS
  ConsumedRowsRetained
CHECK_DEADLOCK FALSE
