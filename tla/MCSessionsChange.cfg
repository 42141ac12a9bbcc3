SPECIFICATION Spec
CONSTANTS
  User = {u1}
  Admin = {u1}
  Legacy = {}
  Handler = {h1, h2}
  MaxSid = 2
  SessionCap = 2
  DenyCap = 1
  MaxExpired = 0
  MaxFaults = 0
SYMMETRY Symmetry
INVARIANTS
  OldVerifierRetired
CHECK_DEADLOCK FALSE
