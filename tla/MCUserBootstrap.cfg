SPECIFICATION Spec
CONSTANTS
  Caller = {c1, c2}
  InstID = {i1, i2}
  NoId = NoId
  UserId = {u1}
  MaxFaults = 2
  MaxBackups = 1
SYMMETRY Symmetry
INVARIANTS
  TypeOK
  ExactlyOnce
  MarkerMatchesSeal
  InitializedIsSealed
PROPERTY
  SealClosesSetup
