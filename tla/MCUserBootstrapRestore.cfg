SPECIFICATION Spec
CONSTANTS
  Caller = {c1}
  InstID = {i1, i2, i3}
  NoId = NoId
  UserId = {u1}
  MaxFaults = 1
  MaxBackups = 1
INVARIANT
  RestoreNeverReopensSetup
