SPECIFICATION InstallationSpec
CONSTANTS
  Caller = {c1, c2}
  InstID = {i1, i2}
  NoId = NoId
  UserId = {u1, u2}
  Name = {n1, n2}
  NoProc = NoProc
  NoFile = NoFile
  MaxFaults = 1
  MaxBackups = 0
  MaxCommands = 2
SYMMETRY Symmetry
INVARIANTS
  InstallationTypeOK
  NoSessionOutlivesReset
  SnapshotIsCurrent
  RaceIsNeverLost
  RefusalChangesNothing
  NeverLocksItselfOut
PROPERTY
  ResetOnlyImports
