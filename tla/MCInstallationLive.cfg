SPECIFICATION FairInstallationSpec
CONSTANTS
  Caller = {c1, c2}
  InstID = {i1, i2}
  NoId = NoId
  UserId = {u1}
  Name = {n1}
  NoProc = NoProc
  NoFile = NoFile
  MaxFaults = 1
  MaxBackups = 0
  MaxCommands = 1
PROPERTIES
  DaemonComesBack
  MissingSealIsRepaired
