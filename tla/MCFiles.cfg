SPECIFICATION PartsSpec
CONSTANTS
  Handler = {h1, h2}
  MaxChanges = 2
  MaxFaults = 2
SYMMETRY Symmetry
INVARIANTS
  PartsTypeOK
  ReportedIsDurable
  NoStrayTemporaries
  ReadAsMeant
  GraphIsWhole
  SealIsOutside
  PassIsExact
  PassIsClean
PROPERTY
  ImplementsRegister
