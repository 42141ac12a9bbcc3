SPECIFICATION PartsSpec
CONSTANTS
  Key = {k1}
  Handler = {h1, h2}
  Limit = 2
  Window = 2
  Length = 1
  Retention = 3
  MaxTime = 6
  MaxFaults = 1
  User = {u1, u2}
  Text = {t1}
  Blank = Blank
  MaxPassword = 1
  Name = {n1, n2, n3}
  Spare = n3
SYMMETRY Symmetry
INVARIANTS
  PartsTypeOK
  GuessBudget
PROPERTIES
  LockStands
  EditUndoesNothing
