SPECIFICATION KeepSpec
CONSTANTS
  VaultName = {n1, n2, n3}
  VaultId = {i1, i2, i3}
  Recorder = {r1, r2}
  Call = {c1, c2}
  None = None
SYMMETRY Interchangeable
INVARIANTS
  OneDatabasePerVault
  RecordedWhereOpen
PROPERTIES
  RecordsAreALog
