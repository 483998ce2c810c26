SPECIFICATION Spec
CONSTANTS
  VaultName = {n1, n2}
  VaultId = {i1, i2}
  Recorder = {r1}
  Call = {c1, c2}
  None = None
SYMMETRY Interchangeable
INVARIANTS
  TypeOK
  NamesResolve
PROPERTIES
  RestoredAsRecorded
