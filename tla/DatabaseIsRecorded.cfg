SPECIFICATION Spec
CONSTANTS
  VaultName = {n1, n2}
  VaultId = {i1, i2}
  Recorder = {r1, r2}
  Call = {c1, c2}
  None = None
SYMMETRY Interchangeable
INVARIANTS
  DatabaseIsRecorded
