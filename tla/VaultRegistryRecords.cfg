SPECIFICATION Spec
CONSTANTS
  VaultName = {n1}
  VaultId = {i1, i2}
  Recorder = {r1, r2}
  Call = {c1, c2}
  None = None
INVARIANTS
  UniqueIds
  PendingOrRecorded
PROPERTIES
  EveryVaultRecorded
  EveryCallReturns
