SPECIFICATION Spec
CONSTANTS
  VaultId = {i1, i2}
  Device = {p1, p2}
  Database = {d1, d2}
  Token = {t1, t2}
  Call = {c1, c2}
  None = None
INVARIANTS
  TypeOK
  NoLeakedSync
  EntryRunsUnlessDestroyed
  WaitingHasPull
PROPERTIES
  EveryLinkReturns
