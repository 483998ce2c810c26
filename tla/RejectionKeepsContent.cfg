SPECIFICATION Spec
CONSTANTS
  Device = {d1, d2}
  Linking = {d1}
  Vault = {v1, v2}
  Call = {c1, c2}
  MaxRev = 3
  None = None
INVARIANTS RejectionKeepsContent
