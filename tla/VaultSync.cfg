SPECIFICATION FairSpec
CONSTANTS
  Device = {d1, d2}
  Linking = {d1, d2}
  Vault = {v1, v2}
  Call = {c1}
  MaxRev = 3
  None = None
INVARIANTS TypeOK OneSuccessorPerDevice LeavesTellAll
PROPERTIES ContentAdvances IsRevisionTree Agreement
