SPECIFICATION Spec
CONSTANTS
  Vault = {v1, v2}
  Password = {p1, p2}
  Text = {t1, t2}
  Ascii = {t1}
  Garbled = Garbled
  None = None
  Name = {n1, n2}
  Call = {c1, c2}
  PasswordOf <- OwnPasswords
  TextOf <- OwnTexts
  Used = {n1}
  Kept = v2
  Empty = Empty
  Removed = Removed
  Gone = Gone
INVARIANTS TypeOK StoredOpens AnswersMatch
PROPERTIES KeepsVaults EveryCallAnswered
