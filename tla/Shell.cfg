SPECIFICATION FairSpec
CONSTANTS
  Server = {s1}
  Port = {w1}
  None = None
  Name = {n1, n2}
  Used = {n1}
  Id = {i1, i2}
  Password = {p1, p2}
  PasswordOf <- OwnPasswords
  Empty = Empty
  Removed = Removed
  Gone = Gone
INVARIANTS TypeOK OneReader SecretsAreSilent
PROPERTIES KeepsVaults PromptReturns
