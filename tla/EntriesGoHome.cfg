SPECIFICATION MeantSpec
CONSTANTS
  Server = {s1}
  Port = {w1}
  None = None
  Name = {n1, n2}
  Used = {n1, n2}
  Id = {i1, i2}
  Password = {p1, p2}
  PasswordOf <- OnePassword
  Empty = Empty
  Removed = Removed
  Gone = Gone
INVARIANTS EntriesGoHome
