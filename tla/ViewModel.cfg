SPECIFICATION FairSpec
CONSTANTS
  Vault = {v1, v2}
  Entry = {k1}
  Edit = {e1}
  Call = {c1, c2}
  None = None
INVARIANTS TypeOK ContentStaysHome MessageHasCommand
PROPERTIES EveryMessageResolves
