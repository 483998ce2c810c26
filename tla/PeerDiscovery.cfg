SPECIFICATION FairSpec
CONSTANTS
  Address = {a1, a2}
  PeerId = {p1, p2}
  Task = {t1, t2}
  Answer <- OneTwice
  None = None
INVARIANTS TypeOK PeersAreTold
PROPERTIES WalkAsksAsListed EveryWalkEnds EveryLoopEnds
