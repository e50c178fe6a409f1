SPECIFICATION FairSpec
CONSTANTS
  Users = {u1}
  Sockets = {k1}
  Servers = {n1, n2}
  MaxEdits = 3
  MaxFaults = 2
INVARIANTS
  NoneSlipsThrough
  EveryHolderWatched
PROPERTIES
  AccessEnds
