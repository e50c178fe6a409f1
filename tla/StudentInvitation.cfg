SPECIFICATION FairSpec
CONSTANTS
  Workers = {w1, w2}
  Resends = {r1, r2}
  Accepts = {a1, a2}
  MaxVersion = 2
  MaxFaults = 2
CHECK_DEADLOCK FALSE
INVARIANTS
  SentIsCurrent
PROPERTIES
  ActivatesOnce
  EventuallySent
