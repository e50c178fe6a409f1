\* Two experts, rows of both tables and all three attempts: a request may move an existing row
\* to another time or expert while a second one books against it.  No symmetry: the run checks
\* liveness.  All requests end: no deadlock check.
CONSTANTS
  Experts = {e1, e2}
  Consultations = {k1}
  LeadCalls = {c1}
  Reqs = {q1, q2}
  Horizon = 2
  MaxAttempts = 3
  None = None
SPECIFICATION FairSpec
CHECK_DEADLOCK FALSE
INVARIANTS
  NoDoubleBooking
PROPERTIES
  Ledger
  EveryRequestAnswered
