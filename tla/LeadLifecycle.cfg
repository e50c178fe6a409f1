\* Experts, calls, reminders, times and terms in twos: the fewest for which a stale row of
\* the first can meet the second.  A closed lead has nothing left to do: no deadlock check.
CONSTANTS
  Managers = {m1}
  Experts = {e1, e2}
  Calls = {c1, c2}
  Callbacks = {k1}
  Reminders = {r1, r2}
  Previews = {p1}
  Times = {t1, t2}
  Terms = {x1, x2}
  None = None
SPECIFICATION Spec
SYMMETRY Symmetry
CHECK_DEADLOCK FALSE
INVARIANTS
  OneActiveCall
  StatusMatchesCall
  ActiveCallAnswerable
  StartedByAssigned
  MeetingMatchesCall
  PreviewBookedOnce
  CallbackExclusive
  ReminderTracksCallback
  ContractingFrozen
PROPERTIES
  FollowsFunnel
  SignedTermsBinding
