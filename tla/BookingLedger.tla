---------------------------- MODULE BookingLedger ----------------------------
(* What the experts' calendars promise: consultations and lead calls share  *)
(* one calendar per expert, a booking is granted only where nothing else    *)
(* stands, and a request is granted at most once however often it is tried. *)
EXTENDS Naturals

CONSTANTS
  Experts,        \* users with a consultant profile
  Consultations,  \* Consultation rows
  LeadCalls,      \* LeadExpertCall rows
  Reqs,           \* booking requests
  Horizon,        \* times are 0..Horizon
  None            \* a row that occupies no slot

ASSUME LedgerAssumption ==
  /\ Horizon \in Nat
  /\ Consultations \cap LeadCalls = {}
  /\ None \notin [expert : Experts, from : 0..Horizon, to : 0..Horizon]

Rows == Consultations \cup LeadCalls
Bookings == {b \in [expert : Experts, from : 0..Horizon, to : 0..Horizon] : b.from < b.to}

\* startTime < other.endTime and endTime > other.startTime, on one expert.
Overlap(a, b) == a.expert = b.expert /\ a.from < b.to /\ b.from < a.to

VARIABLES
  db,       \* the slot each committed row occupies
  granted   \* requests that were told their booking stands

ledgerVars == <<db, granted>>

LedgerInit ==
  /\ db = [r \in Rows |-> None]
  /\ granted = {}

Grant(t, r, b) ==
  /\ t \notin granted
  /\ \A q \in Rows \ {r} : db[q] # None => ~Overlap(db[q], b)
  /\ db' = [db EXCEPT ![r] = b]
  /\ granted' = granted \cup {t}

Free(r) ==
  /\ db' = [db EXCEPT ![r] = None]
  /\ UNCHANGED granted

LedgerNext ==
  \/ \E t \in Reqs, r \in Rows, b \in Bookings : Grant(t, r, b)
  \/ \E r \in Rows : Free(r)

LedgerSpec == LedgerInit /\ [][LedgerNext]_ledgerVars

\* No expert is in two places at once: two rows, of one table or of both, never overlap.
NoDoubleBooking ==
  \A q, r \in Rows : q # r /\ db[q] # None /\ db[r] # None => ~Overlap(db[q], db[r])
=============================================================================
