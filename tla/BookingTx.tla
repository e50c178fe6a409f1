------------------------------ MODULE BookingTx ------------------------------
(***************************************************************************)
(* How a slot is really booked: leadTransaction runs each request at       *)
(* Serializable isolation, up to three times, and the request takes the    *)
(* expert's advisory lock before it looks for overlapping rows.            *)
(*                                                                         *)
(* PostgreSQL takes a Serializable transaction's snapshot at its first     *)
(* statement, BEFORE the lock is granted.  A request that waited for the   *)
(* lock therefore looks at a calendar without the booking it waited for:   *)
(* what protects the calendar is not the lock but the abort of one of two  *)
(* transactions that each missed what the other wrote, and the retry with  *)
(* a new snapshot.                                                         *)
(*                                                                         *)
(* The database is external.  Of its guarantee the model keeps only what   *)
(* the calendar needs: a transaction does not commit over a row written    *)
(* since its snapshot, nor when it and a transaction committed since its   *)
(* snapshot each read the slot the other wrote.  It may abort more.        *)
(***************************************************************************)
EXTENDS BookingLedger

CONSTANT MaxAttempts   \* leadTransaction's three attempts

ASSUME AttemptsAssumption == MaxAttempts \in Nat \ {0}

VARIABLES
  phase,     \* where each request stands
  req,       \* the row a request writes and the slot it wants for it
  attempt,   \* transactions started so far for the request
  snap,      \* the calendar its transaction sees
  missed,    \* requests committed since that snapshot
  touched,   \* rows written by others since that snapshot
  lock       \* holder of each expert's advisory transaction lock

txVars == <<phase, req, attempt, snap, missed, touched, lock>>
vars == <<db, granted, txVars>>

Open == {"STARTED", "LOCKED", "CHECKED"}
Answered == {"BOOKED", "REFUSED", "EXHAUSTED", "LOST"}
Phases == {"IDLE", "READY"} \cup Open \cup Answered

EmptyCalendar == [r \in Rows |-> None]

Init ==
  /\ LedgerInit
  /\ phase = [t \in Reqs |-> "IDLE"]
  /\ req = [t \in Reqs |-> [row |-> None, slot |-> None]]
  /\ attempt = [t \in Reqs |-> 0]
  /\ snap = [t \in Reqs |-> EmptyCalendar]
  /\ missed = [t \in Reqs |-> {}]
  /\ touched = [t \in Reqs |-> {}]
  /\ lock = [e \in Experts |-> None]

-----------------------------------------------------------------------------
\* The consultation query of slotOccupied and assertSlotAvailable ...
FindsConsultation(r, b, q, x) == q \in Consultations /\ q # r /\ Overlap(b, x)
SlotHasConsultation(r, b, q, x) == FindsConsultation(r, b, q, x)   \* bug: no lead calls
\* ... and their lead-call query; each leaves out the row being edited.
FindsCall(r, b, q, x) == q \in LeadCalls /\ q # r /\ Overlap(b, x)

\* consultation.repository.ts slotOccupied
SlotOccupied(r, b, q, x) == FindsConsultation(r, b, q, x) \/ FindsCall(r, b, q, x)
\* lead-expert-call.service.ts assertSlotAvailable
SlotUnavailable(r, b, q, x) == FindsConsultation(r, b, q, x) \/ FindsCall(r, b, q, x)

\* Booking slot b in row r, a request's availability query returns row q holding x.
Sees(r, b, q, x) ==
  IF r \in Consultations THEN SlotOccupied(r, b, q, x) ELSE SlotUnavailable(r, b, q, x)

\* t's query covers the slot u wrote.
Reads(t, u) == Sees(req[t].row, req[t].slot, req[u].row, req[u].slot)

RepeatableRead(t) == req[t].row \notin touched[t]   \* bug: isolation level not raised
\* The database lets t commit.
Serializable(t) ==
  /\ req[t].row \notin touched[t]
  /\ \A u \in missed[t] : ~(Reads(t, u) /\ Reads(u, t))

\* bug: pg_advisory_lock, which a session keeps when its transaction ends
EndKeepingLock(t) ==
  /\ UNCHANGED lock
  /\ snap' = [snap EXCEPT ![t] = EmptyCalendar]

\* The transaction of t ends: its lock is freed and its snapshot forgotten.
End(t) ==
  /\ lock' = [e \in Experts |-> IF lock[e] = t THEN None ELSE lock[e]]
  /\ snap' = [snap EXCEPT ![t] = EmptyCalendar]

\* A committed write of row r is missed by every transaction already open.
Overwritten(r) ==
  [u \in Reqs |-> IF phase[u] \in Open THEN touched[u] \cup {r} ELSE touched[u]]

-----------------------------------------------------------------------------
Submit(t, r, b) ==
  /\ phase[t] = "IDLE"
  /\ req' = [req EXCEPT ![t] = [row |-> r, slot |-> b]]
  /\ phase' = [phase EXCEPT ![t] = "READY"]
  /\ UNCHANGED <<db, granted, attempt, snap, missed, touched, lock>>

\* First statement of an attempt: the snapshot.
Begin(t) ==
  /\ phase[t] = "READY"
  /\ attempt' = [attempt EXCEPT ![t] = @ + 1]
  /\ snap' = [snap EXCEPT ![t] = db]
  /\ missed' = [missed EXCEPT ![t] = {}]
  /\ touched' = [touched EXCEPT ![t] = {}]
  /\ phase' = [phase EXCEPT ![t] = "STARTED"]
  /\ UNCHANGED <<db, granted, req, lock>>

\* pg_advisory_xact_lock: waits until no transaction holds the expert.
LockExpert(t) ==
  /\ phase[t] = "STARTED"
  /\ lock[req[t].slot.expert] = None
  /\ lock' = [lock EXCEPT ![req[t].slot.expert] = t]
  /\ phase' = [phase EXCEPT ![t] = "LOCKED"]
  /\ UNCHANGED <<db, granted, req, attempt, snap, missed, touched>>

\* The availability check, on the snapshot; an occupied slot rolls back and is not retried.
Check(t) ==
  /\ phase[t] = "LOCKED"
  /\ IF \E q \in Rows : snap[t][q] # None /\ Sees(req[t].row, req[t].slot, q, snap[t][q])
     THEN phase' = [phase EXCEPT ![t] = "REFUSED"] /\ End(t)
     ELSE phase' = [phase EXCEPT ![t] = "CHECKED"] /\ UNCHANGED <<lock, snap>>
  /\ UNCHANGED <<db, granted, req, attempt, missed, touched>>

Commit(t) ==
  /\ phase[t] = "CHECKED"
  /\ Serializable(t)
  /\ db' = [db EXCEPT ![req[t].row] = req[t].slot]
  /\ granted' = granted \cup {t}
  /\ phase' = [phase EXCEPT ![t] = "BOOKED"]
  /\ missed' = [u \in Reqs |-> IF phase[u] \in Open THEN missed[u] \cup {t} ELSE missed[u]]
  /\ touched' = Overwritten(req[t].row)
  /\ End(t)
  /\ UNCHANGED <<req, attempt>>

\* The database reports a conflict, with or without a reason of the calendar: next attempt, or
\* HTTP 409 after the last.
Conflict(t) ==
  /\ phase[t] \in Open
  /\ phase' = [phase EXCEPT ![t] = IF attempt[t] < MaxAttempts THEN "READY" ELSE "EXHAUSTED"]
  /\ End(t)
  /\ UNCHANGED <<db, granted, req, attempt, missed, touched>>

\* The process or its connection dies: the transaction rolls back and frees its lock.
Disconnect(t) ==
  /\ phase[t] \in {"READY"} \cup Open
  /\ phase' = [phase EXCEPT ![t] = "LOST"]
  /\ End(t)
  /\ UNCHANGED <<db, granted, req, attempt, missed, touched>>

\* A booking is cancelled, declined or completed by a transaction of its own.
Release(r) ==
  /\ db[r] # None
  /\ db' = [db EXCEPT ![r] = None]
  /\ touched' = Overwritten(r)
  /\ UNCHANGED <<granted, phase, req, attempt, snap, missed, lock>>

Advance(t) == Begin(t) \/ LockExpert(t) \/ Check(t) \/ Commit(t) \/ Conflict(t)

Next ==
  \/ \E t \in Reqs, r \in Rows, b \in Bookings : Submit(t, r, b)
  \/ \E t \in Reqs : Advance(t) \/ Disconnect(t)
  \/ \E r \in Rows : Release(r)

\* What a request in progress can rely on: its process goes on to the next statement, a free lock
\* is granted, and a COMMIT is answered, with a conflict only where the database has to refuse it.
\* Waiting for a lock that is held ends by itself only when its holder ends.
Proceed(t) ==
  \/ Begin(t) \/ LockExpert(t) \/ Check(t) \/ Commit(t)
  \/ phase[t] = "CHECKED" /\ ~Serializable(t) /\ Conflict(t)

\* The database and the request's process keep working; nobody has to submit or to release, and
\* no connection has to fail.
Fairness == \A t \in Reqs : WF_vars(Proceed(t))

Spec == Init /\ [][Next]_vars

\* Spec with the fairness the liveness property needs.
FairSpec == Spec /\ Fairness

-----------------------------------------------------------------------------
Requests == [row : Rows \cup {None}, slot : Bookings \cup {None}]

TypeOK ==
  /\ db \in [Rows -> Bookings \cup {None}]
  /\ granted \subseteq Reqs
  /\ phase \in [Reqs -> Phases]
  /\ req \in [Reqs -> Requests]
  /\ \A t \in Reqs : phase[t] # "IDLE" => req[t] \in [row : Rows, slot : Bookings]
  /\ attempt \in [Reqs -> 0..MaxAttempts]
  /\ snap \in [Reqs -> [Rows -> Bookings \cup {None}]]
  /\ missed \in [Reqs -> SUBSET Reqs]
  /\ touched \in [Reqs -> SUBSET Rows]
  /\ lock \in [Experts -> Reqs \cup {None}]

\* The transactions implement the ledger: what commits after a stale check, a wait and a
\* retry is a booking that was free when it was granted, and is granted once.
Ledger == LedgerSpec

\* Every submitted request is answered or dies: whoever held the lock it waits for, and however
\* that transaction ended, the lock comes free, and retrying conflicts ends.
EveryRequestAnswered ==
  \A t \in Reqs : phase[t] = "READY" ~> phase[t] \in Answered

=============================================================================
