-------------------------- MODULE BookingTx_proofs --------------------------
(* For any number of experts, rows, requests, attempts and any horizon:     *)
(* the Serializable transactions of BookingTx implement BookingLedger, and  *)
(* the ledger never books an expert twice.                                  *)
EXTENDS BookingTx, TLAPS

-----------------------------------------------------------------------------
(* The ledger                                                               *)

LedgerTypeOK == db \in [Rows -> Bookings \cup {None}] /\ granted \subseteq Reqs

\* The two comparisons of the queries say what they should: bookings overlap exactly when their
\* expert would be in both during some unit of time, so that adjacent ones do not, and one that
\* encloses the other does.
THEOREM OverlapMeansSharedTime ==
  ASSUME NEW a \in Bookings, NEW b \in Bookings
  PROVE  Overlap(a, b) <=> /\ a.expert = b.expert
                           /\ \E i \in Nat : /\ a.from <= i /\ i < a.to
                                            /\ b.from <= i /\ i < b.to
<1>1. /\ a.from \in Nat /\ a.to \in Nat /\ a.from < a.to
      /\ b.from \in Nat /\ b.to \in Nat /\ b.from < b.to
  BY LedgerAssumption DEF Bookings
<1>2. ASSUME Overlap(a, b)
      PROVE  \E i \in Nat : a.from <= i /\ i < a.to /\ b.from <= i /\ i < b.to
  <2>1. CASE a.from <= b.from
    BY <1>1, <1>2, <2>1 DEF Overlap
  <2>2. CASE b.from <= a.from
    BY <1>1, <1>2, <2>2 DEF Overlap
  <2> QED
    BY <1>1, <2>1, <2>2
<1>3. ASSUME NEW i \in Nat, a.from <= i, i < a.to, b.from <= i, i < b.to
      PROVE  a.from < b.to /\ b.from < a.to
  BY <1>1, <1>3
<1> QED
  BY <1>2, <1>3 DEF Overlap

\* Overlapping is mutual.
LEMMA OverlapSymmetric ==
  ASSUME NEW a \in Bookings, NEW b \in Bookings, Overlap(a, b)
  PROVE  Overlap(b, a)
BY DEF Overlap, Bookings

\* A grant next to rows that overlap neither it nor each other keeps them apart.
LEMMA LedgerStepInv ==
  LedgerTypeOK /\ NoDoubleBooking /\ [LedgerNext]_ledgerVars
    => LedgerTypeOK' /\ NoDoubleBooking'
<1> SUFFICES ASSUME LedgerTypeOK, NoDoubleBooking, [LedgerNext]_ledgerVars
             PROVE  LedgerTypeOK' /\ NoDoubleBooking'
  OBVIOUS
<1>1. ASSUME NEW t \in Reqs, NEW r \in Rows, NEW b \in Bookings, Grant(t, r, b)
      PROVE  LedgerTypeOK' /\ NoDoubleBooking'
  <2>1. LedgerTypeOK'
    BY <1>1 DEF Grant, LedgerTypeOK
  <2>2. ASSUME NEW p \in Rows, NEW q \in Rows, p # q, db'[p] # None, db'[q] # None
        PROVE  ~Overlap(db'[p], db'[q])
    <3>1. CASE p = r
      <4>1. db'[p] = b /\ db'[q] = db[q] /\ db[q] \in Bookings
        BY <1>1, <2>2, <3>1 DEF Grant, LedgerTypeOK
      <4>2. ~Overlap(db[q], b)
        BY <1>1, <2>2, <3>1, <4>1 DEF Grant
      <4> QED
        BY <4>1, <4>2, OverlapSymmetric
    <3>2. CASE q = r
      BY <1>1, <2>2, <3>2 DEF Grant, LedgerTypeOK
    <3>3. CASE p # r /\ q # r
      BY <1>1, <2>2, <3>3 DEF Grant, LedgerTypeOK, NoDoubleBooking
    <3> QED
      BY <3>1, <3>2, <3>3
  <2> QED
    BY <2>1, <2>2 DEF NoDoubleBooking
<1>2. ASSUME NEW r \in Rows, Free(r)
      PROVE  LedgerTypeOK' /\ NoDoubleBooking'
  BY <1>2 DEF Free, LedgerTypeOK, NoDoubleBooking
<1>3. CASE UNCHANGED ledgerVars
  BY <1>3 DEF ledgerVars, LedgerTypeOK, NoDoubleBooking
<1> QED
  BY <1>1, <1>2, <1>3 DEF LedgerNext

\* The ledger promises what it is for.
THEOREM LedgerNeverDoubleBooks == LedgerSpec => []NoDoubleBooking
<1>1. LedgerInit => LedgerTypeOK /\ NoDoubleBooking
  BY DEF LedgerInit, LedgerTypeOK, NoDoubleBooking
<1> QED
  BY <1>1, LedgerStepInv, PTL DEF LedgerSpec

-----------------------------------------------------------------------------
(* The transactions                                                         *)

\* The availability query of either table's code path finds exactly the overlapping rows.
LEMMA SeesOverlap ==
  ASSUME NEW r, NEW b, NEW q \in Rows, NEW x
  PROVE  Sees(r, b, q, x) <=> q # r /\ Overlap(b, x)
BY DEF Sees, SlotOccupied, SlotUnavailable, FindsConsultation, FindsCall, Rows

\* A row that changed under an open transaction is empty, or was written by a request that
\* transaction is known to have missed.
MissedExplains ==
  \A t \in Reqs : phase[t] \in Open =>
    \A q \in Rows :
      \/ db[q] = None
      \/ db[q] = snap[t][q]
      \/ \E u \in missed[t] : req[u].row = q /\ req[u].slot = db[q]

\* A checked transaction found nothing in its way in what it could see.
CheckedClear ==
  \A t \in Reqs : phase[t] = "CHECKED" =>
    \A q \in Rows \ {req[t].row} : snap[t][q] # None => ~Overlap(req[t].slot, snap[t][q])

\* Only requests that ended as BOOKED were granted or are missed by anyone.
BookedOnly ==
  /\ \A t \in granted : phase[t] = "BOOKED"
  /\ \A t \in Reqs : \A u \in missed[t] : phase[u] = "BOOKED"

AttemptsLeft ==
  \A t \in Reqs : phase[t] \in {"IDLE", "READY"} => attempt[t] < MaxAttempts

TxInv == TypeOK /\ MissedExplains /\ CheckedClear /\ BookedOnly /\ AttemptsLeft

LEMMA TxInitInv == Init => TxInv
BY AttemptsAssumption DEF Init, LedgerInit, EmptyCalendar, TxInv, TypeOK, Requests, Phases, Open,
   Answered, MissedExplains, CheckedClear, BookedOnly, AttemptsLeft

LEMMA SubmitInv ==
  ASSUME TxInv, NEW t \in Reqs, NEW r \in Rows, NEW b \in Bookings, Submit(t, r, b)
  PROVE  TxInv'
<1> USE DEF TxInv, Submit
<1>1. TypeOK'
  BY DEF TypeOK, Requests, Phases
<1>2. MissedExplains'
  BY DEF TypeOK, MissedExplains, BookedOnly, Open
<1>3. CheckedClear' /\ BookedOnly' /\ AttemptsLeft'
  BY DEF TypeOK, CheckedClear, BookedOnly, AttemptsLeft
<1> QED
  BY <1>1, <1>2, <1>3

LEMMA BeginInv ==
  ASSUME TxInv, NEW t \in Reqs, Begin(t)
  PROVE  TxInv'
<1> USE DEF TxInv, Begin
<1>1. TypeOK'
  BY AttemptsAssumption DEF TypeOK, Phases, Open, AttemptsLeft
<1>2. MissedExplains'
  BY DEF TypeOK, MissedExplains, Open
<1>3. CheckedClear' /\ BookedOnly' /\ AttemptsLeft'
  BY DEF TypeOK, CheckedClear, BookedOnly, AttemptsLeft
<1> QED
  BY <1>1, <1>2, <1>3

LEMMA LockExpertInv ==
  ASSUME TxInv, NEW t \in Reqs, LockExpert(t)
  PROVE  TxInv'
<1> USE DEF TxInv, LockExpert
<1>1. TypeOK'
  BY DEF TypeOK, Phases, Open
<1>2. MissedExplains'
  BY DEF TypeOK, MissedExplains, Open
<1>3. CheckedClear' /\ BookedOnly' /\ AttemptsLeft'
  BY DEF TypeOK, CheckedClear, BookedOnly, AttemptsLeft
<1> QED
  BY <1>1, <1>2, <1>3

LEMMA CheckInv ==
  ASSUME TxInv, NEW t \in Reqs, Check(t)
  PROVE  TxInv'
<1> USE DEF TxInv, Check, End
<1>1. TypeOK'
  <2>1. phase' \in [Reqs -> Phases] /\ \A u \in Reqs : phase'[u] # "IDLE" => phase[u] # "IDLE"
    BY DEF TypeOK, Phases, Open, Answered
  <2>2. lock' \in [Experts -> Reqs \cup {None}]
    BY DEF TypeOK
  <2>3. snap' \in [Reqs -> [Rows -> Bookings \cup {None}]]
    BY DEF TypeOK, EmptyCalendar
  <2> QED
    BY <2>1, <2>2, <2>3 DEF TypeOK
<1>2. MissedExplains'
  BY DEF TypeOK, MissedExplains, Open
<1>3. CheckedClear'
  BY SeesOverlap DEF TypeOK, CheckedClear
<1>4. BookedOnly' /\ AttemptsLeft'
  BY DEF TypeOK, BookedOnly, AttemptsLeft
<1> QED
  BY <1>1, <1>2, <1>3, <1>4

LEMMA CommitInv ==
  ASSUME TxInv, NEW t \in Reqs, Commit(t)
  PROVE  TxInv'
<1> USE DEF TxInv, Commit, End
<1>1. TypeOK'
  BY DEF TypeOK, Phases, Open, Answered, EmptyCalendar, Overwritten
<1>2. MissedExplains'
  <2> SUFFICES ASSUME NEW u \in Reqs, phase'[u] \in Open, NEW q \in Rows,
                      db'[q] # None, db'[q] # snap'[u][q]
               PROVE  \E v \in missed'[u] : req'[v].row = q /\ req'[v].slot = db'[q]
    BY DEF MissedExplains
  <2>1. u # t /\ phase[u] \in Open /\ snap'[u] = snap[u] /\ missed'[u] = missed[u] \cup {t}
    BY DEF TypeOK, Open
  <2>2. CASE q = req[t].row
    BY <2>1, <2>2 DEF TypeOK
  <2>3. CASE q # req[t].row
    BY <2>1, <2>3 DEF TypeOK, MissedExplains
  <2> QED
    BY <2>2, <2>3
<1>3. CheckedClear'
  BY DEF TypeOK, CheckedClear
<1>4. BookedOnly' /\ AttemptsLeft'
  BY DEF TypeOK, BookedOnly, AttemptsLeft
<1> QED
  BY <1>1, <1>2, <1>3, <1>4

LEMMA ConflictInv ==
  ASSUME TxInv, NEW t \in Reqs, Conflict(t)
  PROVE  TxInv'
<1> USE DEF TxInv, Conflict, End
<1>1. TypeOK'
  BY DEF TypeOK, Phases, Open, Answered, EmptyCalendar
<1>2. MissedExplains' /\ CheckedClear'
  BY DEF TypeOK, MissedExplains, CheckedClear, Open
<1>3. BookedOnly' /\ AttemptsLeft'
  BY DEF TypeOK, BookedOnly, AttemptsLeft, Open
<1> QED
  BY <1>1, <1>2, <1>3

LEMMA DisconnectInv ==
  ASSUME TxInv, NEW t \in Reqs, Disconnect(t)
  PROVE  TxInv'
<1> USE DEF TxInv, Disconnect, End
<1>1. TypeOK'
  BY DEF TypeOK, Phases, Open, Answered, EmptyCalendar
<1>2. MissedExplains' /\ CheckedClear'
  BY DEF TypeOK, MissedExplains, CheckedClear, Open
<1>3. BookedOnly' /\ AttemptsLeft'
  BY DEF TypeOK, BookedOnly, AttemptsLeft, Open
<1> QED
  BY <1>1, <1>2, <1>3

LEMMA ReleaseInv ==
  ASSUME TxInv, NEW r \in Rows, Release(r)
  PROVE  TxInv'
<1> USE DEF TxInv, Release
<1>1. TypeOK'
  BY DEF TypeOK, Overwritten
<1>2. MissedExplains'
  BY DEF TypeOK, MissedExplains
<1>3. CheckedClear' /\ BookedOnly' /\ AttemptsLeft'
  BY DEF TypeOK, CheckedClear, BookedOnly, AttemptsLeft
<1> QED
  BY <1>1, <1>2, <1>3

LEMMA TxStepInv == TxInv /\ [Next]_vars => TxInv'
<1> SUFFICES ASSUME TxInv, [Next]_vars PROVE TxInv'
  OBVIOUS
<1>1. CASE UNCHANGED vars
  BY <1>1 DEF vars, txVars, TxInv, TypeOK, MissedExplains, CheckedClear, BookedOnly, AttemptsLeft
<1> QED
  BY <1>1, SubmitInv, BeginInv, LockExpertInv, CheckInv, CommitInv, ConflictInv, DisconnectInv,
     ReleaseInv DEF Next, Advance

\* The types of the transactions hold in every state.
THEOREM TxTypeCorrect == Spec => []TypeOK
<1>1. TxInv => TypeOK
  BY DEF TxInv
<1> QED
  BY <1>1, TxInitInv, TxStepInv, PTL DEF Spec

\* Where the argument is: at commit the calendar shows nothing in the way although the check
\* ran on an older one.  A row that appeared since was written by a missed request, each read
\* the slot the other wrote, and then the database would not have let both commit.
LEMMA CommitGrants ==
  ASSUME TxInv, NEW t \in Reqs, Commit(t)
  PROVE  Grant(t, req[t].row, req[t].slot)
<1>1. req[t].row \in Rows /\ req[t].slot \in Bookings
  BY DEF TxInv, TypeOK, Commit
<1>2. t \notin granted
  BY DEF TxInv, BookedOnly, Commit
<1>3. ASSUME NEW q \in Rows \ {req[t].row}, db[q] # None, Overlap(db[q], req[t].slot)
      PROVE  FALSE
  <2>1. db[q] \in Bookings /\ Overlap(req[t].slot, db[q])
    BY <1>1, <1>3, OverlapSymmetric DEF TxInv, TypeOK
  <2>2. CASE db[q] = snap[t][q]
    BY <1>3, <2>1, <2>2 DEF TxInv, CheckedClear, Commit
  <2>3. CASE \E u \in missed[t] : req[u].row = q /\ req[u].slot = db[q]
    <3>1. PICK u \in missed[t] : req[u].row = q /\ req[u].slot = db[q]
      BY <2>3
    <3>2. Reads(t, u)
      BY <1>3, <2>1, <3>1, SeesOverlap DEF Reads
    <3>3. Reads(u, t)
      BY <1>1, <1>3, <3>1, SeesOverlap DEF Reads
    <3> QED
      BY <3>2, <3>3 DEF Commit, Serializable
  <2> QED
    BY <1>3, <2>2, <2>3 DEF TxInv, MissedExplains, Commit, Open
<1> QED
  BY <1>2, <1>3 DEF Grant, Commit

\* Every step of the transactions is a step of the ledger or changes nothing it shows.
LEMMA StepRefines == TxInv /\ [Next]_vars => [LedgerNext]_ledgerVars
<1> SUFFICES ASSUME TxInv, [Next]_vars PROVE [LedgerNext]_ledgerVars
  OBVIOUS
<1>1. ASSUME NEW t \in Reqs, Commit(t) PROVE LedgerNext
  <2>1. req[t].row \in Rows /\ req[t].slot \in Bookings
    BY <1>1 DEF TxInv, TypeOK, Commit
  <2> QED
    BY <1>1, <2>1, CommitGrants DEF LedgerNext
<1>2. ASSUME NEW r \in Rows, Release(r) PROVE LedgerNext
  BY <1>2 DEF Release, LedgerNext, Free
<1> QED
  BY <1>1, <1>2 DEF Next, Advance, Submit, Begin, LockExpert, Check, Conflict, Disconnect,
     vars, ledgerVars

\* The transactions implement the ledger.
THEOREM TransactionsImplementLedger == Spec => Ledger
<1>1. Init => LedgerInit
  BY DEF Init
<1> QED
  BY <1>1, TxInitInv, TxStepInv, StepRefines, PTL DEF Spec, Ledger, LedgerSpec

\* No expert is booked twice, in any interleaving of bookings, moves, releases and crashes.
THEOREM NeverDoubleBooked == Spec => []NoDoubleBooking
BY TransactionsImplementLedger, LedgerNeverDoubleBooks, PTL DEF Ledger
=============================================================================
