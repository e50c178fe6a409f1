-------------------------- MODULE CallDelivery_proofs --------------------------
(***************************************************************************)
(* Proofs about CallDelivery, for any number of workers, moves, attempts   *)
(* and faults.                                                             *)
(*                                                                         *)
(* The safety of the outbox rests on one counting argument: a worker that  *)
(* is about to send has been counted before, so the mails sent of an       *)
(* intent and the workers standing before its SEND are together at most    *)
(* its attempts (Counted).  The count goes up only where the worker still  *)
(* owns the row, and such a worker has read the row's present attempts     *)
(* (Attempting), because nobody else counts while it owns the row.         *)
(*                                                                         *)
(* All actions but Count, Send and Reschedule are conservative: they leave *)
(* every row alone or settle or release it, and move workers only to       *)
(* statements from which nothing is sent.  One lemma serves them all.      *)
(*                                                                         *)
(* Each lemma about an action also says what the action is to the abstract *)
(* outbox (Follows): conservative steps settle its present mail or are not *)
(* seen at all, Count is its Attempt, Send its Mail, Reschedule its Move.  *)
(* That a mail is given up only when its attempts are used up rests on     *)
(* Attempting: the attempt a worker remembers is the row's while it owns   *)
(* the row.                                                                *)
(***************************************************************************)
EXTENDS CallDelivery, FiniteSets, FiniteSetTheorems, TLAPS

Rows == [status : Statuses, attempts : 0..MaxAttempts, lease : Workers \cup {None},
         expired : BOOLEAN, backoff : BOOLEAN]

CallRows == [status : {"REQUESTED", "CONFIRMED", "CLOSED"}, version : Versions,
             stage : {"EARLY", "SOON", "STARTED"}]

WorkerRows == [pc : {"IDLE", "READ", "DROP", "POSTPONE", "COUNT", "SEND", "SUCCEED", "FAIL", "CATCH"},
               intent : Versions \cup {None}, attempt : 0..MaxAttempts + 1]

\* Intents of schedules the call does not have yet do not exist.
FreshRows == \A i \in Versions : i > call.version => intents[i] = Absent

\* The workers that have been counted and not yet sent.
Senders(i) == {w \in Workers : worker[w].pc = "SEND" /\ worker[w].intent = i}

Counted == \A i \in Versions :
  IsFiniteSet(Senders(i)) /\ sends[i] + Cardinality(Senders(i)) <= intents[i].attempts

\* What a worker that still owns its row knows about it.
Attempting == \A w \in Workers :
  /\ worker[w].pc # "IDLE" => worker[w].intent \in Versions
  /\ worker[w].pc \in {"READ", "COUNT"} /\ Owned(w) => Row(w).attempts < MaxAttempts
  /\ worker[w].pc = "COUNT" /\ Owned(w) => worker[w].attempt = Row(w).attempts + 1
  /\ worker[w].pc \in {"SEND", "SUCCEED", "FAIL"} /\ Owned(w) =>
       worker[w].attempt = Row(w).attempts
  /\ worker[w].pc = "SUCCEED" => sends[worker[w].intent] > 0

\* The inductive invariant.
IInv == TypeOK /\ FreshRows /\ SupersededSettled /\ Counted /\ Attempting /\ SentMeansSent

\* What no step may do: count an attempt of an old schedule, reopen a settled intent.
Promise ==
  /\ \A i \in Versions : i < call.version => intents'[i].attempts = intents[i].attempts
  /\ \A i \in Versions : intents[i].status \in Settled => intents'[i].status = intents[i].status

\* What every step is to the outbox: one of its steps, or nothing at all.
Follows == Outbox!Next \/ UNCHANGED Outbox!vars

\* Absent and pending rows.
LEMMA NewRows == /\ Absent \in Rows /\ Pending \in Rows
                 /\ Absent = [status |-> "ABSENT", attempts |-> 0, lease |-> None,
                              expired |-> FALSE, backoff |-> FALSE]
                 /\ Pending.status = "PENDING" /\ Pending.attempts = 0 /\ Pending.lease = None
<1>1. Absent = [status |-> "ABSENT", attempts |-> 0, lease |-> None, expired |-> FALSE,
               backoff |-> FALSE]
  BY DEF Absent
<1>2. 0 \in 0..MaxAttempts
  BY DeliveryAssumption
<1>3. Absent \in Rows
  BY <1>1, <1>2 DEF Rows, Statuses
<1>4. /\ Pending \in Rows /\ Pending.status = "PENDING" /\ Pending.attempts = Absent.attempts
      /\ Pending.lease = Absent.lease
  BY <1>3 DEF Pending, Rows, Statuses, Unsettled
<1> QED
  BY <1>1, <1>3, <1>4

\* A call that was just booked has one pending intent, and nobody works on it.
LEMMA InitInv == Init => IInv
<1> SUFFICES ASSUME Init PROVE IInv
  OBVIOUS
<1>1. 0 \in Versions
  BY DeliveryAssumption DEF Versions
<1>2. \A i \in Versions : intents[i] = IF i = 0 THEN Pending ELSE Absent
  BY DEF Init
<1>3. \A i \in Versions : Senders(i) = {}
  BY DEF Init, Idle, Senders
<1>4. TypeOK
  <2>1. intents \in [Versions -> Rows]
    BY NewRows DEF Init
  <2>2. worker \in [Workers -> WorkerRows]
    BY DeliveryAssumption DEF Init, Idle, WorkerRows
  <2>3. call \in CallRows
    BY <1>1 DEF Init, CallRows
  <2>4. sends \in [Versions -> Nat] /\ faults \in 0..MaxFaults /\ kind \in {"ASSIGNED", "REMINDER"}
    BY DeliveryAssumption DEF Init
  <2> QED
    BY <2>1, <2>2, <2>3, <2>4 DEF TypeOK, Rows, WorkerRows, CallRows
<1>5. FreshRows
  BY <1>2 DEF FreshRows, Init, Versions
<1>6. SupersededSettled
  BY <1>2, NewRows DEF SupersededSettled, Init, Unsettled
<1>7. Counted
  <2> SUFFICES ASSUME NEW i \in Versions
               PROVE  /\ IsFiniteSet(Senders(i))
                      /\ sends[i] + Cardinality(Senders(i)) <= intents[i].attempts
    BY DEF Counted
  <2>1. Cardinality(Senders(i)) = 0 /\ IsFiniteSet(Senders(i))
    BY <1>3, FS_EmptySet
  <2>2. intents[i].attempts = 0 /\ sends[i] = 0
    BY <1>2, NewRows DEF Init
  <2> QED
    BY <2>1, <2>2
<1>8. Attempting
  BY DEF Attempting, Init, Idle
<1>9. SentMeansSent
  BY <1>2, NewRows DEF SentMeansSent
<1> QED
  BY <1>4, <1>5, <1>6, <1>7, <1>8, <1>9 DEF IInv

\* A row that a conservative step changes: it is of a schedule the call has had, keeps its
\* attempts, leaves its status or was not settled, and gets no new owner among the workers
\* that stay where they are.
KeepsRow(i) ==
  /\ i <= call.version
  /\ intents'[i].attempts = intents[i].attempts
  /\ \/ intents[i].status \in Unsettled /\ intents'[i].status # "ABSENT"
     \/ intents'[i].status = intents[i].status
  /\ intents'[i].status = "SENT" => sends[i] > 0
  /\ intents'[i].status = "FAILED" =>
       intents[i].status = "FAILED" \/ intents[i].attempts = MaxAttempts
  /\ \A w \in Workers : worker'[w] = worker[w] /\ intents'[i].status = "SENDING" /\ intents'[i].lease = w
                         => intents[i].status = "SENDING" /\ intents[i].lease = w

\* A worker that a conservative step moves.
KeepsQuiet(w) ==
  /\ worker'[w].pc \notin {"SEND", "SUCCEED"}
  /\ worker'[w].pc # "IDLE" => worker'[w].intent \in Versions
  /\ worker'[w].pc \in {"READ", "COUNT"} /\ Owned(w)' =>
       /\ Row(w)'.attempts < MaxAttempts
       /\ worker'[w].pc = "COUNT" => worker'[w].attempt = Row(w)'.attempts + 1
  /\ worker'[w].pc = "FAIL" /\ Owned(w)' => worker'[w].attempt = Row(w)'.attempts

\* At most the row of the present schedule settles, and as the outbox allows.
LEMMA ConservativeFollows ==
  ASSUME IInv, UNCHANGED sends, call.version \in Versions, call'.version = call.version,
         intents' \in [Versions -> Rows],
         \A i \in Versions : intents'[i] = intents[i] \/ KeepsRow(i)
  PROVE  Follows
<1> DEFINE v == call.version
<1>1. \A i \in Versions : intents'[i].attempts = intents[i].attempts
  BY DEF KeepsRow
<1>2. \A i \in Versions : i # v => intents'[i].status = intents[i].status
  BY DEF KeepsRow, IInv, SupersededSettled
<1>3. CASE Outcome(intents'[v]) = Outcome(intents[v])
  <2>1. \A i \in Versions : Outcome(intents'[i]) = Outcome(intents[i])
    BY <1>2, <1>3 DEF Outcome
  <2> QED
    BY <1>1, <2>1 DEF Follows, Outbox!vars
<1>4. CASE Outcome(intents'[v]) # Outcome(intents[v])
  <2>1. intents'[v].status # intents[v].status /\ KeepsRow(v)
    BY <1>4 DEF Outcome
  <2>2. intents[v].status \in Unsettled /\ intents'[v].status \notin Unsettled
    BY <1>4, <2>1 DEF Outcome, KeepsRow
  <2>3. PICK st \in {"SENT", "CANCELLED", "FAILED"} : st = intents'[v].status
    BY <2>1, <2>2 DEF KeepsRow, Rows, Statuses, Settled
  <2>4. \A i \in Versions : Outcome(intents'[i]) = IF i = v THEN st ELSE Outcome(intents[i])
    BY <1>2, <2>2, <2>3 DEF Outcome
  <2>5. /\ Outcome(intents[v]) = "OPEN"
        /\ st = "SENT" => sends[v] > 0
        /\ st = "FAILED" => intents[v].attempts = MaxAttempts
    BY <2>1, <2>2, <2>3 DEF Outcome, KeepsRow, Unsettled
  <2> HIDE DEF v
  <2>6. Outbox!Settle(st)
    BY <1>1, <2>4, <2>5 DEF Outbox!Settle, v
  <2> QED
    BY <2>6 DEF Follows, Outbox!Next
<1> QED
  BY <1>3, <1>4

LEMMA ConservativeStep ==
  ASSUME IInv, UNCHANGED <<kind, sends>>, faults' \in 0..MaxFaults,
         call' \in CallRows, call'.version = call.version,
         intents' \in [Versions -> Rows], worker' \in [Workers -> WorkerRows],
         \A i \in Versions : intents'[i] = intents[i] \/ KeepsRow(i),
         \A w \in Workers : worker'[w] = worker[w] \/ KeepsQuiet(w)
  PROVE  IInv' /\ Promise /\ Follows
<1>1. TypeOK'
  BY DEF IInv, TypeOK, Rows, WorkerRows, CallRows
<1>2. /\ call.version \in Nat /\ \A i \in Versions : i \in Nat /\ sends[i] \in Nat
      /\ \A i \in Versions : intents[i].attempts \in 0..MaxAttempts
  BY DeliveryAssumption DEF IInv, TypeOK, Versions
<1>3. FreshRows'
  BY <1>2 DEF IInv, FreshRows, KeepsRow
<1>4. SupersededSettled'
  BY DEF IInv, SupersededSettled, KeepsRow
<1>5. Counted'
  <2> SUFFICES ASSUME NEW i \in Versions
               PROVE  /\ IsFiniteSet(Senders(i)')
                      /\ sends'[i] + Cardinality(Senders(i)') <= intents'[i].attempts
    BY DEF Counted
  <2>1. Senders(i)' \in SUBSET Senders(i)
    BY DEF Senders, KeepsQuiet
  <2>2. IsFiniteSet(Senders(i)) /\ sends[i] + Cardinality(Senders(i)) <= intents[i].attempts
    BY DEF IInv, Counted
  <2>3. IsFiniteSet(Senders(i)') /\ Cardinality(Senders(i)') <= Cardinality(Senders(i))
    BY <2>1, <2>2, FS_Subset
  <2>4. Cardinality(Senders(i)') \in Nat /\ Cardinality(Senders(i)) \in Nat
    BY <2>2, <2>3, FS_CardinalityType
  <2>5. intents'[i].attempts = intents[i].attempts /\ sends'[i] = sends[i]
    BY DEF KeepsRow
  <2> QED
    BY <1>2, <2>2, <2>3, <2>4, <2>5
<1>6. Attempting'
  <2> SUFFICES ASSUME NEW w \in Workers
               PROVE  /\ worker'[w].pc # "IDLE" => worker'[w].intent \in Versions
                      /\ worker'[w].pc \in {"READ", "COUNT"} /\ Owned(w)' => Row(w)'.attempts < MaxAttempts
                      /\ worker'[w].pc = "COUNT" /\ Owned(w)' => worker'[w].attempt = Row(w)'.attempts + 1
                      /\ worker'[w].pc \in {"SEND", "SUCCEED", "FAIL"} /\ Owned(w)' =>
                           worker'[w].attempt = Row(w)'.attempts
                      /\ worker'[w].pc = "SUCCEED" => sends'[worker'[w].intent] > 0
    BY DEF Attempting
  <2>1. CASE KeepsQuiet(w)
    BY <2>1 DEF KeepsQuiet
  <2>2. CASE worker'[w] = worker[w]
    <3>1. /\ worker[w].pc # "IDLE" => worker[w].intent \in Versions
          /\ worker[w].pc \in {"READ", "COUNT"} /\ Owned(w) => Row(w).attempts < MaxAttempts
          /\ worker[w].pc = "COUNT" /\ Owned(w) => worker[w].attempt = Row(w).attempts + 1
          /\ worker[w].pc \in {"SEND", "SUCCEED", "FAIL"} /\ Owned(w) =>
               worker[w].attempt = Row(w).attempts
          /\ worker[w].pc = "SEND" => worker[w].intent \in Versions
          /\ worker[w].pc = "SUCCEED" => sends[worker[w].intent] > 0
      BY DEF IInv, Attempting
    <3>2. worker[w].intent \in Versions /\ Owned(w)' => Owned(w) /\ Row(w)'.attempts = Row(w).attempts
      BY <2>2 DEF Owned, Row, KeepsRow
    <3> QED
      BY <2>2, <3>1, <3>2
  <2> QED
    BY <2>1, <2>2
<1>7. SentMeansSent'
  BY DEF IInv, SentMeansSent, KeepsRow
<1>8. Promise
  BY DEF Promise, KeepsRow, Settled, Unsettled
<1>9. Follows
  BY ConservativeFollows DEF IInv, TypeOK
<1> QED
  BY <1>1, <1>3, <1>4, <1>5, <1>6, <1>7, <1>8, <1>9 DEF IInv

\* The types of what the steps read.
LEMMA Typing ==
  ASSUME IInv
  PROVE  /\ intents \in [Versions -> Rows] /\ worker \in [Workers -> WorkerRows]
         /\ call \in CallRows /\ faults \in 0..MaxFaults /\ MaxFaults \in Nat
         /\ sends \in [Versions -> Nat]
BY DeliveryAssumption DEF IInv, TypeOK, Rows, WorkerRows, CallRows

\* The call is confirmed, closed, and its time comes.
LEMMA CallStep ==
  ASSUME IInv, Confirm \/ TimePasses
  PROVE  IInv' /\ Promise /\ Follows
<1>1. call' \in CallRows /\ call'.version = call.version
  BY Typing DEF Confirm, TimePasses, CallRows
<1>2. UNCHANGED <<kind, intents, worker, sends, faults>>
  BY DEF Confirm, TimePasses
<1> QED
  BY <1>1, <1>2, Typing, ConservativeStep

LEMMA CloseStep ==
  ASSUME IInv, NEW cancelPending \in BOOLEAN, Close(cancelPending)
  PROVE  IInv' /\ Promise /\ Follows
<1>1. call' \in CallRows /\ call'.version = call.version
  BY Typing DEF Close, CallRows
<1>2. UNCHANGED <<kind, worker, sends, faults>>
  BY DEF Close
<1>3. ASSUME NEW i \in Versions
      PROVE  intents'[i] \in Rows /\ (intents'[i] = intents[i] \/ KeepsRow(i))
  <2>1. intents[i] \in Rows
    BY Typing
  <2>2. CASE intents'[i] = intents[i]
    BY <2>1, <2>2
  <2>3. CASE intents[i].status = "PENDING" /\ intents'[i] = [intents[i] EXCEPT !.status = "CANCELLED"]
    <3>1. /\ intents'[i] \in Rows /\ intents'[i].status = "CANCELLED"
          /\ intents'[i].attempts = intents[i].attempts
      BY <2>1, <2>3 DEF Rows, Statuses, Settled
    <3>2. i <= call.version
      BY <2>3, Typing DEF IInv, SupersededSettled, Unsettled, Versions, CallRows
    <3> QED
      BY <2>3, <3>1, <3>2 DEF KeepsRow, Unsettled
  <2> QED
    BY <2>2, <2>3 DEF Close
<1>4. intents' \in [Versions -> Rows]
  <2>1. intents' = [i \in Versions |-> intents'[i]]
    BY Typing DEF Close
  <2> QED
    BY <1>3, <2>1
<1> QED
  BY <1>1, <1>2, <1>3, <1>4, Typing, ConservativeStep

\* An owned row is of the present schedule.
LEMMA OwnedRows ==
  ASSUME IInv, NEW w \in Workers, worker[w].pc # "IDLE"
  PROVE  /\ worker[w].intent \in Versions
         /\ Row(w) \in Rows
         /\ Owned(w) => worker[w].intent = call.version /\ worker[w].intent <= call.version
BY Typing, DeliveryAssumption
   DEF IInv, Attempting, SupersededSettled, Owned, Row, Unsettled, CallRows, Versions

\* A conditional write that ends a delivery without a count.
LEMMA SettleStep ==
  ASSUME IInv, NEW w \in Workers, worker[w].pc # "IDLE", NEW row \in Rows, Settle(w, row),
         row.attempts = Row(w).attempts, row.status \in Settled \cup {"PENDING"},
         row.status = "SENT" => worker[w].pc = "SUCCEED",
         row.status = "FAILED" /\ Owned(w) => Row(w).attempts = MaxAttempts
  PROVE  IInv' /\ Promise /\ Follows
<1> DEFINE i == worker[w].intent
<1>1. i \in Versions /\ (Owned(w) => i <= call.version)
  BY OwnedRows
<1>2. /\ intents' = IF Owned(w) THEN [intents EXCEPT ![i] = row] ELSE intents
      /\ worker' = [worker EXCEPT ![w] = Idle]
      /\ UNCHANGED <<kind, call, sends, faults>>
  BY DEF Settle, Return
<1>3. intents' \in [Versions -> Rows] /\ \A j \in Versions : intents'[j] = intents[j] \/ KeepsRow(j)
  <2>1. CASE ~ Owned(w)
    BY <1>2, <2>1, Typing
  <2>2. CASE Owned(w)
    <3>1. /\ intents' \in [Versions -> Rows] /\ intents'[i] = row
          /\ \A j \in Versions : j # i => intents'[j] = intents[j]
      BY <1>1, <1>2, <2>2, Typing
    <3>2. intents[i].status = "SENDING" /\ row.attempts = intents[i].attempts
      BY <2>2 DEF Owned, Row
    <3>3. /\ row.status = "SENT" => sends[i] > 0
          /\ row.status = "FAILED" => intents[i].attempts = MaxAttempts
      BY <2>2 DEF IInv, Attempting, Row
    <3>4. row.status \notin {"SENDING", "ABSENT"}
      BY DEF Settled
    <3>5. KeepsRow(i)
      BY <1>1, <2>2, <3>1, <3>2, <3>3, <3>4 DEF KeepsRow, Unsettled
    <3> QED
      BY <3>1, <3>5
  <2> QED
    BY <2>1, <2>2
<1>4. /\ worker' \in [Workers -> WorkerRows] /\ worker'[w] = Idle
      /\ \A x \in Workers : x # w => worker'[x] = worker[x]
  BY <1>2, Typing, DeliveryAssumption DEF Idle, WorkerRows
<1>5. KeepsQuiet(w)
  BY <1>4 DEF KeepsQuiet, Idle
<1> QED
  BY <1>2, <1>3, <1>4, <1>5, Typing, ConservativeStep

\* The rows the outcomes of a delivery write.
LEMMA OutcomeRows ==
  ASSUME IInv, NEW w \in Workers, worker[w].pc # "IDLE", NEW st \in Settled
  PROVE  /\ Retry(w) \in Rows /\ Retry(w).attempts = Row(w).attempts /\ Retry(w).status = "PENDING"
         /\ Final(w, st) \in Rows /\ Final(w, st).attempts = Row(w).attempts
         /\ Final(w, st).status = st
         /\ LET row == [Final(w, st) EXCEPT !.backoff = FALSE]
            IN row \in Rows /\ row.attempts = Row(w).attempts /\ row.status = st
<1>1. Row(w) \in Rows
  BY OwnedRows
<1>2. /\ Retry(w) \in Rows /\ Retry(w).attempts = Row(w).attempts /\ Retry(w).status = "PENDING"
  BY <1>1 DEF Retry, Rows, Statuses, Unsettled
<1>3. Final(w, st) \in Rows /\ Final(w, st).attempts = Row(w).attempts /\ Final(w, st).status = st
  BY <1>1 DEF Final, Rows, Statuses
<1> HIDE DEF Final
<1>4. LET row == [Final(w, st) EXCEPT !.backoff = FALSE]
      IN row \in Rows /\ row.attempts = Row(w).attempts /\ row.status = st
  BY <1>3 DEF Rows
<1> QED
  BY <1>2, <1>3, <1>4

LEMMA OutcomeStep ==
  ASSUME IInv, NEW w \in Workers,
         Drop(w) \/ Postpone(w) \/ Succeed(w) \/ Fail(w) \/ Catch(w)
  PROVE  IInv' /\ Promise /\ Follows
<1>1. CASE Drop(w)
  <2>1. worker[w].pc = "DROP" /\ Settle(w, Final(w, "CANCELLED"))
    BY <1>1 DEF Drop
  <2> QED
    BY <2>1, OutcomeRows, SettleStep DEF Settled
<1>2. CASE Postpone(w)
  <2>1. worker[w].pc = "POSTPONE" /\ Settle(w, Retry(w))
    BY <1>2 DEF Postpone
  <2> QED
    BY <2>1, OutcomeRows, SettleStep DEF Settled
<1>3. CASE Succeed(w)
  <2> DEFINE row == [Final(w, "SENT") EXCEPT !.backoff = FALSE]
  <2>1. worker[w].pc = "SUCCEED" /\ Settle(w, row)
    BY <1>3 DEF Succeed
  <2>2. row \in Rows /\ row.attempts = Row(w).attempts /\ row.status = "SENT"
    BY <2>1, OutcomeRows DEF Settled
  <2> HIDE DEF row
  <2> QED
    BY <2>1, <2>2, SettleStep DEF Settled
<1>4. CASE Fail(w)
  <2>1. /\ worker[w].pc = "FAIL"
        /\ \/ Settle(w, Final(w, "FAILED")) /\ worker[w].attempt >= MaxAttempts
           \/ Settle(w, Retry(w))
    BY <1>4 DEF Fail
  <2>2. CASE Settle(w, Final(w, "FAILED")) /\ worker[w].attempt >= MaxAttempts
    <3>1. Owned(w) => worker[w].attempt = Row(w).attempts
      BY <2>1 DEF IInv, Attempting
    <3>2. Row(w).attempts \in 0..MaxAttempts
      BY <2>1, OwnedRows DEF Rows
    <3>3. Owned(w) => Row(w).attempts = MaxAttempts
      BY <2>2, <3>1, <3>2, DeliveryAssumption
    <3> QED
      BY <2>1, <2>2, <3>3, OutcomeRows, SettleStep DEF Settled
  <2>3. CASE Settle(w, Retry(w))
    BY <2>1, <2>3, OutcomeRows, SettleStep DEF Settled
  <2> QED
    BY <2>1, <2>2, <2>3
<1>5. CASE Catch(w)
  <2>1. worker[w].pc = "CATCH" /\ Settle(w, Retry(w))
    BY <1>5 DEF Catch
  <2> QED
    BY <2>1, OutcomeRows, SettleStep DEF Settled
<1> QED
  BY <1>1, <1>2, <1>3, <1>4, <1>5

\* A worker moves and writes nothing.
LEMMA WorkerStep ==
  ASSUME IInv, NEW w \in Workers, NEW new \in WorkerRows, worker' = [worker EXCEPT ![w] = new],
         UNCHANGED <<kind, call, intents, sends>>, faults' \in 0..MaxFaults,
         new.pc \notin {"SEND", "SUCCEED"},
         new.pc # "IDLE" => new.intent \in Versions,
         new.pc \in {"READ", "COUNT"} => /\ new.pc = "COUNT" /\ worker[w].pc = "READ"
                                         /\ new.intent = worker[w].intent
                                         /\ new.attempt = Row(w).attempts + 1,
         new.pc = "FAIL" => /\ worker[w].pc = "SUCCEED"
                            /\ new.intent = worker[w].intent
                            /\ new.attempt = worker[w].attempt
  PROVE  IInv' /\ Promise /\ Follows
<1>1. /\ worker' \in [Workers -> WorkerRows] /\ worker'[w] = new
      /\ \A x \in Workers : x # w => worker'[x] = worker[x]
  BY Typing
<1>2. KeepsQuiet(w)
  <2>1. CASE new.pc \in {"READ", "COUNT"}
    <3>1. Row(w)' = Row(w) /\ Owned(w)' = Owned(w)
      BY <1>1, <2>1 DEF Row, Owned
    <3>2. Owned(w) => Row(w).attempts < MaxAttempts
      BY <2>1 DEF IInv, Attempting
    <3> QED
      BY <1>1, <2>1, <3>1, <3>2 DEF KeepsQuiet
  <2>2. CASE new.pc = "FAIL"
    <3>1. Row(w)' = Row(w) /\ Owned(w)' = Owned(w)
      BY <1>1, <2>2 DEF Row, Owned
    <3>2. Owned(w) => worker[w].attempt = Row(w).attempts
      BY <2>2 DEF IInv, Attempting
    <3> QED
      BY <1>1, <2>2, <3>1, <3>2 DEF KeepsQuiet
  <2>3. CASE new.pc \notin {"READ", "COUNT", "FAIL"}
    BY <1>1, <2>3 DEF KeepsQuiet
  <2> QED
    BY <2>1, <2>2, <2>3
<1> QED
  BY <1>1, <1>2, Typing, ConservativeStep

LEMMA ReadStep ==
  ASSUME IInv, NEW w \in Workers, Read(w)
  PROVE  IInv' /\ Promise /\ Follows
<1> DEFINE att == intents[worker[w].intent].attempts + 1
<1>1. PICK pc \in {"DROP", "POSTPONE", "COUNT"} :
        worker' = [worker EXCEPT ![w] = [worker[w] EXCEPT !.pc = pc, !.attempt = att]]
  BY DEF Read
<1>2. /\ worker[w].pc = "READ" /\ worker[w] \in WorkerRows
      /\ worker[w].intent \in Versions /\ Row(w) \in Rows
      /\ UNCHANGED <<kind, call, intents, sends, faults>>
  BY OwnedRows, Typing DEF Read
<1>3. att = Row(w).attempts + 1 /\ att \in 0..MaxAttempts + 1
  BY <1>2, DeliveryAssumption DEF Row, Rows
<1> HIDE DEF att
<1> DEFINE new == [worker[w] EXCEPT !.pc = pc, !.attempt = att]
<1>4. new \in WorkerRows /\ new.pc = pc /\ new.attempt = att /\ new.intent = worker[w].intent
  BY <1>2, <1>3 DEF WorkerRows
<1>5. worker' = [worker EXCEPT ![w] = new]
  BY <1>1
<1> HIDE DEF new
<1> QED
  BY <1>2, <1>3, <1>4, <1>5, Typing, WorkerStep

LEMMA FaultStep ==
  ASSUME IInv, NEW w \in Workers, StatementFails(w) \/ Crash(w)
  PROVE  IInv' /\ Promise /\ Follows
<1>1. /\ faults' \in 0..MaxFaults /\ UNCHANGED <<kind, call, intents, sends>>
      /\ worker[w].pc # "IDLE" /\ worker[w] \in WorkerRows /\ worker[w].intent \in Versions
  BY OwnedRows, Typing DEF StatementFails, Crash
<1>2. CASE worker' = [worker EXCEPT ![w] = Idle]
  <2>1. Idle \in WorkerRows /\ Idle.pc = "IDLE"
    BY DeliveryAssumption DEF Idle, WorkerRows
  <2> HIDE DEF Idle
  <2> QED
    BY <1>1, <1>2, <2>1, WorkerStep
<1>3. ASSUME NEW pc \in {"FAIL", "CATCH"}, worker' = [worker EXCEPT ![w].pc = pc],
             pc = "FAIL" => worker[w].pc = "SUCCEED"
      PROVE  IInv' /\ Promise /\ Follows
  <2> DEFINE new == [worker[w] EXCEPT !.pc = pc]
  <2>1. /\ new \in WorkerRows /\ new.pc = pc
        /\ new.intent = worker[w].intent /\ new.attempt = worker[w].attempt
    BY <1>1 DEF WorkerRows
  <2>2. worker' = [worker EXCEPT ![w] = new]
    BY <1>3
  <2> HIDE DEF new
  <2> QED
    BY <1>1, <1>3, <2>1, <2>2, WorkerStep
<1> QED
  BY <1>2, <1>3 DEF StatementFails, Crash, Goto, Return

\* A claim takes an available row of the present schedule.
LEMMA ClaimStep ==
  ASSUME IInv, NEW w \in Workers, NEW i \in Versions, Claim(w, i)
  PROVE  IInv' /\ Promise /\ Follows
<1> DEFINE row == [intents[i] EXCEPT !.status = "SENDING", !.lease = w, !.expired = FALSE]
           new == [pc |-> "READ", intent |-> i, attempt |-> 0]
<1>1. /\ worker[w].pc = "IDLE" /\ intents[i] \in Rows
      /\ intents[i].status \in Unsettled /\ intents[i].attempts < MaxAttempts
      /\ intents' = [intents EXCEPT ![i] = row]
      /\ worker' = [worker EXCEPT ![w] = new]
      /\ UNCHANGED <<kind, call, sends, faults>>
  BY Typing DEF Claim, Available, Unsettled
<1>2. /\ row \in Rows /\ row.attempts = intents[i].attempts /\ row.status = "SENDING"
      /\ row.lease = w
  BY <1>1 DEF Rows, Statuses, Unsettled
<1>3. new \in WorkerRows
  BY DeliveryAssumption DEF WorkerRows
<1> HIDE DEF row
<1>4. /\ intents' \in [Versions -> Rows] /\ intents'[i] = row
      /\ \A j \in Versions : j # i => intents'[j] = intents[j]
  BY <1>1, <1>2, Typing
<1>5. /\ worker' \in [Workers -> WorkerRows] /\ worker'[w] = new
      /\ \A x \in Workers : x # w => worker'[x] = worker[x]
  BY <1>1, <1>3, Typing
<1>6. worker'[w] # worker[w]
  BY <1>1, <1>5
<1>7. i <= call.version
  BY <1>1, Typing DEF IInv, SupersededSettled, CallRows, Versions
<1>8. KeepsRow(i)
  BY <1>1, <1>2, <1>4, <1>6, <1>7 DEF KeepsRow
<1>9. KeepsQuiet(w)
  BY <1>1, <1>2, <1>4, <1>5 DEF KeepsQuiet, Row
<1> QED
  BY <1>1, <1>4, <1>5, <1>8, <1>9, Typing, ConservativeStep

\* Time, and recoverPending's first statement.
LEMMA RowStep ==
  ASSUME IInv, NEW i \in Versions, LeaseExpires(i) \/ LeaseOutlived(i) \/ BackoffEnds(i) \/ GiveUp(i)
  PROVE  IInv' /\ Promise /\ Follows
<1>1. UNCHANGED <<kind, call, worker, sends>> /\ faults' \in 0..MaxFaults /\ intents[i] \in Rows
  BY Typing DEF LeaseExpires, LeaseOutlived, BackoffEnds, GiveUp
<1>2. ASSUME NEW row \in Rows, intents' = [intents EXCEPT ![i] = row],
             row.attempts = intents[i].attempts, row.lease \in {intents[i].lease, None},
             \/ row.status = intents[i].status
             \/ /\ intents[i].status \in Unsettled /\ row.status = "FAILED"
                /\ intents[i].attempts = MaxAttempts,
             intents[i] # Absent
      PROVE  IInv' /\ Promise /\ Follows
  <2>1. /\ intents' \in [Versions -> Rows] /\ intents'[i] = row
        /\ \A j \in Versions : j # i => intents'[j] = intents[j]
    BY <1>2, Typing
  <2>2. i <= call.version
    BY <1>2, Typing DEF IInv, FreshRows, CallRows, Versions
  <2>3. row.status = "SENT" => sends[i] > 0
    BY <1>2 DEF IInv, SentMeansSent
  <2>4. KeepsRow(i)
    BY <1>1, <1>2, <2>1, <2>2, <2>3, DeliveryAssumption DEF KeepsRow
  <2> QED
    BY <1>1, <2>1, <2>4, Typing, ConservativeStep
<1>3. CASE LeaseExpires(i) \/ LeaseOutlived(i)
  <2> DEFINE row == [intents[i] EXCEPT !.expired = TRUE]
  <2>1. intents' = [intents EXCEPT ![i] = row] /\ intents[i].status = "SENDING"
    BY <1>3 DEF LeaseExpires, LeaseOutlived
  <2>2. /\ row \in Rows /\ row.attempts = intents[i].attempts /\ row.lease = intents[i].lease
        /\ row.status = intents[i].status
    BY <1>1 DEF Rows
  <2>3. intents[i] # Absent
    BY <2>1, NewRows
  <2> HIDE DEF row
  <2> QED
    BY <1>2, <2>1, <2>2, <2>3
<1>4. CASE BackoffEnds(i)
  <2> DEFINE row == [intents[i] EXCEPT !.backoff = FALSE]
  <2>1. intents' = [intents EXCEPT ![i] = row] /\ intents[i].backoff
    BY <1>4 DEF BackoffEnds
  <2>2. /\ row \in Rows /\ row.attempts = intents[i].attempts /\ row.lease = intents[i].lease
        /\ row.status = intents[i].status
    BY <1>1 DEF Rows
  <2>3. intents[i] # Absent
    BY <2>1, NewRows
  <2> HIDE DEF row
  <2> QED
    BY <1>2, <2>1, <2>2, <2>3
<1>5. CASE GiveUp(i)
  <2> DEFINE row == [intents[i] EXCEPT !.status = "FAILED", !.lease = None, !.expired = FALSE]
  <2>1. /\ intents' = [intents EXCEPT ![i] = row] /\ intents[i].status \in Unsettled
        /\ intents[i].attempts = MaxAttempts
    BY <1>1, <1>5, DeliveryAssumption DEF GiveUp, Unsettled, Rows
  <2>2. /\ row \in Rows /\ row.attempts = intents[i].attempts /\ row.lease = None
        /\ row.status = "FAILED"
    BY <1>1 DEF Rows, Statuses, Settled
  <2>3. intents[i] # Absent
    BY <2>1, NewRows DEF Unsettled
  <2> HIDE DEF row
  <2> QED
    BY <1>2, <2>1, <2>2, <2>3
<1> QED
  BY <1>3, <1>4, <1>5

\* The count: only of an owned row, by a worker that is not among the counted ones.
LEMMA CountStep ==
  ASSUME IInv, NEW w \in Workers, Count(w)
  PROVE  IInv' /\ Promise /\ Follows
<1> DEFINE i == worker[w].intent
<1>1. /\ worker[w].pc = "COUNT" /\ worker[w] \in WorkerRows /\ i \in Versions /\ Row(w) \in Rows
      /\ UNCHANGED <<kind, call, sends, faults>>
  BY OwnedRows, Typing DEF Count
<1>2. CASE ~ Owned(w)
  <2>1. worker' = [worker EXCEPT ![w] = Idle] /\ UNCHANGED intents
    BY <1>2 DEF Count, Return
  <2>2. Idle \in WorkerRows /\ Idle.pc = "IDLE"
    BY DeliveryAssumption DEF Idle, WorkerRows
  <2> HIDE DEF Idle
  <2> QED
    BY <1>1, <2>1, <2>2, Typing, WorkerStep
<1>3. CASE Owned(w)
  <2> DEFINE row == [intents[i] EXCEPT !.attempts = worker[w].attempt]
             new == [worker[w] EXCEPT !.pc = "SEND"]
  <2>1. /\ intents' = [intents EXCEPT ![i] = row]
        /\ worker' = [worker EXCEPT ![w] = new]
    BY <1>3 DEF Count, Goto
  <2>2. /\ worker[w].attempt = intents[i].attempts + 1 /\ intents[i].attempts < MaxAttempts
        /\ intents[i].status = "SENDING" /\ intents[i].lease = w /\ intents[i] \in Rows
        /\ i = call.version
    BY <1>1, <1>3, OwnedRows DEF IInv, Attempting, Row, Owned
  <2>3. worker[w].attempt \in 0..MaxAttempts /\ intents[i].attempts \in Nat
    BY <2>2, DeliveryAssumption DEF Rows
  <2>4. /\ row \in Rows /\ row.attempts = intents[i].attempts + 1 /\ row.status = "SENDING"
        /\ row.lease = w
    BY <2>2, <2>3 DEF Rows
  <2>5. new \in WorkerRows /\ new.pc = "SEND" /\ new.intent = i /\ new.attempt = row.attempts
    BY <1>1, <2>2, <2>4 DEF WorkerRows
  <2> HIDE DEF row, new
  <2>6. /\ intents' \in [Versions -> Rows] /\ intents'[i] = row
        /\ \A j \in Versions : j # i => intents'[j] = intents[j]
    BY <1>1, <2>1, <2>4, Typing
  <2>7. /\ worker' \in [Workers -> WorkerRows] /\ worker'[w] = new
        /\ \A x \in Workers : x # w => worker'[x] = worker[x]
    BY <2>1, <2>5, Typing
  <2> HIDE DEF i
  <2>8. TypeOK'
    BY <1>1, <2>6, <2>7 DEF IInv, TypeOK, Rows, WorkerRows
  <2>9. FreshRows' /\ SupersededSettled' /\ SentMeansSent'
    <3>1. \A j \in Versions : intents'[j] # intents[j] => j = i
      BY <2>6
    <3>2. ~ (i > call.version)
      BY <2>2, DeliveryAssumption, Typing DEF CallRows, Versions
    <3>3. FreshRows'
      BY <1>1, <3>1, <3>2 DEF IInv, FreshRows
    <3>4. SupersededSettled'
      BY <1>1, <2>2, <3>1 DEF IInv, SupersededSettled
    <3>5. SentMeansSent'
      BY <1>1, <2>4, <2>6 DEF IInv, SentMeansSent
    <3> QED
      BY <3>3, <3>4, <3>5
  <2>10. Counted'
    <3> SUFFICES ASSUME NEW j \in Versions
                 PROVE  /\ IsFiniteSet(Senders(j)')
                        /\ sends'[j] + Cardinality(Senders(j)') <= intents'[j].attempts
      BY DEF Counted
    <3>1. /\ IsFiniteSet(Senders(j)) /\ sends[j] + Cardinality(Senders(j)) <= intents[j].attempts
          /\ sends[j] \in Nat /\ Cardinality(Senders(j)) \in Nat
      BY Typing, FS_CardinalityType DEF IInv, Counted
    <3>2. CASE j # i
      <4>1. Senders(j)' = Senders(j)
        BY <1>1, <2>5, <2>7, <3>2 DEF Senders
      <4> QED
        BY <1>1, <2>6, <3>1, <3>2, <4>1
    <3>3. CASE j = i
      <4>1. Senders(j)' = Senders(j) \cup {w} /\ w \notin Senders(j)
        BY <1>1, <2>5, <2>7, <3>3 DEF Senders
      <4>2. IsFiniteSet(Senders(j)') /\ Cardinality(Senders(j)') = Cardinality(Senders(j)) + 1
        BY <3>1, <4>1, FS_AddElement
      <4> QED
        BY <1>1, <2>3, <2>4, <2>6, <3>1, <3>3, <4>2
    <3> QED
      BY <3>2, <3>3
  <2>11. Attempting'
    <3> SUFFICES ASSUME NEW x \in Workers
                 PROVE  /\ worker'[x].pc # "IDLE" => worker'[x].intent \in Versions
                        /\ worker'[x].pc \in {"READ", "COUNT"} /\ Owned(x)' => Row(x)'.attempts < MaxAttempts
                        /\ worker'[x].pc = "COUNT" /\ Owned(x)' => worker'[x].attempt = Row(x)'.attempts + 1
                        /\ worker'[x].pc \in {"SEND", "SUCCEED", "FAIL"} /\ Owned(x)' =>
                             worker'[x].attempt = Row(x)'.attempts
                        /\ worker'[x].pc = "SUCCEED" => sends'[worker'[x].intent] > 0
      BY DEF Attempting
    <3>1. CASE x = w
      BY <1>1, <2>5, <2>6, <2>7, <3>1 DEF Row
    <3>2. CASE x # w
      <4>1. worker'[x] = worker[x] /\ sends' = sends
        BY <1>1, <2>7, <3>2
      <4>2. worker[x].intent \in Versions /\ Owned(x)' => Owned(x) /\ Row(x)' = Row(x)
        BY <2>4, <2>6, <3>2, <4>1 DEF Owned, Row
      <4> QED
        BY <4>1, <4>2 DEF IInv, Attempting
    <3> QED
      BY <3>1, <3>2
  <2>12. Promise
    <3>1. \A j \in Versions : j < call.version => j # i
      BY <2>2, DeliveryAssumption DEF Versions
    <3>2. \A j \in Versions : intents[j].status \in Settled => j # i
      BY <2>2 DEF Settled
    <3> QED
      BY <2>6, <3>1, <3>2 DEF Promise
  <2>13. Follows
    <3>1. \A j \in Versions :
            /\ Outcome(intents'[j]) = Outcome(intents[j])
            /\ intents'[j].attempts = IF j = i THEN intents[j].attempts + 1
                                     ELSE intents[j].attempts
      BY <2>2, <2>4, <2>6, Typing, DeliveryAssumption DEF Outcome, Rows
    <3>2. Outcome(intents[i]) = "OPEN"
      BY <2>2 DEF Outcome, Unsettled
    <3>3. Outbox!Attempt
      BY <1>1, <2>2, <3>1, <3>2 DEF Outbox!Attempt
    <3> QED
      BY <3>3 DEF Follows, Outbox!Next
  <2> QED
    BY <2>8, <2>9, <2>10, <2>11, <2>12, <2>13 DEF IInv
<1> QED
  BY <1>2, <1>3

\* The mail goes out, or not: a counted worker less, at most one mail more.
LEMMA SendStep ==
  ASSUME IInv, NEW w \in Workers, Send(w)
  PROVE  IInv' /\ Promise /\ Follows
<1> DEFINE i == worker[w].intent
<1>1. PICK pc \in {"SUCCEED", "FAIL"} :
        /\ worker' = [worker EXCEPT ![w].pc = pc]
        /\ sends' = [sends EXCEPT ![i] = @ + 1] \/ (UNCHANGED sends /\ pc = "FAIL")
  BY DEF Send, Goto
<1>2. /\ worker[w].pc = "SEND" /\ worker[w] \in WorkerRows /\ i \in Versions
      /\ UNCHANGED <<kind, call, intents, faults>>
  BY OwnedRows, Typing DEF Send
<1> DEFINE new == [worker[w] EXCEPT !.pc = pc]
<1>3. /\ new \in WorkerRows /\ new.pc = pc /\ new.intent = i /\ new.attempt = worker[w].attempt
      /\ worker' = [worker EXCEPT ![w] = new]
  <2>1. worker' = [worker EXCEPT ![w] = new]
    BY <1>1
  <2>2. new \in WorkerRows /\ new.pc = pc /\ new.intent = i /\ new.attempt = worker[w].attempt
    BY <1>2 DEF WorkerRows
  <2> QED
    BY <2>1, <2>2
<1> HIDE DEF new
<1>4. /\ worker' \in [Workers -> WorkerRows] /\ worker'[w] = new
      /\ \A x \in Workers : x # w => worker'[x] = worker[x]
  BY <1>3, Typing
<1>5. /\ sends' \in [Versions -> Nat]
      /\ \A j \in Versions : sends'[j] >= sends[j]
      /\ \A j \in Versions : j # i => sends'[j] = sends[j]
      /\ sends'[i] = sends[i] + 1 \/ (sends'[i] = sends[i] /\ pc = "FAIL")
  <2>1. CASE sends' = [sends EXCEPT ![i] = @ + 1]
    BY <1>2, <2>1, Typing
  <2>2. CASE UNCHANGED sends /\ pc = "FAIL"
    BY <1>2, <2>2, Typing
  <2> QED
    BY <1>1, <2>1, <2>2
<1> HIDE DEF i
<1>6. TypeOK'
  BY <1>2, <1>4, <1>5 DEF IInv, TypeOK, WorkerRows
<1>7. FreshRows' /\ SupersededSettled'
  BY <1>2 DEF IInv, FreshRows, SupersededSettled
<1>8. SentMeansSent'
  BY <1>2, <1>5, Typing DEF IInv, SentMeansSent
<1>9. Counted'
  <2> SUFFICES ASSUME NEW j \in Versions
               PROVE  /\ IsFiniteSet(Senders(j)')
                      /\ sends'[j] + Cardinality(Senders(j)') <= intents'[j].attempts
    BY DEF Counted
  <2>1. /\ IsFiniteSet(Senders(j)) /\ sends[j] + Cardinality(Senders(j)) <= intents[j].attempts
        /\ sends[j] \in Nat /\ Cardinality(Senders(j)) \in Nat /\ intents[j].attempts \in Nat
    BY Typing, DeliveryAssumption, FS_CardinalityType DEF IInv, Counted, Rows
  <2>2. CASE j # i
    <3>1. Senders(j)' = Senders(j)
      BY <1>2, <1>3, <1>4, <2>2 DEF Senders, i
    <3> QED
      BY <1>2, <1>5, <2>1, <2>2, <3>1
  <2>3. CASE j = i
    <3>1. Senders(j)' = Senders(j) \ {w} /\ w \in Senders(j)
      BY <1>2, <1>3, <1>4, <2>3 DEF Senders, i
    <3>2. IsFiniteSet(Senders(j)') /\ Cardinality(Senders(j)') = Cardinality(Senders(j)) - 1
      BY <2>1, <3>1, FS_RemoveElement
    <3> QED
      BY <1>2, <1>5, <2>1, <2>3, <3>2
  <2> QED
    BY <2>2, <2>3
<1>10. Attempting'
  <2> SUFFICES ASSUME NEW x \in Workers
               PROVE  /\ worker'[x].pc # "IDLE" => worker'[x].intent \in Versions
                      /\ worker'[x].pc \in {"READ", "COUNT"} /\ Owned(x)' => Row(x)'.attempts < MaxAttempts
                      /\ worker'[x].pc = "COUNT" /\ Owned(x)' => worker'[x].attempt = Row(x)'.attempts + 1
                      /\ worker'[x].pc \in {"SEND", "SUCCEED", "FAIL"} /\ Owned(x)' =>
                           worker'[x].attempt = Row(x)'.attempts
                      /\ worker'[x].pc = "SUCCEED" => sends'[worker'[x].intent] > 0
    BY DEF Attempting
  <2>1. CASE x = w
    <3>1. Owned(w)' = Owned(w) /\ Row(w)' = Row(w)
      BY <1>2, <1>3, <1>4 DEF Owned, Row, i
    <3>2. Owned(w) => worker[w].attempt = Row(w).attempts
      BY <1>2 DEF IInv, Attempting
    <3> QED
      BY <1>2, <1>3, <1>4, <1>5, <2>1, <3>1, <3>2, Typing
  <2>2. CASE x # w
    <3>1. worker'[x] = worker[x] /\ Owned(x)' = Owned(x) /\ Row(x)' = Row(x)
      BY <1>2, <1>4, <2>2 DEF Owned, Row
    <3>2. worker[x].pc # "IDLE" => sends'[worker[x].intent] >= sends[worker[x].intent]
                                   /\ sends'[worker[x].intent] \in Nat /\ sends[worker[x].intent] \in Nat
      BY <1>5, Typing DEF IInv, Attempting
    <3> QED
      BY <3>1, <3>2 DEF IInv, Attempting
  <2> QED
    BY <2>1, <2>2
<1>11. Promise
  BY <1>2 DEF Promise
<1>12. Follows
  <2>1. sends[i] < intents[i].attempts
    <3>1. /\ IsFiniteSet(Senders(i)) /\ sends[i] + Cardinality(Senders(i)) <= intents[i].attempts
          /\ sends[i] \in Nat /\ Cardinality(Senders(i)) \in Nat /\ intents[i].attempts \in Nat
      BY <1>2, Typing, DeliveryAssumption, FS_CardinalityType DEF IInv, Counted, Rows
    <3>2. w \in Senders(i)
      BY <1>2 DEF Senders, i
    <3>3. Cardinality(Senders(i)) # 0
      BY <3>1, <3>2, FS_EmptySet
    <3> QED
      BY <3>1, <3>3
  <2>2. CASE UNCHANGED sends
    BY <1>2, <2>2 DEF Follows, Outbox!vars
  <2>3. CASE sends' = [sends EXCEPT ![i] = @ + 1]
    <3>1. Outbox!Mail(i)
      BY <1>2, <2>1, <2>3 DEF Outbox!Mail
    <3> QED
      BY <1>2, <3>1 DEF Follows, Outbox!Next
  <2> QED
    BY <1>1, <2>2, <2>3 DEF i
<1> QED
  BY <1>6, <1>7, <1>8, <1>9, <1>10, <1>11, <1>12 DEF IInv

\* The call is moved: live intents of its schedule are cancelled, the next one is born.
LEMMA RescheduleStep == ASSUME IInv, Reschedule PROVE IInv' /\ Promise /\ Follows
<1> DEFINE n == call.version + 1
           gone(i) == [intents[i] EXCEPT !.status = "CANCELLED", !.lease = None, !.expired = FALSE]
<1>1. /\ call.version \in Nat /\ n \in Versions /\ call' \in CallRows /\ call'.version = n
      /\ UNCHANGED <<kind, worker, sends, faults>>
  <2>1. /\ call \in CallRows /\ call.version < MaxVersion
        /\ call' = [call EXCEPT !.version = n, !.stage = "EARLY"]
        /\ UNCHANGED <<kind, worker, sends, faults>>
    BY Typing DEF Reschedule
  <2>2. call.version \in Nat /\ n \in Versions
    BY <2>1, DeliveryAssumption DEF CallRows, Versions
  <2> HIDE DEF n
  <2>3. call' \in CallRows /\ call'.version = n
    BY <2>1, <2>2 DEF CallRows
  <2> QED
    BY <2>1, <2>2, <2>3
<1>2. \A i \in Versions : i \in Nat /\ intents[i] \in Rows
  BY Typing, DeliveryAssumption DEF Versions
<1>3. \A i \in Versions : intents'[i] = IF i = n THEN Pending
                                        ELSE IF intents[i].status \in Unsettled THEN gone(i)
                                        ELSE intents[i]
  BY DEF Reschedule
<1>4. \A i \in Versions : gone(i) \in Rows /\ gone(i).status = "CANCELLED"
                          /\ gone(i).attempts = intents[i].attempts
  BY <1>2 DEF Rows, Statuses, Settled
<1> HIDE DEF gone
<1>5. intents' \in [Versions -> Rows]
  <2>1. intents' = [i \in Versions |-> intents'[i]]
    BY DEF Reschedule
  <2>2. \A i \in Versions : intents'[i] \in Rows
    BY <1>2, <1>3, <1>4, NewRows
  <2> QED
    BY <2>1, <2>2
<1>6. intents[n] = Absent
  BY <1>1 DEF IInv, FreshRows
<1>7. \A i \in Versions : intents'[i].attempts = intents[i].attempts
  BY <1>3, <1>4, <1>6, NewRows
<1> HIDE DEF n
<1>8. TypeOK'
  BY <1>1, <1>5 DEF IInv, TypeOK, Rows, CallRows
<1>9. FreshRows'
  <2> SUFFICES ASSUME NEW i \in Versions, i > n PROVE intents'[i] = Absent
    BY <1>1 DEF FreshRows
  <2>1. intents[i] = Absent /\ i # n
    BY <1>1, <1>2 DEF IInv, FreshRows, n
  <2> QED
    BY <1>3, <2>1, NewRows DEF Unsettled
<1>10. SupersededSettled'
  BY <1>1, <1>3, <1>4, NewRows DEF SupersededSettled, Unsettled
<1>11. SentMeansSent'
  BY <1>1, <1>3, <1>4, NewRows DEF IInv, SentMeansSent
<1>12. Counted'
  <2>1. \A i \in Versions : Senders(i)' = Senders(i)
    BY <1>1 DEF Senders
  <2> QED
    BY <1>1, <1>7, <2>1 DEF IInv, Counted
<1>13. Attempting'
  <2>1. \A w \in Workers : worker[w].intent \in Versions => ~ Owned(w)'
    BY <1>1, <1>3, <1>4, NewRows DEF Owned, Unsettled
  <2> QED
    BY <1>1, <2>1 DEF IInv, Attempting
<1>14. Promise
  BY <1>1, <1>3, <1>6, <1>7, NewRows DEF Promise, Settled, Unsettled
<1>15. Follows
  <2>1. \A i \in Versions : Outcome(intents'[i]) = IF i = n THEN "OPEN"
                                                   ELSE IF Outcome(intents[i]) = "OPEN"
                                                   THEN "CANCELLED" ELSE Outcome(intents[i])
    BY <1>2, <1>3, <1>4, NewRows DEF Outcome, Unsettled, Rows, Statuses, Settled
  <2>2. Outbox!Move
    BY <1>1, <1>7, <2>1 DEF Outbox!Move, n
  <2> QED
    BY <2>2 DEF Follows, Outbox!Next
<1> QED
  BY <1>8, <1>9, <1>10, <1>11, <1>12, <1>13, <1>14, <1>15 DEF IInv

\* Every step keeps the invariant and its promise, and follows the outbox.
LEMMA NextInv == IInv /\ [Next]_vars => IInv' /\ [Promise]_vars /\ Follows
<1> SUFFICES ASSUME IInv, [Next]_vars PROVE IInv' /\ [Promise]_vars /\ Follows
  OBVIOUS
<1>1. CASE Reschedule \/ Confirm \/ TimePasses \/ \E cancelPending \in BOOLEAN : Close(cancelPending)
  BY <1>1, RescheduleStep, CallStep, CloseStep
<1>2. ASSUME NEW w \in Workers,
             (\E i \in Versions : Claim(w, i)) \/ Deliver(w) \/ StatementFails(w) \/ Crash(w)
      PROVE  IInv' /\ Promise /\ Follows
  BY <1>2, ClaimStep, ReadStep, OutcomeStep, CountStep, SendStep, FaultStep DEF Deliver
<1>3. ASSUME NEW i \in Versions, LeaseExpires(i) \/ LeaseOutlived(i) \/ BackoffEnds(i) \/ GiveUp(i)
      PROVE  IInv' /\ Promise /\ Follows
  BY <1>3, RowStep
<1>4. CASE UNCHANGED vars
  <2>1. UNCHANGED <<kind, call, intents, worker, sends, faults>>
    BY <1>4 DEF vars
  <2>2. IInv' /\ Promise /\ Follows
    BY <2>1, Typing, ConservativeStep
  <2> QED
    BY <2>2
<1> QED
  BY <1>1, <1>2, <1>3, <1>4 DEF Next

\* The invariant holds throughout.
THEOREM Invariance == Spec => []IInv
<1>1. IInv /\ [Next]_vars => IInv'
  BY NextInv
<1> QED
  BY <1>1, InitInv, PTL DEF Spec

\* Every variable has its type.
THEOREM TypesHold == Spec => []TypeOK
<1>1. IInv => TypeOK
  BY DEF IInv
<1> QED
  BY <1>1, Invariance, PTL

\* No expert gets more than MaxAttempts copies of one notification
\* (lead-expert-call-delivery.service.ts).
THEOREM CopiesAreBounded == Spec => []SendsAreCounted
<1>1. IInv => SendsAreCounted
  <2> SUFFICES ASSUME IInv, NEW i \in Versions
               PROVE  sends[i] <= intents[i].attempts /\ intents[i].attempts <= MaxAttempts
    BY DEF SendsAreCounted
  <2>1. /\ sends[i] + Cardinality(Senders(i)) <= intents[i].attempts
        /\ Cardinality(Senders(i)) \in Nat /\ sends[i] \in Nat /\ intents[i].attempts \in 0..MaxAttempts
    BY Typing, FS_CardinalityType DEF IInv, Counted, Rows
  <2> QED
    BY <2>1, DeliveryAssumption
<1> QED
  BY <1>1, Invariance, PTL

\* A move of the call leaves no live intent of the old schedule behind.
THEOREM OldSchedulesAreSettled == Spec => []SupersededSettled
<1>1. IInv => SupersededSettled
  BY DEF IInv
<1> QED
  BY <1>1, Invariance, PTL

\* SENT is recorded only for a mail that went out.
THEOREM SentWentOut == Spec => []SentMeansSent
<1>1. IInv => SentMeansSent
  BY DEF IInv
<1> QED
  BY <1>1, Invariance, PTL

\* A worker that claimed an intent of the old schedule starts no further attempt of it.
THEOREM OldSchedulesAreNotCounted == Spec => SupersededNeverCounted
<1>1. IInv /\ [Next]_vars =>
        [\A i \in Versions : i < call.version => intents'[i].attempts = intents[i].attempts]_vars
  BY NextInv DEF Promise
<1> QED
  BY <1>1, Invariance, PTL DEF Spec, SupersededNeverCounted

\* An old worker cannot overwrite a newer delivery or a cancellation.
THEOREM SettledForGood == Spec => SettledIsFinal
<1>1. IInv /\ [Next]_vars =>
        [\A i \in Versions :
           intents[i].status \in Settled => intents'[i].status = intents[i].status]_vars
  BY NextInv DEF Promise
<1> QED
  BY <1>1, Invariance, PTL DEF Spec, SettledIsFinal

\* A call that was just booked is an outbox with one mail to send.
LEMMA InitFollows == Init => Outbox!Init
<1> SUFFICES ASSUME Init PROVE Outbox!Init
  OBVIOUS
<1>1. \A i \in Versions : /\ Outcome(intents[i]) = IF i = 0 THEN "OPEN" ELSE "ABSENT"
                          /\ intents[i].attempts = 0
  BY NewRows DEF Init, Outcome, Unsettled
<1> QED
  BY <1>1 DEF Init, Outbox!Init

\* Workers, leases and recovery implement the outbox: the mail of the present schedule is
\* tried within its budget, brings at most one copy per attempt and settles once
\* (lead-call-notification.service.ts, deliver).
THEOREM ImplementsOutbox == Spec => DeliversAsPromised
<1>1. IInv /\ [Next]_vars => [Outbox!Next]_(Outbox!vars)
  BY NextInv DEF Follows
<1> QED
  BY <1>1, InitFollows, Invariance, PTL DEF Spec, DeliversAsPromised, Outbox!Spec

=============================================================================
