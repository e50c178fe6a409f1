----------------------------- MODULE CallDelivery -----------------------------
(***************************************************************************)
(* The email outbox of one lead call.  Booking or moving the call persists *)
(* one delivery intent per kind in the same transaction; workers claim due *)
(* intents under a lease, count an attempt, send, and record the outcome,  *)
(* while Sales and the expert go on moving, confirming and closing the     *)
(* call, leases expire under slow workers and processes die between any    *)
(* two statements.                                                         *)
(*                                                                         *)
(* BullMQ only wakes workers up: recoverPending puts every available intent*)
(* in the queue again and a job may run twice, so any worker may call      *)
(* deliver() for any intent at any time.                                   *)
(***************************************************************************)
EXTENDS Naturals

CONSTANTS
  Workers,      \* concurrent deliver() executions
  MaxVersion,   \* bound: how often the call is moved
  MaxAttempts,  \* MAX_ATTEMPTS
  MaxFaults,    \* bound: crashes, failing statements and outlived leases
  None

ASSUME DeliveryAssumption ==
  /\ MaxVersion \in Nat /\ MaxFaults \in Nat
  /\ MaxAttempts \in Nat \ {0}
  /\ None \notin Workers

\* A move of the call makes a new version of its schedule and an intent for it.
Versions == 0..MaxVersion

VARIABLES
  kind,     \* which of the two mails is followed: their rows share nothing but the call
  call,     \* the LeadExpertCall; version changes with its expert, start or end
  intents,  \* the NotificationLog rows of that kind, one per schedule (deliveryKey)
  worker,   \* where each deliver() stands: the statement it executes next
  sends,    \* mails handed to the SMTP server per intent
  faults    \* faults so far

vars == <<kind, call, intents, worker, sends, faults>>

Unsettled == {"PENDING", "SENDING"}
Settled == {"SENT", "CANCELLED", "FAILED"}
Statuses == {"ABSENT"} \cup Unsettled \cup Settled

\* lease = the worker whose deliveryLeaseUntil the row carries, expired once that has passed;
\* backoff = nextAttemptAt lies ahead.
Absent == [status |-> "ABSENT", attempts |-> 0, lease |-> None, expired |-> FALSE,
           backoff |-> FALSE]
Pending == [Absent EXCEPT !.status = "PENDING"]
Idle == [pc |-> "IDLE", intent |-> None, attempt |-> 0]

Init ==
  /\ kind \in {"ASSIGNED", "REMINDER"}
  /\ call = [status |-> "REQUESTED", version |-> 0, stage |-> "EARLY"]
  /\ intents = [v \in Versions |-> IF v = 0 THEN Pending ELSE Absent]
  /\ worker = [w \in Workers |-> Idle]
  /\ sends = [v \in Versions |-> 0]
  /\ faults = 0

-----------------------------------------------------------------------------
(* The call: one transaction each                                          *)

\* bug: an intent a worker has claimed is left alone
ReschedulePendingOnly ==
  /\ call.status = "REQUESTED"
  /\ call.version < MaxVersion
  /\ call' = [call EXCEPT !.version = @ + 1, !.stage = "EARLY"]
  /\ intents' = [i \in Versions |->
       IF i = call.version + 1 THEN Pending
       ELSE IF intents[i].status = "PENDING"
            THEN [intents[i] EXCEPT !.status = "CANCELLED"] ELSE intents[i]]
  /\ UNCHANGED <<kind, worker, sends, faults>>

\* update() of a request: intents of the old schedule are cancelled, sent or not in flight,
\* and one intent per kind is created for the new one.
Reschedule ==
  /\ call.status = "REQUESTED"
  /\ call.version < MaxVersion
  /\ call' = [call EXCEPT !.version = @ + 1, !.stage = "EARLY"]
  /\ intents' = [i \in Versions |->
       IF i = call.version + 1 THEN Pending
       ELSE IF intents[i].status \in Unsettled
            THEN [intents[i] EXCEPT !.status = "CANCELLED", !.lease = None, !.expired = FALSE]
            ELSE intents[i]]
  /\ UNCHANGED <<kind, worker, sends, faults>>

Confirm ==
  /\ call.status = "REQUESTED"
  /\ call.stage # "STARTED"
  /\ call' = [call EXCEPT !.status = "CONFIRMED"]
  /\ UNCHANGED <<kind, intents, worker, sends, faults>>

\* Rejecting the lead and preparing its contract cancel the lead's pending notifications;
\* a decline, an outcome and a callback close the call and leave the intents to the worker.
Close(cancelPending) ==
  /\ call.status \in {"REQUESTED", "CONFIRMED"}
  /\ call' = [call EXCEPT !.status = "CLOSED"]
  /\ intents' = IF cancelPending
                THEN [i \in Versions |-> IF intents[i].status = "PENDING"
                                        THEN [intents[i] EXCEPT !.status = "CANCELLED"]
                                        ELSE intents[i]]
                ELSE intents
  /\ UNCHANGED <<kind, worker, sends, faults>>

\* Ten minutes before the start, then the start.
TimePasses ==
  /\ call.stage # "STARTED"
  /\ call' = [call EXCEPT !.stage = IF @ = "EARLY" THEN "SOON" ELSE "STARTED"]
  /\ UNCHANGED <<kind, intents, worker, sends, faults>>

-----------------------------------------------------------------------------
(* deliver(): one action per statement                                     *)

Due(i) == kind = "ASSIGNED" \/ i # call.version \/ call.stage # "EARLY"

Available(i) ==
  /\ intents[i].attempts < MaxAttempts
  /\ \/ intents[i].status = "PENDING"
     \/ intents[i].status = "SENDING" /\ intents[i].expired
  /\ ~intents[i].backoff

Claim(w, i) ==
  /\ worker[w].pc = "IDLE"
  /\ Available(i) /\ Due(i)
  /\ intents' = [intents EXCEPT ![i] =
       [@ EXCEPT !.status = "SENDING", !.lease = w, !.expired = FALSE]]
  /\ worker' = [worker EXCEPT ![w] = [pc |-> "READ", intent |-> i, attempt |-> 0]]
  /\ UNCHANGED <<kind, call, sends, faults>>

\* The row still carries w's lease: every later write is conditional on it.
Owned(w) ==
  intents[worker[w].intent].status = "SENDING" /\ intents[worker[w].intent].lease = w

Goto(w, pc) == worker' = [worker EXCEPT ![w].pc = pc]
Return(w) == worker' = [worker EXCEPT ![w] = Idle]

\* bug: the write does not look for w's lease
SettleUnconditionally(w, row) ==
  /\ intents' = [intents EXCEPT ![worker[w].intent] = row]
  /\ Return(w)
  /\ UNCHANGED <<kind, call, sends, faults>>

\* A conditional write by w that ends its delivery.
Settle(w, row) ==
  /\ intents' = IF Owned(w) THEN [intents EXCEPT ![worker[w].intent] = row] ELSE intents
  /\ Return(w)
  /\ UNCHANGED <<kind, call, sends, faults>>

Row(w) == intents[worker[w].intent]
Retry(w) == [Row(w) EXCEPT !.status = "PENDING", !.lease = None, !.expired = FALSE,
                           !.backoff = TRUE]
Final(w, st) == [Row(w) EXCEPT !.status = st, !.lease = None, !.expired = FALSE]

\* Reads the intent and its call and decides; what it decides may be stale when it is done.
Read(w) ==
  /\ worker[w].pc = "READ"
  /\ LET i == worker[w].intent
         current == /\ call.version = i
                    /\ call.status \in {"REQUESTED", "CONFIRMED"}
                    /\ call.stage # "STARTED"
     IN worker' = [worker EXCEPT ![w] =
          [@ EXCEPT !.pc = IF ~current THEN "DROP"
                           ELSE IF kind = "REMINDER" /\ call.status # "CONFIRMED"
                           THEN "POSTPONE" ELSE "COUNT",
                    !.attempt = intents[i].attempts + 1]]
  /\ UNCHANGED <<kind, call, intents, sends, faults>>

Drop(w) == worker[w].pc = "DROP" /\ Settle(w, Final(w, "CANCELLED"))

\* A late confirmation can still receive its reminder.
Postpone(w) == worker[w].pc = "POSTPONE" /\ Settle(w, Retry(w))

\* bug: counts whoever holds the lease by now
CountUnowned(w) ==
  /\ worker[w].pc = "COUNT"
  /\ intents' = [intents EXCEPT ![worker[w].intent].attempts = worker[w].attempt]
  /\ Goto(w, "SEND")
  /\ UNCHANGED <<kind, call, sends, faults>>

\* The attempt is recorded before anything is sent, and only by the owner.
Count(w) ==
  /\ worker[w].pc = "COUNT"
  /\ IF Owned(w)
     THEN /\ intents' = [intents EXCEPT ![worker[w].intent].attempts = worker[w].attempt]
          /\ Goto(w, "SEND")
     ELSE Return(w) /\ UNCHANGED intents
  /\ UNCHANGED <<kind, call, sends, faults>>

\* bug: swallows the mail server's refusal
SendQuietly(w) ==
  /\ worker[w].pc = "SEND"
  /\ sends' = [sends EXCEPT ![worker[w].intent] = @ + 1] \/ UNCHANGED sends
  /\ Goto(w, "SUCCEED")
  /\ UNCHANGED <<kind, call, intents, faults>>

\* sendMail: the server accepts the mail or not, and an accepted mail may still look failed.
Send(w) ==
  /\ worker[w].pc = "SEND"
  /\ \/ sends' = [sends EXCEPT ![worker[w].intent] = @ + 1] /\ Goto(w, "SUCCEED")
     \/ sends' = [sends EXCEPT ![worker[w].intent] = @ + 1] /\ Goto(w, "FAIL")
     \/ UNCHANGED sends /\ Goto(w, "FAIL")
  /\ UNCHANGED <<kind, call, intents, faults>>

Succeed(w) ==
  worker[w].pc = "SUCCEED" /\ Settle(w, [Final(w, "SENT") EXCEPT !.backoff = FALSE])

Fail(w) ==
  /\ worker[w].pc = "FAIL"
  /\ Settle(w, IF worker[w].attempt >= MaxAttempts THEN Final(w, "FAILED") ELSE Retry(w))

\* deliver()'s catch: whatever failed, an owned row goes back to PENDING.
Catch(w) == worker[w].pc = "CATCH" /\ Settle(w, Retry(w))

-----------------------------------------------------------------------------
(* Faults, time and recovery                                               *)

\* A failing statement: recording SENT falls through to the retry branch, any other goes to
\* deliver()'s catch, and a failing catch leaves the lease to expire.
StatementFails(w) ==
  /\ faults < MaxFaults
  /\ worker[w].pc \notin {"IDLE", "SEND"}
  /\ faults' = faults + 1
  /\ CASE worker[w].pc = "SUCCEED" -> Goto(w, "FAIL")
       [] worker[w].pc = "CATCH" -> Return(w)
       [] OTHER -> Goto(w, "CATCH")
  /\ UNCHANGED <<kind, call, intents, sends>>

\* The process dies between two statements.
Crash(w) ==
  /\ faults < MaxFaults
  /\ worker[w].pc # "IDLE"
  /\ faults' = faults + 1
  /\ Return(w)
  /\ UNCHANGED <<kind, call, intents, sends>>

\* The fifteen minutes of a dead worker's lease pass ...
Abandoned(i) ==
  \A w \in Workers : worker[w].intent = i => intents[i].lease # w

LeaseExpires(i) ==
  /\ intents[i].status = "SENDING" /\ ~intents[i].expired
  /\ Abandoned(i)
  /\ intents' = [intents EXCEPT ![i].expired = TRUE]
  /\ UNCHANGED <<kind, call, worker, sends, faults>>

\* ... or, a fault of its own, those of a worker that is alive but slower than its lease.
LeaseOutlived(i) ==
  /\ faults < MaxFaults
  /\ intents[i].status = "SENDING" /\ ~intents[i].expired
  /\ ~Abandoned(i)
  /\ intents' = [intents EXCEPT ![i].expired = TRUE]
  /\ faults' = faults + 1
  /\ UNCHANGED <<kind, call, worker, sends>>

BackoffEnds(i) ==
  /\ intents[i].backoff
  /\ intents' = [intents EXCEPT ![i].backoff = FALSE]
  /\ UNCHANGED <<kind, call, worker, sends, faults>>

\* bug: forgets rows whose worker died in its last attempt
GiveUpPending(i) ==
  /\ intents[i].attempts >= MaxAttempts
  /\ intents[i].status = "PENDING"
  /\ intents' = [intents EXCEPT ![i].status = "FAILED"]
  /\ UNCHANGED <<kind, call, worker, sends, faults>>

\* recoverPending's first statement: attempts used up and nobody left to finish.
GiveUp(i) ==
  /\ intents[i].attempts >= MaxAttempts
  /\ \/ intents[i].status = "PENDING"
     \/ intents[i].status = "SENDING" /\ intents[i].expired
  /\ intents' = [intents EXCEPT ![i] =
       [@ EXCEPT !.status = "FAILED", !.lease = None, !.expired = FALSE]]
  /\ UNCHANGED <<kind, call, worker, sends, faults>>

-----------------------------------------------------------------------------
Deliver(w) ==
  Read(w) \/ Drop(w) \/ Postpone(w) \/ Count(w) \/ Send(w) \/ Succeed(w) \/ Fail(w) \/ Catch(w)

Next ==
  \/ Reschedule \/ Confirm \/ TimePasses
  \/ \E cancelPending \in BOOLEAN : Close(cancelPending)
  \/ \E w \in Workers :
       \/ \E i \in Versions : Claim(w, i)
       \/ Deliver(w) \/ StatementFails(w) \/ Crash(w)
  \/ \E i \in Versions : LeaseExpires(i) \/ LeaseOutlived(i) \/ BackoffEnds(i) \/ GiveUp(i)

Spec == Init /\ [][Next]_vars

\* Time passes; the event loop runs a started delivery on; and the ten-second cron puts every
\* available intent before a worker again.
Fairness ==
  /\ WF_vars(TimePasses)
  /\ \A w \in Workers : WF_vars(Deliver(w))
  /\ \A i \in Versions :
       /\ WF_vars(\E w \in Workers : Claim(w, i))
       /\ WF_vars(LeaseExpires(i)) /\ WF_vars(BackoffEnds(i)) /\ WF_vars(GiveUp(i))

FairSpec == Spec /\ Fairness

-----------------------------------------------------------------------------
TypeOK ==
  /\ kind \in {"ASSIGNED", "REMINDER"}
  /\ call \in [status : {"REQUESTED", "CONFIRMED", "CLOSED"}, version : Versions,
               stage : {"EARLY", "SOON", "STARTED"}]
  /\ intents \in [Versions -> [status : Statuses, attempts : 0..MaxAttempts,
                              lease : Workers \cup {None}, expired : BOOLEAN,
                              backoff : BOOLEAN]]
  /\ worker \in [Workers -> [pc : {"IDLE", "READ", "DROP", "POSTPONE", "COUNT", "SEND",
                                   "SUCCEED", "FAIL", "CATCH"},
                             intent : Versions \cup {None}, attempt : 0..MaxAttempts + 1]]
  /\ sends \in [Versions -> Nat]
  /\ faults \in 0..MaxFaults

\* However workers overlap, die and are replaced, no mail goes out uncounted, so an expert
\* never gets more than MaxAttempts copies of one notification.
SendsAreCounted ==
  \A i \in Versions : sends[i] <= intents[i].attempts /\ intents[i].attempts <= MaxAttempts

\* Moving the call leaves no live intent of the old schedule behind, in flight or not ...
SupersededSettled ==
  \A i \in Versions : intents[i].status \in Unsettled => i = call.version

\* ... and a worker that had claimed one cannot start another attempt of it.
SupersededNeverCounted ==
  [][\A i \in Versions : i < call.version => intents'[i].attempts = intents[i].attempts]_vars

\* "an old worker cannot overwrite a newer delivery or cancellation": a settled intent stays so.
SettledIsFinal ==
  [][\A i \in Versions : intents[i].status \in Settled => intents'[i].status = intents[i].status]_vars

\* SENT is never recorded for a mail that did not go out.
SentMeansSent ==
  \A i \in Versions : intents[i].status = "SENT" => sends[i] > 0

Outcome(row) == IF row.status \in Unsettled THEN "OPEN" ELSE row.status

\* Leases, conditional writes and recovery make deliver() as good as one step: an attempt
\* begins only of the present schedule and within the budget, brings one copy at most, and
\* the intent is given up only when every attempt is used up.
Outbox == INSTANCE MailOutbox WITH
  Schedules <- Versions, current <- call.version,
  outcome <- [i \in Versions |-> Outcome(intents[i])],
  tries <- [i \in Versions |-> intents[i].attempts], copies <- sends
DeliversAsPromised == Outbox!Spec

\* Every intent is eventually sent, cancelled or given up: no lease, back-off, crash or
\* unconfirmed call leaves it hanging.
EveryIntentSettles ==
  \A i \in Versions : intents[i].status \in Unsettled ~> intents[i].status \in Settled

=============================================================================
