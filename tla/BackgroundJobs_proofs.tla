------------------------ MODULE BackgroundJobs_proofs ------------------------
(***************************************************************************)
(* Proofs about the three components that leave work to a queue.           *)
(*                                                                         *)
(* StudentInvitation: what is recorded as sent was mailed, and the         *)
(* invitation sets one password, because of what the slow actors carry: a  *)
(* worker about to record a version has mailed it, and a request that will *)
(* redeem holds a link that was mailed.  With that it implements           *)
(* OneTimeInvitation: a write that comes too late is a stutter.            *)
(*                                                                         *)
(* BackgroundRecovery: a pass does not return over a wake-up that reached  *)
(* it before its last loop test, because only a pass that hands records    *)
(* over has a batch.                                                       *)
(*                                                                         *)
(* ConsultationReminder: requests that follow one another, however many,   *)
(* leave the reminder in line with the consultation, because each carries  *)
(* the row it committed and the next one starts after it is done.          *)
(***************************************************************************)
EXTENDS StudentInvitation, BackgroundRecovery, ConsultationReminder, TLAPS

-----------------------------------------------------------------------------
(* The invitation                                                          *)

\* A worker about to record a version has mailed that version.
RecordsWhatItMailed == \A w \in Workers : worker[w].pc = "RECORD" => worker[w].version \in mailed

\* A link that was verified had been mailed.
LinksWereMailed == \A a \in Accepts : accept[a] \in {"VERIFIED", "FOUND"} => mailed # {}

\* Workers are behind the row, never ahead of it.
WorksOnKnownVersions ==
  \A w \in Workers : worker[w].pc # "IDLE" => worker[w].version <= invitation.version

\* The inductive invariant.
IInv ==
  /\ TypeOK /\ SentIsCurrent /\ RedeemedOnce
  /\ RecordsWhatItMailed /\ LinksWereMailed /\ WorksOnKnownVersions

\* A new account has version 1 of its invitation, unsent.
LEMMA InitInv == Init => IInv
BY InvitationAssumption
DEF Init, IInv, TypeOK, Versions, Idle, SentIsCurrent, RedeemedOnce, RecordsWhatItMailed,
    LinksWereMailed, WorksOnKnownVersions

\* Every action keeps the types.
LEMMA TypeStep == TypeOK /\ [Next]_vars => TypeOK'
<1> SUFFICES ASSUME TypeOK, [Next]_vars PROVE TypeOK'
  OBVIOUS
<1> USE InvitationAssumption DEF TypeOK, Versions
<1>1. CASE EnqueueVersion
  BY <1>1 DEF EnqueueVersion
<1>2. ASSUME NEW w \in Workers, Take(w) PROVE TypeOK'
  <2>1. PICK v \in 1..MaxVersion :
          /\ jobs' \in {[jobs EXCEPT ![v] = "ACTIVE"], [jobs EXCEPT ![v] = "NONE"]}
          /\ worker' \in {worker, [worker EXCEPT ![w] = [pc |-> "MAIL", job |-> v,
                                                         version |-> invitation.version]]}
    BY <1>2 DEF Take
  <2>2. [pc |-> "MAIL", job |-> v, version |-> invitation.version]
           \in [pc : {"IDLE", "MAIL", "RECORD"}, job : Versions, version : Versions]
    OBVIOUS
  <2>3. worker' \in [Workers -> [pc : {"IDLE", "MAIL", "RECORD"}, job : Versions,
                                version : Versions]]
    BY <2>1, <2>2
  <2>4. jobs' \in [Versions -> {"NONE", "WAITING", "ACTIVE"}]
    BY <2>1
  <2> QED
    BY <1>2, <2>3, <2>4 DEF Take
<1>3. ASSUME NEW w \in Workers, SendMail(w) PROVE TypeOK'
  BY <1>3 DEF SendMail
<1>4. ASSUME NEW w \in Workers, RecordSent(w) PROVE TypeOK'
  BY <1>4 DEF RecordSent
<1>5. ASSUME NEW w \in Workers, Fail(w) PROVE TypeOK'
  <2>1. jobs' \in [Versions -> {"NONE", "WAITING", "ACTIVE"}]
    BY <1>5 DEF Fail
  <2>2. worker' \in [Workers -> [pc : {"IDLE", "MAIL", "RECORD"}, job : Versions,
                                version : Versions]]
    BY <1>5 DEF Fail
  <2> QED
    BY <1>5, <2>1, <2>2 DEF Fail
<1>6. CASE LoseJobs
  BY <1>6 DEF LoseJobs
<1>7. ASSUME NEW r \in Resends, ReadForResend(r) PROVE TypeOK'
  BY <1>7 DEF ReadForResend
<1>8. ASSUME NEW r \in Resends, Resend(r) PROVE TypeOK'
  <2>1. invitation' \in [version : Versions, sent : {"NO", "RECENTLY", "YES"}, accepted : BOOLEAN]
    <3>1. CASE UNCHANGED invitation
      BY <3>1
    <3>2. CASE /\ invitation.version < MaxVersion
               /\ invitation' = [invitation EXCEPT !.version = @ + 1, !.sent = "NO"]
      <4>1. invitation.version + 1 \in Versions
        BY <3>2
      <4> QED
        BY <3>2, <4>1
    <3> QED
      BY <1>8, <3>1, <3>2 DEF Resend
  <2> QED
    BY <1>8, <2>1 DEF Resend
<1>9. ASSUME NEW a \in Accepts, VerifyToken(a) PROVE TypeOK'
  BY <1>9 DEF VerifyToken
<1>10. ASSUME NEW a \in Accepts, Accept(a) PROVE TypeOK'
  <2>1. CASE NotYetRedeemed
    <3>1. /\ invitation' = [invitation EXCEPT !.accepted = TRUE]
          /\ redeemed' = redeemed + 1
      BY <1>10, <2>1 DEF Accept
    <3>2. invitation' \in [version : Versions, sent : {"NO", "RECENTLY", "YES"},
                           accepted : BOOLEAN]
      BY <3>1
    <3>3. redeemed' \in Nat
      BY <3>1
    <3> QED
      BY <1>10, <3>2, <3>3 DEF Accept
  <2>2. CASE ~NotYetRedeemed
    BY <1>10, <2>2 DEF Accept
  <2> QED
    BY <2>1, <2>2
<1>11. CASE Expire
  BY <1>11 DEF Expire, Valid
<1>12. CASE MinutePasses
  BY <1>12 DEF MinutePasses
<1>13. CASE DeleteUser \/ RestoreUser
  BY <1>13 DEF DeleteUser, RestoreUser
<1>14. CASE UNCHANGED vars
  BY <1>14 DEF vars
<1>15. ASSUME NEW a \in Accepts, FindAccount(a) PROVE TypeOK'
  BY <1>15 DEF FindAccount
<1> QED
  BY <1>1, <1>2, <1>3, <1>4, <1>5, <1>6, <1>7, <1>8, <1>9, <1>10, <1>11, <1>12, <1>13, <1>14,
     <1>15
  DEF Next, Send

\* Every step keeps the invariant.
LEMMA NextInv == IInv /\ [Next]_vars => IInv'
<1> SUFFICES ASSUME IInv, [Next]_vars PROVE IInv'
  OBVIOUS
<1>0. TypeOK'
  BY TypeStep DEF IInv
<1> USE DEF IInv, TypeOK, SentIsCurrent, RedeemedOnce, RecordsWhatItMailed, LinksWereMailed,
        WorksOnKnownVersions, Versions
<1>1. CASE EnqueueVersion \/ LoseJobs \/ Expire \/ DeleteUser \/ RestoreUser
  BY <1>0, <1>1 DEF EnqueueVersion, LoseJobs, Expire, DeleteUser, RestoreUser
<1>2. ASSUME NEW w \in Workers, Take(w) PROVE IInv'
  <2>1. /\ UNCHANGED <<invitation, accept, mailed, redeemed>>
        /\ \A x \in Workers : \/ worker'[x] = worker[x]
                              \/ worker'[x].pc = "MAIL" /\ worker'[x].version = invitation.version
    BY <1>2 DEF Take
  <2>2. WorksOnKnownVersions'
    BY <2>1
  <2>3. RecordsWhatItMailed'
    BY <2>1
  <2>4. SentIsCurrent' /\ RedeemedOnce' /\ LinksWereMailed'
    BY <2>1
  <2> QED
    BY <1>0, <2>2, <2>3, <2>4
<1>3. ASSUME NEW w \in Workers, SendMail(w) PROVE IInv'
  BY <1>0, <1>3 DEF SendMail
<1>4. ASSUME NEW w \in Workers, RecordSent(w) PROVE IInv'
  BY <1>0, <1>4 DEF RecordSent, StillThatVersion
<1>5. ASSUME NEW w \in Workers, Fail(w) PROVE IInv'
  BY <1>0, <1>5 DEF Fail
<1>6. ASSUME NEW r \in Resends, ReadForResend(r) PROVE IInv'
  BY <1>0, <1>6 DEF ReadForResend
<1>7. ASSUME NEW r \in Resends, Resend(r) PROVE IInv'
  <2>1. /\ UNCHANGED <<worker, accept, mailed, redeemed>>
        /\ \/ UNCHANGED invitation
           \/ /\ invitation'.version = invitation.version + 1
              /\ invitation'.sent = "NO" /\ invitation'.accepted = invitation.accepted
    BY <1>7 DEF Resend
  <2>2. WorksOnKnownVersions'
    BY <2>1
  <2>3. SentIsCurrent' /\ RedeemedOnce'
    BY <2>1
  <2>4. RecordsWhatItMailed' /\ LinksWereMailed'
    BY <2>1
  <2> QED
    BY <1>0, <2>2, <2>3, <2>4
<1>8. ASSUME NEW a \in Accepts, VerifyToken(a) PROVE IInv'
  BY <1>0, <1>8 DEF VerifyToken
<1>9. ASSUME NEW a \in Accepts, Accept(a) PROVE IInv'
  <2>1. /\ UNCHANGED <<worker, mailed>>
        /\ \/ UNCHANGED <<invitation, redeemed>>
           \/ /\ redeemed' = redeemed + 1 /\ ~invitation.accepted /\ mailed # {}
              /\ invitation' = [invitation EXCEPT !.accepted = TRUE]
    BY <1>9 DEF Accept, NotYetRedeemed
  <2>2. RedeemedOnce'
    BY <2>1
  <2>3. SentIsCurrent' /\ WorksOnKnownVersions' /\ RecordsWhatItMailed'
    BY <2>1
  <2>4. LinksWereMailed'
    BY <1>9, <2>1 DEF Accept
  <2> QED
    BY <1>0, <2>2, <2>3, <2>4
<1>10. CASE MinutePasses
  BY <1>0, <1>10 DEF MinutePasses
<1>11. CASE UNCHANGED vars
  BY <1>0, <1>11 DEF vars
<1>12. ASSUME NEW a \in Accepts, FindAccount(a) PROVE IInv'
  BY <1>0, <1>12 DEF FindAccount
<1> QED
  BY <1>1, <1>2, <1>3, <1>4, <1>5, <1>6, <1>7, <1>8, <1>9, <1>10, <1>11, <1>12 DEF Next, Send

\* The inductive invariant holds of every reachable state.
THEOREM Invariance == Spec => []IInv
BY InitInv, NextInv, PTL DEF Spec

\* Every reachable state of the invitation, its jobs and its readers has the stated types.
THEOREM TypesHold == Spec => []TypeOK
<1>1. IInv => TypeOK
  BY DEF IInv
<1> QED
  BY <1>1, Invariance, PTL

\* For any number of workers, resends and versions: what the row calls sent was mailed.
THEOREM SentWasMailed == Spec => []SentIsCurrent
<1>1. IInv => SentIsCurrent
  BY DEF IInv
<1> QED
  BY <1>1, Invariance, PTL

\* However many links race, the invitation sets one password.
THEOREM OnePassword == Spec => []RedeemedOnce
<1>1. IInv => RedeemedOnce
  BY DEF IInv
<1> QED
  BY <1>1, Invariance, PTL

\* Once accepted, the invitation stays accepted: nothing re-opens a redeemed link.
THEOREM AcceptedForGood == Spec => [][invitation.accepted => invitation'.accepted]_vars
<1>1. IInv /\ [Next]_vars => [invitation.accepted => invitation'.accepted]_vars
  <2> SUFFICES ASSUME IInv, [Next]_vars, invitation.accepted PROVE invitation'.accepted
    OBVIOUS
  <2> QED
    BY DEF IInv, TypeOK, Next, Send, EnqueueVersion, LoseJobs, Expire, DeleteUser, RestoreUser,
       MinutePasses, Take, SendMail, RecordSent, Fail, ReadForResend, Resend, VerifyToken,
       FindAccount, Accept, vars
<1> QED
  BY <1>1, Invariance, PTL DEF Spec

\* The step a worker takes with its job: only mailing and recording are seen from outside.
LEMMA WorkerFollows ==
  ASSUME IInv, NEW w \in Workers, Send(w) \/ Fail(w)
  PROVE [Promise!Next]_(Promise!vars)
<1> USE DEF IInv, TypeOK, Versions
<1>1. CASE Take(w) \/ Fail(w)
  BY <1>1 DEF Take, Fail, Promise!vars
<1>2. CASE SendMail(w)
  <2>1. PICK v \in 1..MaxVersion : v = worker[w].version
    OBVIOUS
  <2>2. Promise!Mail(v)
    BY <1>2, <2>1 DEF SendMail, Promise!Mail, WorksOnKnownVersions
  <2> QED
    BY <2>2 DEF Promise!Next
<1>3. CASE RecordSent(w)
  <2>1. CASE StillThatVersion(worker[w].version)
    <3>1. Promise!Record
      BY <1>3, <2>1 DEF RecordSent, StillThatVersion, Promise!Record, RecordsWhatItMailed,
         RedeemedOnce
    <3> QED
      BY <3>1 DEF Promise!Next
  <2>2. CASE ~StillThatVersion(worker[w].version)
    BY <1>3, <2>2 DEF RecordSent, Promise!vars
  <2> QED
    BY <2>1, <2>2
<1> QED
  BY <1>1, <1>2, <1>3 DEF Send

\* A resend that comes late, after another or after the redemption, changes nothing.
LEMMA ResendFollows ==
  ASSUME IInv, NEW r \in Resends, Resend(r)
  PROVE Promise!Renew \/ UNCHANGED Promise!vars
<1> USE DEF IInv, TypeOK, Versions
<1>1. CASE invitation.version = resend[r] /\ ~invitation.accepted
  <2>1. Promise!Renew
    BY <1>1 DEF Resend, Promise!Renew, RedeemedOnce
  <2> QED
    BY <2>1
<1>2. CASE ~(invitation.version = resend[r] /\ ~invitation.accepted)
  BY <1>2 DEF Resend, Promise!vars
<1> QED
  BY <1>1, <1>2

\* The redemptions that found the account.
Found == {a \in Accepts : accept[a] = "FOUND"}

\* Whoever finds the account is admitted, others are answered.
LEMMA FindAccountFollows ==
  ASSUME IInv, NEW a \in Accepts, FindAccount(a)
  PROVE Promise!Admit(a) \/ UNCHANGED Promise!vars
<1> USE DEF IInv, TypeOK
<1>1. CASE alive
  <2>1. a \notin Found /\ Found' = Found \cup {a}
    BY <1>1 DEF FindAccount, Found
  <2>2. mailed # {}
    BY DEF FindAccount, LinksWereMailed
  <2> QED
    BY <1>1, <2>1, <2>2 DEF FindAccount, Found, Promise!Admit
<1>2. CASE ~alive
  <2>1. Found' = Found
    BY <1>2 DEF FindAccount, Found
  <2> QED
    BY <2>1 DEF FindAccount, Found, Promise!vars
<1> QED
  BY <1>1, <1>2

\* Of those admitted one sets the password, the others are turned away.
LEMMA AcceptFollows ==
  ASSUME IInv, NEW a \in Accepts, Accept(a)
  PROVE Promise!Redeem(a) \/ Promise!TurnAway(a)
<1> USE DEF IInv, TypeOK, Versions
<1>1. a \in Found /\ Found' = Found \ {a}
  BY DEF Accept, Found
<1>2. NotYetRedeemed <=> redeemed = 0 /\ invitation.version > expired
  BY DEF NotYetRedeemed, Valid, RedeemedOnce
<1>3. CASE NotYetRedeemed
  <2>1. redeemed' = 1 /\ invitation'.version = invitation.version
        /\ invitation'.sent = invitation.sent
    BY <1>2, <1>3 DEF Accept
  <2> QED
    BY <1>1, <1>2, <1>3, <2>1 DEF Accept, Found, Promise!Redeem, Promise!Open
<1>4. CASE ~NotYetRedeemed
  BY <1>1, <1>2, <1>4 DEF Accept, Found, Promise!TurnAway, Promise!Open
<1> QED
  BY <1>3, <1>4

\* Every step of rows, queue, workers and requests is one of the promise, or none.
LEMMA InvitationFollows == IInv /\ [Next]_vars => [Promise!Next]_(Promise!vars)
<1> SUFFICES ASSUME IInv, [Next]_vars PROVE [Promise!Next]_(Promise!vars)
  OBVIOUS
<1>1. CASE EnqueueVersion \/ LoseJobs
  BY <1>1 DEF EnqueueVersion, LoseJobs, Promise!vars
<1>2. ASSUME NEW w \in Workers, Send(w) \/ Fail(w) PROVE [Promise!Next]_(Promise!vars)
  BY <1>2, WorkerFollows
<1>3. ASSUME NEW r \in Resends, ReadForResend(r) \/ Resend(r)
      PROVE [Promise!Next]_(Promise!vars)
  <2>1. CASE ReadForResend(r)
    BY <2>1 DEF ReadForResend, Promise!vars
  <2>2. CASE Resend(r)
    BY <2>2, ResendFollows DEF Promise!Next
  <2> QED
    BY <1>3, <2>1, <2>2
<1>4. ASSUME NEW a \in Accepts, VerifyToken(a) \/ FindAccount(a) \/ Accept(a)
      PROVE [Promise!Next]_(Promise!vars)
  <2>1. CASE VerifyToken(a)
    <3>1. Found' = Found
      BY <2>1 DEF VerifyToken, Found, IInv, TypeOK
    <3> QED
      BY <2>1, <3>1 DEF VerifyToken, Found, Promise!vars
  <2>2. CASE FindAccount(a)
    BY <2>2, FindAccountFollows DEF Promise!Next
  <2>3. CASE Accept(a)
    BY <2>3, AcceptFollows DEF Promise!Next
  <2> QED
    BY <1>4, <2>1, <2>2, <2>3
<1>5. CASE Expire
  <2>1. Promise!Expire
    BY <1>5 DEF Expire, Valid, Promise!Expire
  <2> QED
    BY <2>1 DEF Promise!Next
<1>6. CASE MinutePasses
  BY <1>6 DEF MinutePasses, IInv, TypeOK, Promise!vars
<1>7. CASE DeleteUser \/ RestoreUser
  <2>1. Promise!BlockOrRestore
    BY <1>7 DEF DeleteUser, RestoreUser, Promise!BlockOrRestore
  <2> QED
    BY <2>1 DEF Promise!Next
<1>8. CASE UNCHANGED vars
  BY <1>8 DEF vars, Promise!vars
<1> QED
  BY <1>1, <1>2, <1>3, <1>4, <1>5, <1>6, <1>7, <1>8 DEF Next

\* For any number of workers, resends, links and faults: the invitation sets one password, for a
\* request that found the account, and is closed by it, whatever is still in flight.
THEOREM ImplementsPromise == Spec => ActivatesOnce
<1>1. Init => Promise!Init
  BY DEF Init, Promise!Init
<1> QED
  BY <1>1, Invariance, InvitationFollows, PTL DEF Spec, ActivatesOnce, Promise!Spec

-----------------------------------------------------------------------------
(* The dispatcher                                                          *)

\* While nothing fails, what the dispatcher was woken for is queued, in the batch, or ahead of a
\* query.  This is the induction's part only, not a promise: rerun also stands when it was set
\* after the last loop test, where nobody reads it.
WakeupsKept ==
  failures = 0 =>
    \A r \in woken : records[r] = "QUEUED" \/ r \in batch \/ pc = "QUERY" \/ rerun

\* The inductive invariant: running says that a pass is under way, only a pass handing
\* records over has a batch, and only a committed record wakes the dispatcher.
PassInv ==
  /\ RecoveryTypeOK
  /\ running <=> pc # "IDLE"
  /\ cron => running
  /\ pc # "ENQUEUE" => batch = {}
  /\ \A r \in woken : records[r] # "ABSENT"
  /\ \A r \in batch : records[r] = "PENDING"
  /\ WakeupsKept

\* At the start nothing is recorded, nothing is woken and no pass runs.
LEMMA PassInit == RecoveryInit => PassInv
<1> SUFFICES ASSUME RecoveryInit PROVE PassInv
  OBVIOUS
<1> USE FailuresAssumption DEF RecoveryInit
<1>1. RecoveryTypeOK
  <2>1. 0 \in 0..MaxFailures
    OBVIOUS
  <2>2. records \in [Records -> {"ABSENT", "PENDING", "QUEUED"}]
    OBVIOUS
  <2> QED
    BY <2>1, <2>2 DEF RecoveryTypeOK
<1>2. WakeupsKept
  BY DEF WakeupsKept
<1> QED
  BY <1>1, <1>2 DEF PassInv

\* Every stretch of JavaScript keeps the invariant.
LEMMA PassStep ==
  ASSUME PassInv, [RecoveryNext]_recoveryVars PROVE PassInv'
<1> USE FailuresAssumption DEF PassInv, RecoveryTypeOK, WakeupsKept
<1>1. ASSUME NEW r \in Records, Persist(r) PROVE PassInv'
  BY <1>1 DEF Persist
<1>2. ASSUME NEW r \in Records, Trigger(r) PROVE PassInv'
  BY <1>2 DEF Trigger, Run
<1>3. CASE Cron
  BY <1>3 DEF Cron, Run
<1>4. CASE Query
  BY <1>4 DEF Query
<1>5. ASSUME NEW r \in Records, Enqueue(r) PROVE PassInv'
  <2>1. CASE records' = [records EXCEPT ![r] = "QUEUED"] /\ UNCHANGED failures
    BY <1>5, <2>1 DEF Enqueue
  <2>2. CASE failures < MaxFailures /\ failures' = failures + 1 /\ UNCHANGED records
    BY <1>5, <2>2 DEF Enqueue
  <2> QED
    BY <1>5, <2>1, <2>2 DEF Enqueue
<1>6. CASE LoopTest
  BY <1>6 DEF LoopTest
<1>7. CASE Settle
  BY <1>7 DEF Settle
<1>8. CASE PassFails
  BY <1>8 DEF PassFails
<1>9. CASE Restart
  <2>1. failures' \in 0..MaxFailures /\ failures' # 0
    BY <1>9 DEF Restart
  <2>2. woken' \subseteq Records /\ (\A r \in woken' : records'[r] # "ABSENT")
    BY <1>9 DEF Restart
  <2>3. batch' = {} /\ pc' = "IDLE" /\ running' = FALSE /\ rerun' = FALSE /\ cron' = FALSE
    BY <1>9 DEF Restart
  <2>4. records' = records
    BY <1>9 DEF Restart
  <2>5. RecoveryTypeOK'
    BY <2>1, <2>2, <2>3, <2>4
  <2>6. WakeupsKept'
    BY <2>1
  <2> QED
    BY <2>2, <2>3, <2>5, <2>6
<1>10. CASE UNCHANGED recoveryVars
  BY <1>10 DEF recoveryVars
<1> QED
  BY <1>1, <1>2, <1>3, <1>4, <1>5, <1>6, <1>7, <1>8, <1>9, <1>10
  DEF RecoveryNext, Pass

\* The invariant of the dispatcher holds of every reachable state.
THEOREM PassInvariance == RecoverySpec => []PassInv
<1>1. PassInv /\ [RecoveryNext]_recoveryVars => PassInv'
  BY PassStep
<1> QED
  BY <1>1, PassInit, PTL DEF RecoverySpec

\* For any number of records: when the last loop test of a pass finds rerun unset and nothing has
\* failed, every record the dispatcher was woken for until then has been handed over.
THEOREM PassServesItsWakeups == RecoverySpec => LastTestServesAll
<1>1. PassInv /\ [RecoveryNext]_recoveryVars
        => [pc = "ENQUEUE" /\ pc' = "RETURNED" /\ failures = 0
              => \A r \in woken : records[r] = "QUEUED"]_recoveryVars
  <2> SUFFICES ASSUME PassInv, RecoveryNext, pc = "ENQUEUE", pc' = "RETURNED", failures = 0,
                      NEW r \in woken
               PROVE  records[r] = "QUEUED"
    BY DEF recoveryVars
  <2>1. CASE LoopTest
    <3>1. batch = {} /\ ~ rerun
      BY <2>1 DEF LoopTest
    <3> QED
      BY <3>1 DEF PassInv, WakeupsKept
  <2>2. CASE ~ LoopTest
    BY <2>2 DEF RecoveryNext, Persist, Trigger, Run, Cron, Pass, Query, Enqueue, Settle,
                PassFails, Restart
  <2> QED
    BY <2>1, <2>2
<1> QED
  BY <1>1, PassInvariance, PTL DEF RecoverySpec, LastTestServesAll

-----------------------------------------------------------------------------
(* The reminder of a consultation                                          *)

\* A request under way carries the row it committed, and nothing is in the way of its job.
RequestFollowsRow ==
  \A q \in Requests : request[q].pc # "IDLE" =>
    /\ request[q].start = consultation.start
    /\ request[q].schedules <=> consultation.status \in Open

\* Before the consultation there is no job.
NoJobBefore == consultation.status = "NONE" => job.state = "NONE"

\* Row, requests and job agree.
InLine == RequestFollowsRow /\ NoJobBefore /\ ClearedBeforeAdd /\ ReminderAgrees

\* The inductive invariant of requests that follow one another.
ReminderInv == ReminderTypeOK /\ InLine

\* At the start there is no consultation, no job and no request.
LEMMA ReminderInitInv == ReminderInit => ReminderInv
BY ReminderAssumption DEF ReminderInit, ReminderInv, InLine, ReminderTypeOK,
  RequestFollowsRow, NoJobBefore,
  ClearedBeforeAdd, ReminderAgrees, IdleRequest, NoJob, Quiet

\* Types do not need the requests to follow one another.
LEMMA ReminderTypes ==
  ASSUME ReminderTypeOK, [ReminderNext]_reminderVars
  PROVE ReminderTypeOK'
<1> USE ReminderAssumption DEF ReminderTypeOK, Starts
<1> DEFINE RequestType == [pc : {"IDLE", "GET", "REMOVE", "ADD"}, start : 0..LastStart,
                           schedules : BOOLEAN]
           RowType == [status : {"NONE"} \cup Open \cup Closed,
                       start : 0..LastStart]
<1>0. IdleRequest \in RequestType /\ request \in [Requests -> RequestType]
  BY DEF IdleRequest
<1>a. ASSUME NEW q \in Requests, AfterRemoval(q)
      PROVE request' \in [Requests -> RequestType]
  <2>1. [request[q] EXCEPT !.pc = "ADD"] \in RequestType
    BY <1>0
  <2> QED
    BY <1>a, <1>0, <2>1 DEF AfterRemoval
<1>1. ASSUME NEW q \in Requests, NEW st \in Open \cup Closed,
             NEW s \in Starts, Create(q, st, s) \/ Update(q, st, s)
      PROVE ReminderTypeOK'
  <2>1. PICK p \in {"ADD", "GET"} :
          request' = [request EXCEPT ![q] = [pc |-> p, start |-> s,
                                             schedules |-> st \in Open]]
    BY <1>1 DEF Create, Update
  <2>2. (st \in Open) \in BOOLEAN /\ s \in 0..LastStart
    OBVIOUS
  <2>3. [pc |-> p, start |-> s, schedules |-> st \in Open] \in RequestType
    BY <2>2
  <2>4. request' \in [Requests -> RequestType]
    BY <1>0, <2>1, <2>3
  <2>5. [status |-> st, start |-> s] \in RowType
    BY <2>2
  <2>6. consultation' = [status |-> st, start |-> s] /\ UNCHANGED <<job, now>>
    BY <1>1 DEF Create, Update
  <2> QED
    BY <2>4, <2>5, <2>6
<1>2. ASSUME NEW q \in Requests, Decline(q) PROVE ReminderTypeOK'
  BY <1>2 DEF Decline, Closed
<1>3. ASSUME NEW q \in Requests, GetJob(q) PROVE ReminderTypeOK'
  <2>1. request' \in [Requests -> RequestType]
    BY <1>0, <1>3, <1>a DEF GetJob
  <2> QED
    BY <1>3, <2>1 DEF GetJob
<1>4. ASSUME NEW q \in Requests, RemoveJob(q) PROVE ReminderTypeOK'
  <2>1. request' \in [Requests -> RequestType]
    BY <1>0, <1>4, <1>a DEF RemoveJob
  <2> QED
    BY <1>4, <2>1 DEF RemoveJob, NoJob
<1>5. ASSUME NEW q \in Requests, AddJob(q) PROVE ReminderTypeOK'
  BY <1>5 DEF AddJob, IdleRequest
<1>6. CASE Confirm
  BY <1>6 DEF Confirm, Open
<1>7. CASE SendReminder \/ Sent
  BY <1>7 DEF SendReminder, Sent, NoJob
<1>8. CASE Tick
  BY <1>8 DEF Tick
<1>9. CASE UNCHANGED reminderVars
  BY <1>9 DEF reminderVars
<1> QED
  BY <1>1, <1>2, <1>3, <1>4, <1>5, <1>6, <1>7, <1>8, <1>9 DEF ReminderNext

\* A step that starts from and leads to one request at a time keeps the invariant.
LEMMA ReminderStep ==
  ASSUME ReminderInv, [ReminderNext]_reminderVars,
         OneAtATime, OneAtATime'
  PROVE ReminderInv'
<1>0. ReminderTypeOK'
  BY ReminderTypes DEF ReminderInv
<1> SUFFICES InLine'
  BY <1>0 DEF ReminderInv
<1> USE DEF ReminderInv, InLine, ReminderTypeOK, RequestFollowsRow, NoJobBefore,
        ClearedBeforeAdd,
        ReminderAgrees, Quiet, OneAtATime
<1>1. ASSUME NEW q \in Requests, NEW st \in Open \cup Closed,
             NEW s \in Starts, Create(q, st, s) \/ Update(q, st, s)
      PROVE InLine'
  <2>1. request'[q].pc # "IDLE"
    BY <1>1 DEF Create, Update
  <2>2. \A p \in Requests : p # q => request'[p].pc = "IDLE" /\ request'[p] = request[p]
    BY <1>1, <2>1 DEF Create, Update
  <2>3. Quiet
    BY <1>1, <2>2 DEF Create, Update
  <2>4. /\ consultation' = [status |-> st, start |-> s]
        /\ request'[q].start = s /\ request'[q].schedules = (st \in Open)
        /\ UNCHANGED job
        /\ request'[q].pc = "ADD" => consultation.status = "NONE"
    BY <1>1 DEF Create, Update
  <2>5. st # "NONE" /\ ~Quiet'
    BY <2>1 DEF Open, Closed
  <2>6. RequestFollowsRow'
    BY <2>2, <2>4
  <2>7. ClearedBeforeAdd'
    BY <2>2, <2>4
  <2>8. ReminderAgrees' /\ NoJobBefore'
    BY <2>4, <2>5
  <2> QED
    BY <2>6, <2>7, <2>8
<1>2. ASSUME NEW q \in Requests, Decline(q)
      PROVE InLine'
  BY <1>2 DEF Decline, Open
<1>3. ASSUME NEW q \in Requests, GetJob(q)
      PROVE InLine'
  BY <1>3 DEF GetJob, AfterRemoval, IdleRequest
<1>4. ASSUME NEW q \in Requests, RemoveJob(q)
      PROVE InLine'
  BY <1>4 DEF RemoveJob, AfterRemoval, IdleRequest, NoJob
<1>5. ASSUME NEW q \in Requests, AddJob(q)
      PROVE InLine'
  <2>1. request'[q].pc = "IDLE" /\ (\A p \in Requests : p # q => request'[p] = request[p])
    BY <1>5 DEF AddJob, IdleRequest
  <2>2. \A p \in Requests : request'[p].pc = "IDLE"
    BY <1>5, <2>1 DEF AddJob
  <2>3. consultation' = consultation
    BY <1>5 DEF AddJob
  <2>4. job.state = "NONE" /\ request[q].start = consultation.start
    BY <1>5 DEF AddJob
  <2>5. CASE request[q].schedules
    BY <1>5, <2>2, <2>3, <2>4, <2>5 DEF AddJob, Open
  <2>6. CASE ~request[q].schedules
    BY <1>5, <2>2, <2>3, <2>4, <2>6 DEF AddJob
  <2> QED
    BY <2>5, <2>6
<1>6. CASE Confirm
  BY <1>6 DEF Confirm, Open
<1>7. CASE SendReminder \/ Sent
  BY <1>7 DEF SendReminder, Sent, NoJob
<1>8. CASE Tick
  BY <1>8 DEF Tick
<1>9. CASE UNCHANGED reminderVars
  BY <1>9 DEF reminderVars
<1> QED
  BY <1>1, <1>2, <1>3, <1>4, <1>5, <1>6, <1>7, <1>8, <1>9 DEF ReminderNext

\* The types hold however requests overlap.
THEOREM ReminderTypeCorrect == ReminderSpec => []ReminderTypeOK
<1>1. ReminderInit => ReminderTypeOK
  BY ReminderInitInv DEF ReminderInv
<1>2. ReminderTypeOK /\ [ReminderNext]_reminderVars => ReminderTypeOK'
  BY ReminderTypes
<1> QED
  BY <1>1, <1>2, PTL DEF ReminderSpec

\* Requests that follow one another keep the invariant, however many there are.
THEOREM ReminderInvariance == ReminderSpec /\ []OneAtATime => []ReminderInv
<1>1. /\ ReminderInv /\ [ReminderNext]_reminderVars
      /\ OneAtATime /\ OneAtATime'
      => ReminderInv'
  BY ReminderStep
<1> QED
  BY <1>1, ReminderInitInv, PTL DEF ReminderSpec

\* Only requests that overlap leave a reminder that the consultation does not want.
THEOREM ReminderInLine == ReminderSpec /\ []OneAtATime => []ReminderAgrees
<1>1. ReminderInv => ReminderAgrees
  BY DEF ReminderInv, InLine
<1> QED
  BY <1>1, ReminderInvariance, PTL

\* Only for requests that overlap can an older job be in the way of the new one.
THEOREM NothingInTheWay == ReminderSpec /\ []OneAtATime => []ClearedBeforeAdd
<1>1. ReminderInv => ClearedBeforeAdd
  BY DEF ReminderInv, InLine
<1> QED
  BY <1>1, ReminderInvariance, PTL

=============================================================================
