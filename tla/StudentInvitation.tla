-------------------------- MODULE StudentInvitation --------------------------
(***************************************************************************)
(* The invitation by which a student whose account was created for them    *)
(* sets a password: one row, mailed by queue workers in numbered delivery  *)
(* versions, asked for again by the expert, and redeemed once by the       *)
(* student, while mails fail, workers die, links expire and the account    *)
(* may be blocked and restored.                                            *)
(*                                                                         *)
(* Every version has its own expiry, later than the one before; a link     *)
(* carries the expiry of the version it was mailed for.                    *)
(***************************************************************************)
EXTENDS Naturals, FiniteSets

CONSTANTS
  Workers,     \* queue workers of all application instances
  Resends,     \* requests of the expert to send the invitation again
  Accepts,     \* requests that redeem a link
  MaxVersion,  \* bound: deliveryVersion
  MaxFaults    \* bound: failed mails, refused jobs and dead workers

ASSUME InvitationAssumption == MaxVersion \in Nat \ {0} /\ MaxFaults \in Nat

VARIABLES
  invitation,  \* LeadStudentInvitation: deliveryVersion, sentAt, acceptedAt
  expired,     \* versions up to this one have expired
  alive,       \* User.deletedAt is null
  jobs,        \* BullMQ queue lead-invitations, by delivery version
  worker,      \* send(): the statement each worker executes next, its job, the version it read
  resend,      \* resend(): the version each request has read, 0 before and after
  accept,      \* accept(): the statement each request executes next
  mailed,      \* versions the mail server took over
  redeemed,    \* history: how often a password was set through the invitation
  faults

vars == <<invitation, expired, alive, jobs, worker, resend, accept, mailed, redeemed, faults>>

Versions == 1..MaxVersion
Idle == [pc |-> "IDLE", job |-> 1, version |-> 1]

Init ==
  /\ invitation = [version |-> 1, sent |-> "NO", accepted |-> FALSE]
  /\ expired = 0 /\ alive = TRUE
  /\ jobs = [v \in Versions |-> "NONE"]
  /\ worker = [w \in Workers |-> Idle]
  /\ resend = [r \in Resends |-> 0]
  /\ accept = [a \in Accepts |-> "NEW"]
  /\ mailed = {} /\ redeemed = 0 /\ faults = 0

Valid == invitation.version > expired
Unsent == invitation.sent = "NO" /\ ~invitation.accepted /\ Valid

-----------------------------------------------------------------------------
(* Delivery                                                                *)

\* recoverPending, after a commit or every five minutes: a job that exists is not added twice.
EnqueueVersion ==
  /\ Unsent /\ jobs[invitation.version] = "NONE"
  /\ jobs' = [jobs EXCEPT ![invitation.version] = "WAITING"]
  /\ UNCHANGED <<invitation, expired, alive, worker, resend, accept, mailed, redeemed, faults>>

\* bug: every job belongs to the original invitation
FirstVersion(v) == invitation.version = 1

CurrentVersion(v) == invitation.version = v

\* A job that is superseded or has nothing left to do is completed.
Take(w) ==
  /\ worker[w].pc = "IDLE"
  /\ \E v \in Versions :
       /\ jobs[v] = "WAITING"
       /\ IF Unsent /\ alive /\ CurrentVersion(v)
          THEN /\ worker' = [worker EXCEPT ![w] = [pc |-> "MAIL", job |-> v,
                                                   version |-> invitation.version]]
               /\ jobs' = [jobs EXCEPT ![v] = "ACTIVE"]
          ELSE /\ jobs' = [jobs EXCEPT ![v] = "NONE"]
               /\ UNCHANGED worker
  /\ UNCHANGED <<invitation, expired, alive, resend, accept, mailed, redeemed, faults>>

SendMail(w) ==
  /\ worker[w].pc = "MAIL"
  /\ mailed' = mailed \cup {worker[w].version}
  /\ worker' = [worker EXCEPT ![w].pc = "RECORD"]
  /\ UNCHANGED <<invitation, expired, alive, jobs, resend, accept, redeemed, faults>>

\* bug: records the delivery of whatever is pending
StillPending(v) == ~invitation.accepted /\ invitation.sent = "NO"

StillThatVersion(v) ==
  invitation.version = v /\ ~invitation.accepted /\ invitation.sent = "NO"

RecordSent(w) ==
  /\ worker[w].pc = "RECORD"
  /\ invitation' = IF StillThatVersion(worker[w].version)
                   THEN [invitation EXCEPT !.sent = "RECENTLY"] ELSE invitation
  /\ worker' = [worker EXCEPT ![w].pc = "IDLE"]
  /\ jobs' = [jobs EXCEPT ![worker[w].job] = "NONE"]
  /\ UNCHANGED <<expired, alive, resend, accept, mailed, redeemed, faults>>

\* A statement fails or the worker dies, before or after the mail left: the job is retried, or
\* dropped after its last attempt.
Fail(w) ==
  /\ worker[w].pc # "IDLE" /\ faults < MaxFaults
  /\ faults' = faults + 1
  /\ worker' = [worker EXCEPT ![w].pc = "IDLE"]
  /\ \E s \in {"WAITING", "NONE"} : jobs' = [jobs EXCEPT ![worker[w].job] = s]
  /\ UNCHANGED <<invitation, expired, alive, resend, accept, mailed, redeemed>>

\* Redis loses what is queued.
LoseJobs ==
  /\ faults < MaxFaults /\ \E v \in Versions : jobs[v] # "NONE"
  /\ faults' = faults + 1
  /\ jobs' = [v \in Versions |-> "NONE"]
  /\ UNCHANGED <<invitation, expired, alive, worker, resend, accept, mailed, redeemed>>

-----------------------------------------------------------------------------
(* The expert sends it again                                               *)

ReadForResend(r) ==
  /\ resend[r] = 0
  /\ alive /\ ~invitation.accepted /\ invitation.sent # "RECENTLY"
  /\ resend' = [resend EXCEPT ![r] = invitation.version]
  /\ UNCHANGED <<invitation, expired, alive, jobs, worker, accept, mailed, redeemed, faults>>

\* Conditional on the version that was read: of two requests that read the same one, one fails.
Resend(r) ==
  /\ resend[r] # 0
  /\ resend' = [resend EXCEPT ![r] = 0]
  /\ IF invitation.version = resend[r] /\ ~invitation.accepted
     THEN /\ invitation.version < MaxVersion
          /\ invitation' = [invitation EXCEPT !.version = @ + 1, !.sent = "NO"]
     ELSE UNCHANGED invitation
  /\ UNCHANGED <<expired, alive, jobs, worker, accept, mailed, redeemed, faults>>

-----------------------------------------------------------------------------
(* The student redeems a link                                              *)

\* A link of any version that was mailed is good until its own expiry.
VerifyToken(a) ==
  /\ accept[a] = "NEW"
  /\ \E v \in mailed : v > expired
  /\ accept' = [accept EXCEPT ![a] = "VERIFIED"]
  /\ UNCHANGED <<invitation, expired, alive, jobs, worker, resend, mailed, redeemed, faults>>

\* The transaction's first statement: the account of the invitation must exist.
FindAccount(a) ==
  /\ accept[a] = "VERIFIED"
  /\ accept' = [accept EXCEPT ![a] = IF alive THEN "FOUND" ELSE "ANSWERED"]
  /\ UNCHANGED <<invitation, expired, alive, jobs, worker, resend, mailed, redeemed, faults>>

\* bug: redeems whatever has not expired
Redeemable == Valid

NotYetRedeemed == ~invitation.accepted /\ Valid

\* Its second statement, conditional on the invitation alone: at READ COMMITTED the account may
\* have been blocked since it was found, and the password is set all the same.
Accept(a) ==
  /\ accept[a] = "FOUND"
  /\ accept' = [accept EXCEPT ![a] = "ANSWERED"]
  /\ IF NotYetRedeemed
     THEN /\ invitation' = [invitation EXCEPT !.accepted = TRUE]
          /\ redeemed' = redeemed + 1
     ELSE UNCHANGED <<invitation, redeemed>>
  /\ UNCHANGED <<expired, alive, jobs, worker, resend, mailed, faults>>

-----------------------------------------------------------------------------
Expire ==
  /\ Valid
  /\ expired' = expired + 1
  /\ UNCHANGED <<invitation, alive, jobs, worker, resend, accept, mailed, redeemed, faults>>

MinutePasses ==
  /\ invitation.sent = "RECENTLY"
  /\ invitation' = [invitation EXCEPT !.sent = "YES"]
  /\ UNCHANGED <<expired, alive, jobs, worker, resend, accept, mailed, redeemed, faults>>

DeleteUser ==
  /\ alive
  /\ alive' = FALSE
  /\ UNCHANGED <<invitation, expired, jobs, worker, resend, accept, mailed, redeemed, faults>>

RestoreUser ==
  /\ ~alive
  /\ alive' = TRUE
  /\ UNCHANGED <<invitation, expired, jobs, worker, resend, accept, mailed, redeemed, faults>>

Send(w) == Take(w) \/ SendMail(w) \/ RecordSent(w)

Next ==
  \/ EnqueueVersion \/ LoseJobs
  \/ \E w \in Workers : Send(w) \/ Fail(w)
  \/ \E r \in Resends : ReadForResend(r) \/ Resend(r)
  \/ \E a \in Accepts : VerifyToken(a) \/ FindAccount(a) \/ Accept(a)
  \/ Expire \/ MinutePasses \/ DeleteUser \/ RestoreUser

\* The schedule runs recovery, and the workers run their jobs to the end.
Fairness ==
  /\ WF_vars(EnqueueVersion)
  /\ \A w \in Workers : WF_vars(Send(w))

Spec == Init /\ [][Next]_vars
FairSpec == Spec /\ Fairness

-----------------------------------------------------------------------------
TypeOK ==
  /\ invitation \in [version : Versions, sent : {"NO", "RECENTLY", "YES"}, accepted : BOOLEAN]
  /\ expired \in 0..MaxVersion /\ alive \in BOOLEAN
  /\ jobs \in [Versions -> {"NONE", "WAITING", "ACTIVE"}]
  /\ worker \in [Workers -> [pc : {"IDLE", "MAIL", "RECORD"}, job : Versions, version : Versions]]
  /\ resend \in [Resends -> 0..MaxVersion]
  /\ accept \in [Accepts -> {"NEW", "VERIFIED", "FOUND", "ANSWERED"}]
  /\ mailed \subseteq Versions /\ redeemed \in Nat /\ faults \in 0..MaxFaults

\* What is recorded as sent was mailed in the version the expert asked for last: a slow worker of
\* an older version never makes a newer one look delivered.
SentIsCurrent == invitation.sent # "NO" => invitation.version \in mailed

\* The row counts the passwords: it is accepted when one was set, and only after some link
\* reached the student.
RedeemedOnce ==
  /\ redeemed = IF invitation.accepted THEN 1 ELSE 0
  /\ invitation.accepted => mailed # {}

\* However many links, workers and requests race, the invitation behaves as OneTimeInvitation:
\* it sets one password, for a request that found the account, and a late worker or a late
\* resend changes nothing after that.
Promise == INSTANCE OneTimeInvitation WITH
  Requests <- Accepts,
  version <- invitation.version, delivered <- invitation.sent # "NO",
  links <- mailed, account <- alive, admitted <- {a \in Accepts : accept[a] = "FOUND"},
  passwords <- redeemed
ActivatesOnce == Promise!Spec

\* An invitation is mailed in its current version unless it is redeemed, expires or the account
\* is blocked first, whatever is lost on the way.
EventuallySent == Unsent ~> (invitation.sent # "NO" \/ invitation.accepted \/ ~Valid \/ ~alive)

=============================================================================
