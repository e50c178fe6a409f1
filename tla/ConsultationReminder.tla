------------------------- MODULE ConsultationReminder -------------------------
(***************************************************************************)
(* The reminder job of ONE consultation.  Creating, editing and declining  *)
(* the consultation first commit to the database and then, statement by    *)
(* statement and without a lock, bring the delayed job in the mail queue   *)
(* into line with what that request committed, not with what the row holds *)
(* by then.  The job is sent from its own data: the consultation is not    *)
(* read again.                                                             *)
(*                                                                         *)
(* The queue is external: one job per job id; add() of an id that exists   *)
(* does nothing; remove() fails on a job a worker has locked.              *)
(* One unit of the clock is the ten minutes a reminder is sent ahead.      *)
(*                                                                         *)
(* The names every module has (Init, Next, TypeOK...) carry a prefix: the  *)
(* proofs about the background jobs extend this module with others.        *)
(***************************************************************************)
EXTENDS Naturals

CONSTANTS
  Requests,   \* requests that may be under way at once
  LastStart,  \* bound: start times are 1..LastStart
  None

ASSUME ReminderAssumption ==
  /\ LastStart \in Nat
  /\ None \notin Requests

Starts == 1..LastStart
Open == {"REQUESTED", "CONFIRMED"}
Closed == {"CANCELLED", "DONE"}

VARIABLES
  consultation,  \* the row; status "NONE" before it is created
  job,           \* the mail queue's job of id reminder-<id>
  request,       \* where each request stands, with the row as that request committed it
  now            \* the clock

reminderVars == <<consultation, job, request, now>>

NoJob == [state |-> "NONE", start |-> 0]
IdleRequest == [pc |-> "IDLE", start |-> 0, schedules |-> FALSE]

ReminderInit ==
  /\ consultation = [status |-> "NONE", start |-> 0]
  /\ job = NoJob
  /\ request = [q \in Requests |-> IdleRequest]
  /\ now = 0

-----------------------------------------------------------------------------
(* The commits.  Whether the slot is free is BookingTx's question; of the  *)
(* roles, the widest is modelled: an expert may set any status and start.  *)

\* create() and book(): a meeting row comes with the consultation.
Create(q, st, s) ==
  /\ request[q].pc = "IDLE"
  /\ consultation.status = "NONE"
  /\ consultation' = [status |-> st, start |-> s]
  /\ request' = [request EXCEPT ![q] = [pc |-> "ADD", start |-> s, schedules |-> st \in Open]]
  /\ UNCHANGED <<job, now>>

\* bug: schedules without removing the job of the old schedule
UpdateWithoutRemoval(q, st, s) ==
  /\ request[q].pc = "IDLE"
  /\ consultation.status # "NONE"
  /\ consultation' = [status |-> st, start |-> s]
  /\ request' = [request EXCEPT ![q] = [pc |-> "ADD", start |-> s, schedules |-> st \in Open]]
  /\ UNCHANGED <<job, now>>

\* update() with a status or a start.
Update(q, st, s) ==
  /\ request[q].pc = "IDLE"
  /\ consultation.status # "NONE"
  /\ consultation' = [status |-> st, start |-> s]
  /\ request' = [request EXCEPT ![q] = [pc |-> "GET", start |-> s, schedules |-> st \in Open]]
  /\ UNCHANGED <<job, now>>

\* respondToMeetingRequest(): the reminder stays as it is.
Confirm ==
  /\ consultation.status = "REQUESTED"
  /\ consultation' = [consultation EXCEPT !.status = "CONFIRMED"]
  /\ UNCHANGED <<job, request, now>>

Decline(q) ==
  /\ request[q].pc = "IDLE"
  /\ consultation.status = "REQUESTED"
  /\ consultation' = [consultation EXCEPT !.status = "CANCELLED"]
  /\ request' = [request EXCEPT ![q] =
       [pc |-> "GET", start |-> consultation.start, schedules |-> FALSE]]
  /\ UNCHANGED <<job, now>>

-----------------------------------------------------------------------------
(* After the commit                                                        *)

\* The request goes on to scheduleReminder, where it has anything to schedule.
AfterRemoval(q) ==
  request' = [request EXCEPT ![q] = IF @.schedules THEN [@ EXCEPT !.pc = "ADD"] ELSE IdleRequest]

\* bug: looks among the waiting jobs only, so a failed one keeps its id
GetWaitingJob(q) ==
  /\ request[q].pc = "GET"
  /\ IF job.state \in {"NONE", "FAILED"} THEN AfterRemoval(q)
     ELSE request' = [request EXCEPT ![q].pc = "REMOVE"]
  /\ UNCHANGED <<consultation, job, now>>

\* removeReminder: look the job up ...
GetJob(q) ==
  /\ request[q].pc = "GET"
  /\ IF job.state = "NONE" THEN AfterRemoval(q)
     ELSE request' = [request EXCEPT ![q].pc = "REMOVE"]
  /\ UNCHANGED <<consultation, job, now>>

\* ... and remove it.  A job that is being sent cannot be removed, and one that has gone
\* meanwhile may not be removable either: the request fails and schedules nothing.
RemoveJob(q) ==
  /\ request[q].pc = "REMOVE"
  /\ \/ /\ job.state # "ACTIVE"
        /\ job' = NoJob
        /\ AfterRemoval(q)
     \/ /\ job.state \in {"ACTIVE", "NONE"}
        /\ request' = [request EXCEPT ![q] = IdleRequest]
        /\ UNCHANGED job
  /\ UNCHANGED <<consultation, now>>

\* A reminder whose time has come is skipped.
TooSoon(s) == s <= now + 1

\* scheduleReminder, for the row as the request committed it.
AddJob(q) ==
  /\ request[q].pc = "ADD"
  /\ request' = [request EXCEPT ![q] = IdleRequest]
  /\ job' = IF request[q].schedules /\ ~TooSoon(request[q].start) /\ job.state = "NONE"
            THEN [state |-> "DELAYED", start |-> request[q].start] ELSE job
  /\ UNCHANGED <<consultation, now>>

-----------------------------------------------------------------------------
(* The mail worker and the clock                                           *)

SendReminder ==
  /\ job.state = "DELAYED" /\ TooSoon(job.start)
  /\ job' = [job EXCEPT !.state = "ACTIVE"]
  /\ UNCHANGED <<consultation, request, now>>

\* A sent job is removed, a failed one keeps its id.
Sent ==
  /\ job.state = "ACTIVE"
  /\ job' = NoJob \/ job' = [job EXCEPT !.state = "FAILED"]
  /\ UNCHANGED <<consultation, request, now>>

Tick ==
  /\ now < LastStart
  /\ now' = now + 1
  /\ UNCHANGED <<consultation, job, request>>

ReminderNext ==
  \/ \E q \in Requests :
       \/ \E st \in Open \cup Closed, s \in Starts : Create(q, st, s) \/ Update(q, st, s)
       \/ Decline(q) \/ GetJob(q) \/ RemoveJob(q) \/ AddJob(q)
  \/ Confirm \/ SendReminder \/ Sent \/ Tick

ReminderSpec == ReminderInit /\ [][ReminderNext]_reminderVars

-----------------------------------------------------------------------------
ReminderTypeOK ==
  /\ consultation \in [status : {"NONE"} \cup Open \cup Closed, start : 0..LastStart]
  /\ job \in [state : {"NONE", "DELAYED", "ACTIVE", "FAILED"}, start : 0..LastStart]
  /\ request \in [Requests -> [pc : {"IDLE", "GET", "REMOVE", "ADD"}, start : 0..LastStart,
                               schedules : BOOLEAN]]
  /\ now \in 0..LastStart

Quiet == \A q \in Requests : request[q].pc = "IDLE"

\* One request follows the other.
OneAtATime ==
  \A p, q \in Requests : request[p].pc # "IDLE" /\ request[q].pc # "IDLE" => p = q

\* add() of an id the queue still knows does nothing: as long as one request follows the
\* other, no job, waiting, failed or being sent, is in the way of the one that replaces it.
ClearedBeforeAdd == \A q \in Requests : request[q].pc = "ADD" => job.state = "NONE"

\* Once its requests are done, a consultation's reminder is waiting only while it is open,
\* and for its own start: true as long as one request follows the other.
ReminderAgrees ==
  Quiet /\ job.state = "DELAYED" =>
    consultation.status \in Open /\ job.start = consultation.start

\* "removes reminders when it is cancelled or completed": no reminder waits for a closed
\* consultation once the requests that closed it are done.
ClosedHasNoReminder ==
  Quiet /\ consultation.status \in Closed => job.state # "DELAYED"

=============================================================================
