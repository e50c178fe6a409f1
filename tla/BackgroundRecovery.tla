--------------------------- MODULE BackgroundRecovery ---------------------------
(***************************************************************************)
(* The dispatcher that lead reminders, call emails, student invitations    *)
(* and contract emails share.  A request commits its record and wakes the  *)
(* dispatcher; one pass at a time reads the pending records and hands them *)
(* to the queue; a wake-up during a pass asks that pass to run again; the  *)
(* scheduler starts a pass from time to time.                              *)
(*                                                                         *)
(* JavaScript runs one stretch between two awaits at a time, so an action  *)
(* is such a stretch.  drain() returning and its .finally() are two        *)
(* stretches: other callbacks may run between them.                        *)
(*                                                                         *)
(* The names every module has (Init, Next, TypeOK...) carry a prefix: the  *)
(* proofs about the background jobs extend this module with others.        *)
(***************************************************************************)
EXTENDS Naturals, FiniteSets

CONSTANTS
  Records,       \* persisted records, one per request
  MaxFailures    \* bound: failing passes, queue outages and restarts

ASSUME FailuresAssumption == MaxFailures \in Nat

VARIABLES
  records,   \* the database: what became of each record
  woken,     \* records whose request has called trigger()
  running,   \* this.running is set
  rerun,     \* this.rerun
  pc,        \* where drain() stands
  batch,     \* records the pass has read and not yet handed over
  cron,      \* the scheduler awaits a pass (waitForCompletion)
  failures

recoveryVars == <<records, woken, running, rerun, pc, batch, cron, failures>>

RecoveryInit ==
  /\ records = [r \in Records |-> "ABSENT"]
  /\ woken = {}
  /\ running = FALSE /\ rerun = FALSE
  /\ pc = "IDLE"
  /\ batch = {}
  /\ cron = FALSE
  /\ failures = 0

-----------------------------------------------------------------------------
\* A request commits its record ...
Persist(r) ==
  /\ records[r] = "ABSENT"
  /\ records' = [records EXCEPT ![r] = "PENDING"]
  /\ UNCHANGED <<woken, running, rerun, pc, batch, cron, failures>>

\* run(): joins the pass under way or starts one; drain() runs up to its query.
Run ==
  IF running THEN UNCHANGED <<running, rerun, pc>>
  ELSE running' = TRUE /\ rerun' = FALSE /\ pc' = "QUERY"

\* bug: leaves the pass under way to find the record
TriggerWhenIdle(r) ==
  /\ records[r] # "ABSENT" /\ r \notin woken
  /\ woken' = woken \cup {r}
  /\ Run
  /\ UNCHANGED <<records, batch, cron, failures>>

\* ... and then calls trigger().
Trigger(r) ==
  /\ records[r] # "ABSENT" /\ r \notin woken
  /\ woken' = woken \cup {r}
  /\ IF running THEN rerun' = TRUE /\ UNCHANGED <<running, pc>> ELSE Run
  /\ UNCHANGED <<records, batch, cron, failures>>

\* The scheduler: not before the pass it awaits has ended.
Cron ==
  /\ ~cron
  /\ cron' = TRUE
  /\ Run
  /\ UNCHANGED <<records, woken, batch, failures>>

\* recoverPending's query.
Query ==
  /\ pc = "QUERY"
  /\ batch' = {r \in Records : records[r] = "PENDING"}
  /\ pc' = "ENQUEUE"
  /\ UNCHANGED <<records, woken, running, rerun, cron, failures>>

\* One record is handed to the queue, or the queue is down and it stays for a later pass.
Enqueue(r) ==
  /\ pc = "ENQUEUE" /\ r \in batch
  /\ batch' = batch \ {r}
  /\ \/ records' = [records EXCEPT ![r] = "QUEUED"] /\ UNCHANGED failures
     \/ failures < MaxFailures /\ failures' = failures + 1 /\ UNCHANGED records
  /\ UNCHANGED <<woken, running, rerun, pc, cron>>

\* The loop test of drain(): once more, or return.
LoopTest ==
  /\ pc = "ENQUEUE" /\ batch = {}
  /\ IF rerun THEN rerun' = FALSE /\ pc' = "QUERY" ELSE pc' = "RETURNED" /\ UNCHANGED rerun
  /\ UNCHANGED <<records, woken, running, batch, cron, failures>>

\* bug: .then() where .finally() belongs, so a failed pass stays "running"
PassFailsForGood ==
  /\ pc = "QUERY"
  /\ failures < MaxFailures
  /\ failures' = failures + 1
  /\ pc' = "IDLE" /\ cron' = FALSE
  /\ UNCHANGED <<records, woken, running, rerun, batch>>

\* The query rejects: drain() throws.
PassFails ==
  /\ pc = "QUERY"
  /\ failures < MaxFailures
  /\ failures' = failures + 1
  /\ pc' = "RETURNED"
  /\ UNCHANGED <<records, woken, running, rerun, batch, cron>>

\* .finally(): fulfilled or rejected, the pass is over, and whoever awaits it goes on.
Settle ==
  /\ pc = "RETURNED"
  /\ running' = FALSE
  /\ pc' = "IDLE"
  /\ cron' = FALSE
  /\ UNCHANGED <<records, woken, rerun, batch, failures>>

\* The process restarts: the records survive, the dispatcher's fields and callers do not.
Restart ==
  /\ failures < MaxFailures
  /\ failures' = failures + 1
  /\ woken' = {r \in Records : records[r] # "ABSENT"}
  /\ running' = FALSE /\ rerun' = FALSE /\ pc' = "IDLE" /\ batch' = {} /\ cron' = FALSE
  /\ UNCHANGED records

Pass == Query \/ (\E r \in Records : Enqueue(r)) \/ LoopTest \/ Settle

RecoveryNext ==
  \/ \E r \in Records : Persist(r) \/ Trigger(r)
  \/ Cron \/ Pass \/ PassFails \/ Restart

RecoverySpec == RecoveryInit /\ [][RecoveryNext]_recoveryVars

\* The event loop takes a pass on, and the schedule comes round again.
FairRecoverySpec == RecoverySpec /\ WF_recoveryVars(Pass) /\ WF_recoveryVars(Cron)

-----------------------------------------------------------------------------
RecoveryTypeOK ==
  /\ records \in [Records -> {"ABSENT", "PENDING", "QUEUED"}]
  /\ woken \subseteq Records /\ batch \subseteq Records
  /\ running \in BOOLEAN /\ rerun \in BOOLEAN /\ cron \in BOOLEAN
  /\ pc \in {"IDLE", "QUERY", "ENQUEUE", "RETURNED"}
  /\ failures \in 0..MaxFailures

\* drain() does not return over a wake-up: when its last loop test finds rerun unset and nothing
\* has failed, every record that a request woke the dispatcher for until then has been handed
\* over, at whatever point of a pass the wake-up fell.  A wake-up after that test and before
\* .finally() is outside: nothing reads the flag it sets.
LastTestServesAll ==
  [][pc = "ENQUEUE" /\ pc' = "RETURNED" /\ failures = 0
       => \A r \in woken : records[r] = "QUEUED"]_recoveryVars

\* Every committed record reaches the queue: whatever pass fails, whatever wake-up is lost
\* and wherever the process restarts.
EveryRecordQueued ==
  \A r \in Records : records[r] = "PENDING" ~> records[r] = "QUEUED"

\* "Coalesces recovery requests into one background pass and, when needed, one follow-up
\* pass": when no pass is left and nothing has failed, every record that a request woke the
\* dispatcher for has been handed over.
WakeupsServed ==
  pc = "IDLE" /\ failures = 0 => \A r \in woken : records[r] = "QUEUED"

=============================================================================
