# Verification of the Oxus backend

TLA+ models of the NestJS/Prisma backend in `src/` (paths below are relative to
`src/src/`), the TLC configurations that check them on small instances, and
TLAPS proofs of the results that matter most for every value of the constants.

The backend serves a study-abroad agency: Sales managers work leads towards a
consultation, experts (consultants) hold consultations and turn leads into
contracts, students pay, upload documents and do tasks. Concurrency comes from
HTTP handlers interleaving at every `await`, several PostgreSQL transactions at
once, BullMQ workers (in-app reminders, call emails, invitations, mail), cron
jobs, and process restarts. All durable state is in PostgreSQL; Redis only holds
jobs and is treated by the code as an unreliable wake-up.

## 1. Inventory

### Components with concurrent or multi-step state

| Component | State | Operations | Interacts with | What makes it hard | What makes it correct |
|---|---|---|---|---|---|
| **Lead lifecycle** (`modules/lead` repositories and services) | `Lead`, `LeadExpertCall` + `Meeting`, `LeadCallback`, `NotificationLog` (callback reminders), `LeadMeetingInvitation`, `LeadContractDraft` | accept, create/update callback, reject; preview, cancel and save preview, create/update/confirm/decline call; start, follow-up; prepare, sign, confirm contract | calendar, call emails, in-app reminders, realtime events, enrolment | Sales, expert and worker act in any order; several handlers write the lead's status without reading it; rows in six tables have to agree | one open call at most, the column of the lead says what its calls say, meetings/callbacks/reminders follow, contracting freezes everything |
| **Expert calendar** (`consultation.repository`, `lead-expert-call.service`, `common/database/expert-booking-lock`, `lead-transaction`) | `Consultation` and `LeadExpertCall` slots | create/book/edit a consultation, book/move a lead call, release | lead lifecycle, consultation reminders | lock granted after the snapshot was taken; two tables; retries | an expert is never booked twice; a request is booked once; every request is answered |
| **Lead call emails** (`lead-call-notification.service`, `lead-call-notifications`) | `NotificationLog` intents: status, attempts, lease, back-off | schedule, supersede, claim, send, record, retry, give up | lead lifecycle, dispatcher, SMTP | at-least-once workers, leases that expire under slow workers, moves of the call in mid-delivery, crashes | bounded copies, no superseded mail restarted, settled stays settled, all settle |
| **Recovery dispatcher** (`background-recovery`) | `running`, `rerun` | trigger, run, drain | lead reminders, call emails, invitations, contract emails | promise scheduling, failing passes, restarts | one pass at a time; every committed record reaches the queue |
| **Consultation reminders** (`consultation.service`, `mail.processor`) | one delayed job per consultation | create, edit, respond; send | calendar, mail queue | queue calls follow the commit without a lock | the job agrees with the row |
| **Student activation invitation** (`lead-student-invitation.service`) | invitation row with `deliveryVersion`, `sentAt`, `acceptedAt` | create, resend, send, accept | contract preparation, dispatcher | an old job after a resend; a token used twice | only what was mailed is marked sent; one activation; a live invitation is mailed |
| **Realtime gateway** (`lead-realtime.gateway`) and the administrator calls that take access away | sessions with their timers, rooms, account rows | connect, expire, disconnect a user, revalidate; block, unblock, change role | administration, lead events, the Redis adapter | blocking a user during the handshake on another server, lost messages, dying processes | whoever holds CRM rooms is watched; access that is taken away ends |
| **Contracts, instalments, benefits, billing** (`modules/contract`, `billing`, `studentportrait`, `lead-contract.service`) | `Contract` + instalments, `Transaction`, `StudentPortrait`, `StudentPackage` | create, edit, sign, confirm an instalment, adopt a contract of the online era, confirm a lead's contract; check out and settle an order; assign, transfer, choose an expert; book from the package | leads, calendar | receipts that come twice, late, or for two orders; a contract confirmed twice; experts changed meanwhile | benefits granted once per reason; one payment, one order; what is paid stays |
| **Student documents** (`modules/document`, `common/utils/minio`) | rows, objects in storage, the journal of storage intents, upload slots | upload, replace, rename, archive, submit, review; give up an upload, compensate, observe | portrait, blocking of users | row and object are stored separately, either may be lost or come late, the process may die; access changes between check and write | no row without its file; an orphan stays visible; a review fits the version it judged; slots come back |
| **Tasks and attempts** (`modules/task`, `attempt`, `question`) | `Task`, `Attempt`, `Response`, the questions of the test | create, answer, start, complete, delete; create, answer, submit, assign | documents (uploads) | every call reads, decides, and writes by id | work behind every completed task; an attempt belongs to one task |
| **Lead ingestion** (`lead-ingestion`) | `Lead` | submit | lead lifecycle | duplicate submissions racing | one lead per source and external id (a unique index) |

### Components that are CRUD, reading, or outside the program

Organisations and their requests and imports, programs and requirements, events,
promocodes, the expert catalogue, the expert's weekly schedule, meetings of the
staff, guest meetings, accounts, the user journey, the audit log, reference data,
the authorization guards, mail and SMS transport, deployment scripts and seeds.
`PROJECT.json` lists each with the reason it is not modelled, and, under `hazards`,
the lines of the code where the behaviours above bite, with the properties that
watch them.

## 2. Modules

| Module | Models | Kind |
|---|---|---|
| `LeadLifecycle`, `MCLeadLifecycle` | the CRM life of one lead, all six tables | state machine, 18 actions; implements `LeadFunnel` |
| `LeadFunnel` | what the funnel promises of one lead | abstract specification |
| `LeadLifecycle_proofs` | inductive invariant, its consequences, the refinement of `LeadFunnel` | proofs |
| `BookingLedger` | what the calendars promise | abstract specification |
| `BookingTx`, `MCBookingTx` | Serializable transactions, advisory lock, check, retry | implements `BookingLedger` |
| `BookingTx_proofs` | refinement and no double booking | proofs |
| `MailOutbox` | what the outbox of a call's mails promises | abstract specification |
| `CallDelivery` | the email outbox of one lead call | state machine, statement by statement; implements `MailOutbox` |
| `CallDelivery_proofs` | the counting argument and the refinement | proofs |
| `BackgroundRecovery` | the dispatcher and its scheduler | state machine, between awaits |
| `ConsultationReminder` | the reminder job of one consultation | state machine, statement by statement |
| `BenefitLedger` | what enrolment promises of the student's packages | abstract specification |
| `Enrolment`, `MCEnrolment` | contracts, instalments, orders, benefits, packages of one student | implements `BenefitLedger` |
| `Enrolment_proofs` | inductive invariant and the refinement | proofs |
| `OneTimeInvitation` | what an activation invitation promises | abstract specification |
| `StudentInvitation` | delivery and redemption of one activation invitation | state machine, statement by statement; implements `OneTimeInvitation` |
| `BackgroundJobs_proofs` | the invitation, the dispatcher and the reminder | proofs |
| `DocumentStore` | what the private documents of one student promise | abstract specification |
| `StudentDocuments`, `MCStudentDocuments` | rows, objects and journal of one student's documents | state machine, statement by statement; implements `DocumentStore` |
| `StudentDocuments_proofs` | the life of a storage key, its consequences, the refinement | proofs |
| `RealtimeSessions` | handshake, revocation and revalidation over several servers | state machine, between awaits |
| `RealtimeSessions_proofs` | nobody slips in behind a revocation | proofs |
| `StudentWork` | tasks and attempts | state machine, statement by statement |
| `StudentWork_proofs` | inductive invariant | proofs |

Each leaves to another what the other asks: whether a slot is free is
`BookingTx`'s question and is left open in `LeadLifecycle` and
`ConsultationReminder`; the intents of a call are `CallDelivery`'s, which keeps of
the lead only what its worker reads (status, schedule, start) and whose `Close`
covers the routes out of `LeadLifecycle`'s open calls, with and without
cancelling the pending notifications; how a persisted row gets to a worker is
`BackgroundRecovery`'s, and the fairness of `StudentInvitation`'s and
`CallDelivery`'s recovery is what `BackgroundRecovery` shows. The confirmation of
a lead's contract appears twice: in `LeadLifecycle` for what it does to the lead, in
`Enrolment` (`ConfirmLead`) for what it does to contract, portrait and package.

`BackgroundRecovery` and `ConsultationReminder` prefix their `Init`, `Next`, `vars`, `Spec` and
`TypeOK` (`RecoveryInit`, `ReminderInit`, ...), so that `BackgroundJobs_proofs` can extend them
and `StudentInvitation` together.

Operators whose comment starts with `bug:` are variants of the action or helper
that follows them. They belong to no specification; each breaks the property
named in the `mutants` list of `PROJECT.json`, which shows that the property
depends on that piece of code.

### LeadLifecycle

One lead, so that the rows that have to agree stay in view. Leads share nothing
but the experts' calendars.

| Variable | Code |
|---|---|
| `lead` | `Lead`: `status`, `manager` = `salesManagerId`, `expert` = `expertUserId`, `started` = who set `expertStartedAt`, `contract` = the terms its contract was created with |
| `calls` | `LeadExpertCall` with its `Meeting`; `invitation` = `invitationId`, `startPassed` = `startTime <= now` |
| `callbacks`, `reminders` | `LeadCallback`, `NotificationLog` of type `LEAD_CALLBACK_REMINDER` |
| `previews` | `LeadMeetingInvitation`; `expired` = `expiresAt` has passed |
| `draft` | `LeadContractDraft`, `SIGNED` once `signedAt` is set |

A handler is one action: each runs in `leadTransaction` (Serializable, retried)
or is one conditional UPDATE. The exception is `preview()`, which reads the lead
outside a transaction and inserts afterwards; `Preview` therefore requires of the
lead only what cannot change any more, its owner. Rows come from finite sets of
identities, the bound on how many are ever created. `Lead.deletedAt` is read by
guards but set nowhere in the code, and is left out; so are the questionnaire,
comments, lists and event publication.

### LeadFunnel

The same lead as its manager reads it off the board: a column, an owner, an expert, at most
one appointment ahead, a contract in preparation, the terms of the contract. No rows, so
nothing that could disagree. `LeadLifecycle` implements it (`FollowsFunnel`): `Ahead` collects
the appointments from the open calls and scheduled callbacks of all rows, and that this is
never more than one is part of what the refinement shows. `preview()`, its cancelling, the
reminder worker and the clock are stutters; saving a preview is `Book` or `Move`.

### BookingLedger and BookingTx

`BookingLedger` is the promise: one calendar per expert over two tables, a grant
only where nothing overlaps, at most one grant per request. `BookingTx` is the
mechanism. `Begin` takes the snapshot, `LockExpert` waits for
`pg_advisory_xact_lock`, `Check` looks for overlaps *in the snapshot*, `Commit`
succeeds only if `Serializable` lets it, `Conflict` retries up to `MaxAttempts`
(three in the code) and then answers 409, `Disconnect` is the process or its
connection dying, `Release` any transaction that frees a slot. The variables
`missed` and `touched` describe, of PostgreSQL's Serializable isolation, exactly
the guarantee the calendar needs: no commit over a row written since the snapshot,
and no commit when two concurrent transactions each read what the other wrote. The
database may also abort for no visible reason. Weakening it to repeatable read
(`RepeatableRead`) double-books: the lock alone does not protect the calendar.

### CallDelivery

`kind` says which of the two mails it is, the one about the assignment or the
reminder; `call` keeps the status, the version of the schedule (each move makes a
new one) and how near the start is; `intents` the `NotificationLog` row per
version; `worker` the statement at which each `deliver()` stands; `sends` the mails
the SMTP server accepted. A write that the code makes conditional on
`deliveryLeaseUntil` is conditional on `Owned`. The lease timestamp is the name of
the worker that wrote it. `Send` may succeed, be refused, or be accepted and still
look failed. BullMQ is not modelled as a queue: recovery puts every available
intent in it again and a job may run twice, so any worker may claim any available
intent at any time, which allows every order the queue could produce.

### MailOutbox

The promise of the outbox, per schedule of the call: `OPEN` mail is attempted a bounded number
of times, each attempt brings one copy at most, and the mail is settled once, as `SENT` only
with a copy out and as `FAILED` only without an attempt left. There is no worker in it, so no
attempt can begin for anything but the present schedule. `CallDelivery` implements it
(`DeliversAsPromised`) with claims, leases, retries, crashes and moves in mid-delivery: an intent
is `OPEN` whether it is pending, being delivered or waiting for its back-off.

### BackgroundRecovery

An action is a stretch of JavaScript between two awaits. `drain()` returning
and the callback of `.finally()` are separate, because other callbacks that are
already queued may run in between. A pass is `Query`, one `Enqueue` per record,
`LoopTest`; `PassFails` is the query rejecting. `Restart` keeps the rows and
forgets the fields, the callers and the pass.

### ConsultationReminder

A request is a commit followed by `getJob`, `remove` and `add`, each a step of its
own, carrying the row as that request committed it. The job is sent from its own data.
BullMQ is external: one job per id, `add` of an existing id does nothing, `remove`
fails on a locked job. A crash between the commit and the queue calls is left out:
it loses the job by construction, and no line of the code claims otherwise.

### BenefitLedger and Enrolment

`BenefitLedger` is the promise: the slots of the student's packages grow by one tier,
with the student's expert, for one reason (a contract or an order); no reason counts twice,
none comes without its tier, and paying never takes a student from the expert they have. A
student nobody looks after has no package to credit. `Enrolment` is how the code keeps it.

| Variable | Code |
|---|---|
| `contracts` | `Contract` rows; `type`, `signed` = `signedAt`, `confirmed` = a manual confirmation is recorded, `paid` = the dates of its `ContractInstallment` rows, 0 while unpaid |
| `lead` | the CRM lead the student comes from: status, expert, the contract it is linked to |
| `orders` | `Transaction` rows; `ref` = the provider's payment id |
| `portrait`, `package` | `StudentPortrait` (subscription, `consultantProfileId`), `StudentPackage` total and used slots per expert |
| `booking` | what the booking handler has read before its transaction |
| `granted` | history: the reasons whose benefits were granted |

Confirmations and settlements are Serializable transactions, single steps; the check
before a checkout and the reads before a booking are steps of their own. The online
signature is refused by `online-signing-disabled.guard.ts`, so a contract signed online
exists from the start (`Historical`), with benefits granted or not: the old code
activated them after the signature was committed. `HistoricalBenefits` is
`assertHistoricalBenefits`, which compares totals, used slots and subscription before
an old contract is adopted. Slots used are not compared with the total anywhere in the
code, so the models do not either.

### StudentInvitation

`Take`, `SendMail`, `RecordSent` are the worker; `ReadForResend`, `Resend` the expert's
request, whose UPDATE is conditional on the version it read. `VerifyToken`, `FindAccount`,
`Accept` are the student's: the token, the read of the invitation with its user, and the UPDATE,
which is conditional on the invitation alone. The transaction runs at READ COMMITTED, so
`DeleteUser` (a block) between the last two goes unnoticed and the password is set on a blocked
account; `RestoreUser` is the unblock. A token is a version and its expiry. A mail may be accepted by the server and
still be reported failed. `EnqueueVersion` is the recovery pass; `LoseJobs` the loss of
Redis' contents.

### OneTimeInvitation

The promise, without queue and workers: links go out, the current version is recorded as
delivered, renewed, and redeemed once, after which only mails already on their way still leave.
A request is `admitted` while the account exists; of those admitted the first to come while the
invitation is open sets the password, and nobody else is turned away before. It does not promise
that the account still exists at that moment, because the code does not look. `StudentInvitation` implements it (`ActivatesOnce`): what a worker or a resend
writes after the redemption, from what it read before, is a stutter.

### StudentDocuments

| Variable | Code |
|---|---|
| `docs` | `Document`: storage key, status, version, `updatedAt`, `deletedAt`, and the request its audit entry names |
| `objects`, `late` | keys in the private bucket; uploads given up that may still arrive |
| `intents` | `AuditLog` rows of action `DOCUMENT_STORAGE_PENDING` and their state |
| `assigned`, `blocked` | the student's expert; users with `deletedAt` |
| `req`, `open` | the statement each handler executes next and what it has read; transactions at COMMIT |
| `active` | `activeUploads` of the capacity interceptor |

A mutation reads the row and the assignment before its transaction, each compared again
under lock inside it (`Transact`). Between a transaction's last statement and its outcome
the client may be told nothing (`open`): the handler then leaves the object and its intent
for the observer instead of compensating. The observer only classifies and reports, it
repairs nothing; `OrphansObserved` says what it can rely on. `review()` is compared with the
version its own handler read: the client sends none.

### DocumentStore

The promise: a version is stored whole, in one step, by someone with access at that moment;
its file is new and is kept. A step of `StudentDocuments` maps to a `Store`, `Submit`, `Review` or
`Archive` at the commit of its transaction and to a stutter before and after
(`StoredWhole`); `files` are the objects whose intent is committed.

### RealtimeSessions

A handshake is the awaits of `handleConnection`: verify the token and join the session
room, read the account, join the CRM rooms, enter the map with a timer. Each account change is one commit on some server
(`calls`) followed by `revokeUser`, local at once and by the adapter (`wire`) elsewhere. Each
server revalidates its open sessions by cron. `missed` remembers servers a revocation never
reached. The events the gateway emits change no state and are left out.

### StudentWork

No call here holds a transaction. `CheckX` is the reading statement of a call, the
action after it the write by id. A request is a process. The PATCH of an attempt with an
explicit `userId: null` clears its owner (`ASSIGN`), and `submit()` refuses an attempt that
has an owner, so a task's attempt is submitted by completing the task.

## 3. Runs

All runs are exhaustive for their constants.

| Run | Instance | Question |
|---|---|---|
| `lead_lifecycle` | 1 manager, 2 experts, calls, reminders, times, terms; 1 callback, 1 link | do lead, open call, meeting, expert, link, callback and reminder agree in every order of booking, moving, answering, closing, contracting; does contracting freeze the lead and the signed terms; do the six tables implement `LeadFunnel` (`FollowsFunnel`)? |
| `booking` | 2 requests, 2 experts, one row of each table, two adjacent half-slots, 3 attempts, fairness | does a check on a stale snapshot after a wait ever double-book; do the transactions refine the ledger; is every request answered? |
| `call_delivery` | both mails, 2 workers, 1 move, 2 attempts, 1 fault, fairness | do overlapping, dying and outliving workers stay within the attempts, leave settled intents alone; do they implement `MailOutbox` (`DeliversAsPromised`); do all settle? |
| `recovery_cron` | 3 records, 3 faults, fairness | does every committed record reach the queue; does a pass that nothing fails ever return over a wake-up from before its last loop test (`LastTestServesAll`)? |
| `recovery_wakeup` | 2 records, no fault | is a wake-up always followed by a pass that sees its record? **No.** |
| `reminder_sequential` | 1 request at a time, 4 start times | does the job agree with the consultation while the worker and clock race one request; is the old job always out of the way of the new one (`ClearedBeforeAdd`)? |
| `reminder_concurrent` | 2 requests at once | does a closed consultation ever keep its reminder? **Yes.** |
| `enrolment` | 2 contracts, orders, payments, experts; tier 1, 2 instalments, 2 dates, 2 bookings | are benefits granted once per reason, one tier for the student's expert, whatever is signed, adopted, paid twice or reassigned? |
| `student_invitation` | 2 workers, resends, redemptions, versions, faults; fairness | does an older job ever mark a newer version as sent; is one password set, for a request that found the account, and the invitation closed by it (`ActivatesOnce`); is a live invitation mailed? |
| `student_documents` | 1 document, 2 requests, 1 expert, 1 slot, 1 crash | do rows keep their files, orphans stay visible, reviews fit their version, and writes stay authorised; do they implement `DocumentStore` (`StoredWhole`)? |
| `realtime_sessions` | 1 user, 1 socket, 2 servers, 3 account changes, 2 faults; fairness | does a blocked user ever keep CRM rooms unwatched, or for ever? |
| `task_attempts` | 1 task, 1 student, 2 attempts, 2 requests | is a started attempt ever replaced? **Yes.** |

### Why the bounds are enough

- *Lead.* The properties compare at most two rows of a table. Two calls let a stale
  one meet a new one, two reminders cover a callback that moved; a link is booked or
  cancelled once. Two callbacks meet only through "cancel all that are scheduled", one
  statement; the proofs cover every number.
- *Calendar.* Two requests: one commits while the other waits for the lock with an old
  snapshot, or moves a row the other has read. Three boundaries of time (0, 1, 2) give
  equal, enclosing and adjacent slots; partial overlaps and any number of requests are
  covered by the proofs, which have no bound.
- *Delivery.* Two workers are the old and the new owner of one lease; two attempts
  distinguish the last from the others. A `REMINDER` waits for its time and for a
  confirmation, after which the call cannot be moved any more; an `ASSIGNED` mail is due at
  once and may be in flight when the call is moved. The code's `MAX_ATTEMPTS` is larger;
  nothing but the comparison with it depends on the number, and the proofs leave it open.
- *Dispatcher.* Three records: one in the batch, one behind it, one not committed.
- *Reminder.* Four start times put a start in the past, due, and movable either way.
- *Enrolment.* A reason is compared with at most one other: two contracts, two orders, and
  two payments that can fund one or two of them. Tier 1 makes a second grant visible; two
  experts let the package change hands. Again the proofs have no bound.
- *Invitation.* Two workers with jobs of two versions, each of which a resend may overtake;
  two redemptions of one or of two links.
- *Documents.* Two requests: two writers of one row, or a writer and a reviewer. A third
  would only repeat what one of them did. Documents share nothing but the upload slots,
  and with one slot two uploads contend.
- *Sessions.* Sockets do not read each other's state, so one is enough; the second server
  is where the administrator acts; three changes block, unblock and block again within one
  handshake; two faults lose the message and the process.
- *Tasks.* The violation needs two requests and two attempts.

`CHECK_DEADLOCK FALSE` is stated only where a system has a natural end (a closed lead,
answered requests, settled intents, paid contracts, a redeemed invitation). All other runs
check deadlock.

### Fairness

- `BookingTx`: weak fairness of each request's next statement (`Proceed`): the process goes on,
  a free lock is granted, and a COMMIT is answered, with a conflict only where `Serializable`
  refuses it. Nobody has to submit or release. A spontaneous abort (`Conflict` in the other
  phases) and `Disconnect` may happen and are never forced, so a request that waits for a lock
  gets on only because the lock's holder ends and the lock with it: `pg_advisory_lock`, which a
  session keeps (`EndKeepingLock`), leaves it waiting for ever. Weak fairness is enough for the
  lock because the attempts, and with them the others who can take it first, are bounded.
- `CallDelivery`: time passes; a started delivery runs on (the event loop); the cron
  that runs every ten seconds puts every available intent before a worker; expired leases and
  back-offs are only time. Faults are bounded and never forced.
- `BackgroundRecovery`: the event loop takes a pass on, and the schedule
  (`waitForCompletion`) comes round once the pass it awaits has ended.
- `StudentInvitation`: the recovery schedule comes round and a worker that took a job runs
  on. Neither the expert nor the student has to do anything.
- `RealtimeSessions`: a handshake goes on, expiry timers fire, and the cron of a running
  server completes. Nothing is promised of messages: any may be lost.

### What the three violations show

- `recovery_wakeup`: `trigger()` called after `drain()` has tested `rerun` for the last
  time and before `.finally()` clears `running` sets a flag nobody reads any more. The
  class comment promises a follow-up pass. Nothing is lost for good, because
  the schedule starts the next pass: that is `EveryRecordQueued` in `recovery_cron`.
- `reminder_concurrent`: one request reschedules, a second cancels and finds no job to
  remove, the first then adds one. The consultation is cancelled and its reminder goes
  out, contrary to the comment on `update()`.
- `task_attempts`: `startTestAttempt` reads the task, sees no attempt, creates one and links it in
  statements of their own. Two requests at once both see none; the second link replaces the
  first, and the attempt the student may be answering belongs to no task. The task's
  message for a second start says it has already been started.

## 4. Proofs

`LeadLifecycle_proofs` assumes `NoneIsNull` (NULL is no user, row, time or terms),
nothing else: any number of managers, experts, calls, callbacks, reminders, links and
terms. The inductive invariant `IInv` is the conjunction of all state invariants of
the module and `DraftHasTerms` (a draft has terms; without it a confirmation
could produce a contract with none, and `ContractingFrozen` would not be preserved).
They need each other: declining writes the lead's status without reading it and keeps
`StatusMatchesCall` only through `OneActiveCall`; `CallbackExclusive` survives a
booking only because status and calls agree. One lemma per action, one step per group
of conjuncts; three lemmas say what the bulk updates leave. From `Invariance` follow a theorem
for each invariant the run checks and for the action properties (`SignedTermsAreBinding`,
and `NoStepBack`, which is only proved).

`ImplementsFunnel` is the refinement of `LeadFunnel`, again one lemma per action. What an action
does to the set `Ahead` of appointments is stated once by `NothingAhead`, `CallIsAhead`,
`CallbackIsAhead` and `AheadFromRow`, and `Rows` collects what the rows have in common. Each
conjunct of `IInv` has a place in it: `OpenCall` takes from `OneActiveCall`, `StatusMatchesCall`
and `ActiveCallAnswerable` that an open call is the one appointment, with the lead's expert, in
the column of its format; `CallbackExclusive` does the same for a callback; and a route that
reads only part of the lead finds it in the funnel because of `ContractingFrozen`
(`MutableInFunnel`).

`BookingTx_proofs` assumes `LedgerAssumption` and `AttemptsAssumption`. The invariant
`TxInv` says that a row which differs from an open transaction's snapshot was freed or
was written by a request that transaction is known to have missed (`MissedExplains`),
and that a checked transaction found nothing overlapping in its snapshot
(`CheckedClear`). At a commit, an overlapping row would therefore be one that a missed request
wrote; as overlap is symmetric (`OverlapSymmetric`, `SeesOverlap`), each of the two read what
the other wrote, and the database does not let the second commit. So every commit is
a `Grant` (`CommitGrants`), every step refines the ledger (`StepRefines`,
`TransactionsImplementLedger`), and `NeverDoubleBooked` follows from the ledger's own
invariant (`LedgerNeverDoubleBooks`). Ledger and transactions share the comparison `Overlap`, so neither would
notice if it were wrong in both; `OverlapMeansSharedTime` says that it is right: two bookings
overlap exactly when their expert would be in both during some unit of time. An adjacent slot is
therefore free, an enclosing one is not.

`CallDelivery_proofs` assumes `DeliveryAssumption` (at least one attempt; the numbers are
natural). The mails sent for a version are bounded by its attempts only because a worker
that has counted an attempt and not yet sent it has left room for that copy: `Counted` says
that the sends of a version and the workers about to send it together stay within the
attempts counted, `Attempting` which workers can be past their count, and that a worker which
still owns its row works for the current schedule. The set of such senders is finite and each
action changes it by one at most, which is where the lemmas about cardinality come in.
`ConservativeStep` covers every step that counts nothing. From `Invariance`: the bound on the
copies, settled old schedules, `SENT` only after a mail, and the two action properties, that
an old schedule is never counted again (`OldSchedulesAreNotCounted`, only proved) and that a
settled intent stays settled.

`ImplementsOutbox` is the refinement of `MailOutbox`. Each step lemma that keeps the invariant
concludes that the step follows the outbox as well (`Follows`): a claim is an `Attempt`, the mail
server's acceptance is `Mail`, whoever it is for, and its guard `copies < tries` is the room that
`Counted` leaves. Recording a result is `Settle` only while the worker owns the row, and
`Attempting` says that it then is at the row's last counted attempt, so a failure that is recorded
for good has used up the attempts. What a worker without its lease does is a stutter.

`Enrolment_proofs` assumes `EnrolmentAssumption`. `IInv` types the state, puts every row's
instalments in order (`RowInOrder`: dates never decrease, nothing is paid behind a gap,
`PAID` exactly when nothing is open), keeps payments and orders one to one, and says that
a contract that brought its benefits stays signed or paid (`GrantsInv`). The last part is what
the refinement needs: a reason that is granted
leaves a trace the guards look at, so the next grant is for a new one.
`ImplementsLedger` is the refinement of `BenefitLedger`, with contracts and orders as reasons
and the totals of the packages as slots. Each step lemma concludes `GrantStep`: nothing is granted,
or one new reason together with its tier for whoever is the student's expert after the step.

`BackgroundJobs_proofs` covers three components that leave work to a queue.
- *Invitation*, from `InvitationAssumption`. The induction needs that a worker at `RECORD` has
  mailed its version, that no worker is ahead of the row, that a link went out before one was
  verified, and that the row is accepted when a password was set (`RedeemedOnce`). `ImplementsPromise` is the
  refinement of `OneTimeInvitation`: these four are behind the guards of `Record`, `Mail`, `Admit`,
  and of `Redeem` and `Renew`. A request whose UPDATE finds nothing is turned away, and then the
  promise's `Open` is false as well. `OnePassword` and `AcceptedForGood` are only proved.
- *Dispatcher*, from `FailuresAssumption`. `PassInv` ties `running` to a pass under way, says that
  only a pass that hands records over has a batch, that what it holds is still pending,
  and that, while nothing fails, what the dispatcher was woken for is queued, in the batch, or
  ahead of a query (`WakeupsKept`). That is no promise by itself, since `rerun` also stands when it
  was set too late for anyone to read. `PassServesItsWakeups` (`LastTestServesAll`) is: when the
  last loop test of a pass finds `rerun` unset, everything woken for until then has been handed
  over. What the run `recovery_wakeup` loses is a wake-up after that test.
- *Reminder*, from `ReminderAssumption`. `ReminderInv` says what a request in flight carries: the
  row as it committed it, and once it is past `remove()` no job in its way. The theorems
  `ReminderInLine` and `NothingInTheWay` have the hypothesis `[]OneAtATime`: no request begins
  before the one ahead of it is done, for any number of requests in sequence. That is a
  condition on the clients and not a guarantee of the code: the run `reminder_concurrent` shows
  what happens without it, and `ReminderTypeCorrect` needs no such hypothesis.

`StudentWork_proofs` assumes nothing. `CompletedTasksCarryWork` (no task is completed
without an answer or an attempt, although check and write are two statements) and
`AttemptsNeverShared` (no two tasks show one attempt) survive what the violation
`task_attempts` shows, and hold for any number of tasks, students and requests: what a
request in flight relies on (`CallsInFlight`) is never undone by another. They are only proved.

`StudentDocuments_proofs` assumes `DocumentsAssumption`: at least one slot, finitely many
requests, and that keys, documents and users are told apart. The heart of `IInv` is `Key`, the
life of one storage key. Its intent is pending before the object can exist; only a
transaction whose callback threw reaches the compensation (`proven`), and by then the upload is
over and no COMMIT is undecided; so a key whose intent says `CLEANED` has no object and no upload
left that could bring it back, while `COMMITTED` is final and keeps its object. `Journal` adds
that every key a document names is committed. `Locks` says what the row locks protect until COMMIT
(access, the row that was read, one holder per document), `Fresh` that a new document's
identity has one holder, `Carried` what a handler may rely on between its read and its write. The
slots are counted as in `CallDelivery_proofs`. `PlainStep` covers the steps that touch neither
documents nor transactions; `TransactStep`, `DecideStep` and `WriteStep` are the others.
`WritesAreAuthorised` is the action property, from `WritesStep`. `ImplementsStore` is the refinement of
`DocumentStore`: the step that commits is one `Store`, `Submit`, `Review` or `Archive`, because
`Locks` keeps true under the lock what the handler compared, and `Key` that its object is there and
stays; every other step leaves rows and kept files alone.

`RealtimeSessions_proofs` assumes `SessionsAssumption` (some user, some server). `IInv` follows one
socket: connected, it is in the room revocations address (`Reachable`), so a revocation
that arrives on its server disconnects it at any point of its handshake; what it read of the account
(`ReadIsCurrent`), and after admission its role (`AdmittedIsCurrent`), is still true or a
revocation is under way; and the map holds exactly the open sockets (`MapIsOpen`). An account
change makes a revocation due at once (`ChangeStep`), and the only steps that end one either
disconnect the sockets it is about or record that it was missed.

The type invariants of all these modules are proved as part of their inductive invariants and
are not run again.

**Only model-checked:** liveness (`EveryRequestAnswered`, `EveryIntentSettles`,
`EveryRecordQueued`, `EventuallySent`, `AccessEnds`), which is outside the proof system's
reach. Every other property of a passing run is stated by a theorem. The three violations are
counterexamples and have nothing to prove.

**Taken as given:** that PostgreSQL's Serializable level gives what `Serializable` states;
that handlers inside a Serializable transaction are therefore single steps in `LeadLifecycle`
and `Enrolment`; that row locks are held to the end of a transaction (`StudentDocuments`).

## 5. Not modelled, and why

- *Reading and rendering.* Lists, filters, pagination, dashboards, analytics, PDF files,
  message text, spreadsheet parsing, guards and serialisation: no state of their own.
- *CRUD of single rows.* Programs, requirements, events, promocodes, the catalogue,
  questionnaires, roadmaps, roles, comments and notes: one statement per request and no
  row that has to agree with another.
- *Recurring meetings of the staff* are created in a loop without a transaction; nothing
  reads a series as a whole, so no relation between its rows can be stated.
- *Import jobs.* The status of a job is written by its one queue job and only shown; the
  programs are upserted by a unique key.
- *Contract emails.* The delivery reads the row, sends, and records `SENT` by id. Its comment
  promises at-least-once delivery, which is `EveryRecordQueued` plus BullMQ's retries.
- *Lead ingestion.* Racing duplicates are decided by a unique index; the loser answers with
  the winner's lead. It appears as the initial state of `LeadLifecycle`.
- *The weekly schedule* is replaced in one transaction and bounds which slots a request may ask
  for; `BookingTx` leaves the slot open and so covers every schedule.
- *Slots used against slots bought.* No line of the code compares them or gives a cancelled slot
  back, so there is no property of the code to state.
- *Online signing* is switched off at the routes; its results exist as initial states of
  `Enrolment`.
- *Operators' scripts, deployment, backup, seeds* run outside the program.

What is left to do: the weekly schedule with the slots it offers.
