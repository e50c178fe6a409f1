--------------------------- MODULE StudentDocuments ---------------------------
(***************************************************************************)
(* The private documents of one student: rows in PostgreSQL, objects in    *)
(* the private bucket, and the durable journal of storage intents that is  *)
(* all a later reader has when the two do not end together.  The student   *)
(* uploads, replaces and submits; the assigned expert and administrators   *)
(* upload, replace, rename, archive and review, while the expert is        *)
(* reassigned, users are blocked, uploads and commits get lost or arrive   *)
(* late, and the process dies.                                             *)
(*                                                                         *)
(* A key is drawn once per upload, so the request names its key, its       *)
(* intent and its object.  What two transactions may not interleave is     *)
(* what they lock: lockMutation holds the actor, the role and the portrait *)
(* FOR SHARE, an UPDATE holds its row, both until the transaction ends.    *)
(***************************************************************************)
EXTENDS Naturals, FiniteSets

CONSTANTS
  Docs,        \* identities of Document rows
  Requests,    \* HTTP requests; an upload's request also names its storage key
  Experts,     \* users with an active consultant profile
  Student,     \* portrait.userId
  Admin,
  Limit,       \* DOCUMENT_MAX_CONCURRENT_UPLOADS
  MaxCrashes,  \* bound: how often the process dies
  None

Actors == Experts \cup {Student, Admin}

ASSUME DocumentsAssumption ==
  /\ Limit \in Nat \ {0} /\ MaxCrashes \in Nat
  /\ IsFiniteSet(Requests) /\ Docs \cap Requests = {}
  /\ Student # Admin /\ {Student, Admin} \cap Experts = {}
  /\ None \notin Actors \cup Docs \cup Requests

VARIABLES
  docs,      \* Document rows; stamp = updatedAt, by = the request its audit entry names
  objects,   \* keys stored in the bucket
  intents,   \* AuditLog rows of action DOCUMENT_STORAGE_PENDING: details.state per key
  assigned,  \* portrait.consultantProfileId
  blocked,   \* users with deletedAt set
  req,       \* the handlers: the statement each executes next and what it has read
  open,      \* requests whose transaction is at COMMIT, its outcome not decided
  late,      \* keys whose PutObject was given up and may still arrive
  active,    \* activeUploads
  submitted, \* history: the key the student last submitted per document
  crashes

vars == <<docs, objects, intents, assigned, blocked, req, open, late, active, submitted, crashes>>
access == <<assigned, blocked>>
store == <<objects, intents, late>>

Statuses == {"DRAFT", "REVIEW", "APPROVED", "NEEDS_REVISION"}
Absent == [key |-> None, status |-> "ABSENT", version |-> 0, stamp |-> 0, deleted |-> FALSE,
           by |-> None]
Unsent == [op |-> "NONE", actor |-> None, doc |-> None, pc |-> "IDLE", row |-> Absent,
           expert |-> None, proven |-> FALSE, closed |-> FALSE]

\* Every mutating route, by the rights it asks for.
Uploads == {"UPLOAD", "REPLACE", "STAFF_UPLOAD", "STAFF_REPLACE"}
Replacements == {"REPLACE", "STAFF_REPLACE"}
StaffOps == {"STAFF_UPLOAD", "STAFF_REPLACE", "RENAME", "ARCHIVE"}
Ops == Uploads \cup StaffOps \cup {"SUBMIT", "REVIEW"}
Self == {"UPLOAD", "REPLACE", "SUBMIT"}

\* An earlier upload's key is named after its document.
Keys == Requests \cup Docs
Earlier(d, st) == [Absent EXCEPT !.key = d, !.status = st, !.version = 1, !.stamp = 1]

\* Some documents were stored before.
Init ==
  /\ docs \in {f \in [Docs -> {Absent} \cup {Earlier(d, st) : d \in Docs, st \in Statuses}] :
                 \A d \in Docs : f[d].key \in {None, d}}
  /\ objects = {d \in Docs : docs[d] # Absent}
  /\ late = {} /\ open = {} /\ blocked = {}
  /\ intents = [k \in Keys |-> IF k \in objects THEN "COMMITTED" ELSE "NONE"]
  /\ assigned \in Experts \cup {None}
  /\ req = [r \in Requests |-> Unsent]
  /\ active = 0 /\ crashes = 0
  /\ submitted = [d \in Docs |-> IF docs[d].status \in {"ABSENT", "DRAFT"} THEN None ELSE d]

-----------------------------------------------------------------------------
(* Access                                                                  *)

\* portraitWhere: own portrait for the student's routes, any portrait for administrators, the
\* portraits an active expert is assigned to otherwise.
MayAccess(actor, op) ==
  /\ actor \notin blocked
  /\ IF op \in Self THEN actor = Student ELSE actor = Admin \/ actor = assigned

Live(d) == docs[d].status # "ABSENT" /\ ~docs[d].deleted

\* Another transaction holds the row until its COMMIT is decided.
RowFree(d, r) == \A o \in open \ {r} : req[o].doc # d

Reassign(e) ==
  /\ open = {}                       \* FOR SHARE on the portrait
  /\ e # assigned
  /\ assigned' = e
  /\ UNCHANGED <<docs, blocked, req, open, active, submitted, crashes, store>>

Block(u) ==
  /\ \A o \in open : req[o].actor # u  \* FOR SHARE on the user
  /\ u \notin blocked
  /\ blocked' = blocked \cup {u}
  /\ UNCHANGED <<docs, assigned, req, open, active, submitted, crashes, store>>

-----------------------------------------------------------------------------
(* Requests and upload slots                                               *)

Holds(r) == req[r].op \in Uploads /\ req[r].pc \notin {"IDLE", "DEAD", "REFUSED"}
                /\ ~(req[r].pc = "ANSWERED" /\ req[r].closed)

\* The client sends what it saw; a staff route sends it as the expected version and time.
Send(r, op, actor, d) ==
  /\ req[r] = Unsent
  /\ op \in Self <=> actor = Student  \* the routes' role guards
  /\ IF op \in {"UPLOAD", "STAFF_UPLOAD"}
     THEN docs[d] = Absent /\ \A o \in Requests : req[o].doc # d
     ELSE Live(d)
  /\ req' = [req EXCEPT ![r] = [@ EXCEPT
       !.op = op, !.actor = actor, !.doc = d, !.row = docs[d],
       !.pc = IF op \notin Uploads THEN "READ"
              ELSE IF active < Limit THEN "READ" ELSE "REFUSED"]]
  /\ active' = IF op \in Uploads /\ active < Limit THEN active + 1 ELSE active
  /\ UNCHANGED <<docs, open, submitted, crashes, access, store>>

Goto(r, pc) == req' = [req EXCEPT ![r].pc = pc] /\ UNCHANGED active

\* bug: a client that disconnected first never gives its slot back
AnswerOnly(r) == Goto(r, "ANSWERED")

\* The operation settles; its slot is given back if the response is finished or closed already.
Answer(r) ==
  /\ req' = [req EXCEPT ![r].pc = "ANSWERED"]
  /\ active' = IF req[r].op \in Uploads /\ req[r].closed THEN active - 1 ELSE active

\* The response finishes, or the client disconnects at any moment.
Close(r) ==
  /\ Holds(r) /\ ~req[r].closed
  /\ req' = [req EXCEPT ![r].closed = TRUE]
  /\ active' = IF req[r].pc = "ANSWERED" THEN active - 1 ELSE active
  /\ UNCHANGED <<docs, open, submitted, crashes, access, store>>

-----------------------------------------------------------------------------
(* Storing a file: persistPrivateFile                                      *)

\* A staff route compares the row with what the client saw; then the row, the assignment and
\* the actor are kept to be compared in the transaction.
Read(r) ==
  /\ req[r].pc = "READ" /\ req[r].op \in Uploads
  /\ LET d == req[r].doc
         found == \/ req[r].op \notin Replacements
                  \/ Live(d) /\ (req[r].op = "STAFF_REPLACE" => docs[d].stamp = req[r].row.stamp)
     IN IF MayAccess(req[r].actor, req[r].op) /\ found
        THEN /\ req' = [req EXCEPT ![r] = [@ EXCEPT !.pc = "BEGIN", !.row = docs[d],
                                                    !.expert = assigned]]
             /\ UNCHANGED active
        ELSE Answer(r)
  /\ UNCHANGED <<docs, open, submitted, crashes, access, store>>

\* beforeUpload: the intent is durable before the object can exist.
Begin(r) ==
  /\ req[r].pc = "BEGIN"
  /\ \/ intents' = [intents EXCEPT ![r] = "PENDING"] /\ Goto(r, "PUT")
     \/ UNCHANGED intents /\ Answer(r)
  /\ UNCHANGED <<docs, open, submitted, crashes, access, objects, late>>

\* bug: goes on to the row although the upload failed
PutOrGoOn(r) ==
  /\ req[r].pc = "PUT"
  /\ objects' = objects \cup {r} \/ UNCHANGED objects
  /\ Goto(r, "TX")
  /\ UNCHANGED <<docs, open, submitted, crashes, access, intents, late>>

\* PutObject: stored; or given up (refused, aborted after thirty seconds), when it may still
\* arrive.  Then no rollback is proven and nothing is compensated.
Put(r) ==
  /\ req[r].pc = "PUT"
  /\ \/ objects' = objects \cup {r} /\ Goto(r, "TX") /\ UNCHANGED late
     \/ UNCHANGED objects /\ late' = late \cup {r}
        /\ req' = [req EXCEPT ![r].pc = "COMPENSATE"] /\ UNCHANGED active
  /\ UNCHANGED <<docs, open, submitted, crashes, access, intents>>

ArrivesLate(r) ==
  /\ r \in late
  /\ objects' = objects \cup {r} /\ late' = late \ {r}
  /\ UNCHANGED <<docs, req, open, active, submitted, crashes, access, intents>>

\* bug: trusts the access check that preceded the upload
RowUnchanged(r) == docs[req[r].doc] = req[r].row

\* bug: checks the access again, not the row
AccessUnchanged(r) ==
  /\ MayAccess(req[r].actor, req[r].op)
  /\ assigned = req[r].expert

\* The callback of the transaction: access is checked again under its locks, nothing it relied on
\* may have changed, and the row must be the one that was read.
Unchanged(r) ==
  /\ MayAccess(req[r].actor, req[r].op)
  /\ assigned = req[r].expert
  /\ docs[req[r].doc] = req[r].row

Transact(r) ==
  /\ req[r].pc = "TX"
  /\ RowFree(req[r].doc, r)
  /\ \/ /\ Unchanged(r)
        /\ open' = open \cup {r} /\ Goto(r, "COMMIT")
     \/ /\ req' = [req EXCEPT ![r].pc = "COMPENSATE", ![r].proven = TRUE]  \* the callback throws
        /\ UNCHANGED <<open, active>>
  /\ UNCHANGED <<docs, submitted, crashes, access, store>>

\* createPrivate, updatePrivateVersion: the object of the old version is kept.
Stored(r) ==
  LET old == req[r].row IN
  [key |-> r, status |-> "DRAFT", version |-> old.version + 1, stamp |-> old.stamp + 1,
   deleted |-> FALSE, by |-> r]

\* PostgreSQL decides the COMMIT: the row, the audit entry and the intent together, or nothing.
Decide(r) ==
  /\ r \in open
  /\ open' = open \ {r}
  /\ \/ /\ docs' = [docs EXCEPT ![req[r].doc] = Stored(r)]
        /\ intents' = [intents EXCEPT ![r] = "COMMITTED"]
        /\ IF req[r].pc = "COMMIT" THEN Answer(r) ELSE UNCHANGED <<req, active>>
     \/ /\ UNCHANGED <<docs, intents>>
        /\ IF req[r].pc = "COMMIT" THEN Goto(r, "COMPENSATE") ELSE UNCHANGED <<req, active>>
  /\ UNCHANGED <<submitted, crashes, access, objects, late>>

\* The connection is lost while COMMIT is under way: its outcome is unknown to the process.
LoseCommit(r) ==
  /\ req[r].pc = "COMMIT"
  /\ Goto(r, "COMPENSATE")
  /\ UNCHANGED <<docs, open, submitted, crashes, access, store>>

-----------------------------------------------------------------------------
(* Compensation: DocumentStorageRecoveryService                            *)

Referenced(k) == \E d \in Docs : docs[d].key = k

\* bug: takes a missing reference for a proof
CompensateUnproven(r) ==
  /\ req[r].pc = "COMPENSATE"
  /\ IF intents[r] \in {"PENDING", "ROLLED_BACK"} /\ ~Referenced(r)
     THEN Goto(r, "ROLL_BACK") ELSE Answer(r)
  /\ UNCHANGED <<docs, open, submitted, crashes, access, store>>

Compensate(r) ==
  /\ req[r].pc = "COMPENSATE"
  /\ IF req[r].proven /\ intents[r] \in {"PENDING", "ROLLED_BACK"} /\ ~Referenced(r)
     THEN Goto(r, "ROLL_BACK") ELSE Answer(r)
  /\ UNCHANGED <<docs, open, submitted, crashes, access, store>>

\* Each statement may fail, which leaves the durable record as it is.
RollBack(r) ==
  /\ req[r].pc = "ROLL_BACK"
  /\ r \notin open                   \* committed() holds the intent's row
  /\ \/ /\ intents[r] \in {"PENDING", "ROLLED_BACK"}
        /\ intents' = [intents EXCEPT ![r] = "ROLLED_BACK"] /\ Goto(r, "DELETE")
     \/ UNCHANGED intents /\ Answer(r)
  /\ UNCHANGED <<docs, open, submitted, crashes, access, objects, late>>

Delete(r) ==
  /\ req[r].pc = "DELETE"
  /\ \/ objects' = objects \ {r} /\ Goto(r, "CLEAN")
     \/ objects' \in {objects, objects \ {r}} /\ Answer(r)
  /\ UNCHANGED <<docs, open, submitted, crashes, access, intents, late>>

Clean(r) ==
  /\ req[r].pc = "CLEAN"
  /\ \/ intents' = [intents EXCEPT ![r] = "CLEANED"]
     \/ UNCHANGED intents
  /\ Answer(r)
  /\ UNCHANGED <<docs, open, submitted, crashes, access, objects, late>>

-----------------------------------------------------------------------------
(* Review and metadata                                                     *)

Write(r, d, row) ==
  /\ docs' = [docs EXCEPT ![d] = [row EXCEPT !.stamp = @ + 1, !.by = r]]
  /\ Answer(r)

\* submitForReview and review read the row first ...
ReadRow(r) ==
  /\ req[r].pc = "READ" /\ req[r].op \in {"SUBMIT", "REVIEW"}
  /\ LET d == req[r].doc IN
     IF /\ MayAccess(req[r].actor, req[r].op)
        /\ Live(d)
        /\ docs[d].status = IF req[r].op = "SUBMIT" THEN "DRAFT" ELSE "REVIEW"
     THEN /\ req' = [req EXCEPT ![r] = [@ EXCEPT !.pc = "WRITE", !.row = docs[d]]]
          /\ UNCHANGED active
     ELSE Answer(r)
  /\ UNCHANGED <<docs, open, submitted, crashes, access, store>>

\* bug: updates by id alone
SubmitWhateverIsThere(r) ==
  /\ req[r].pc = "WRITE" /\ req[r].op = "SUBMIT"
  /\ LET d == req[r].doc IN
     /\ RowFree(d, r)
     /\ Write(r, d, [docs[d] EXCEPT !.status = "REVIEW"])
     /\ submitted' = [submitted EXCEPT ![d] = req[r].row.key]
  /\ UNCHANGED <<open, crashes, access, store>>

\* ... and write it only if it is still that row; 409 otherwise.  Submitting has no transaction,
\* so access is not looked at again.
Submit(r) ==
  /\ req[r].pc = "WRITE" /\ req[r].op = "SUBMIT"
  /\ LET d == req[r].doc IN
     /\ RowFree(d, r)
     /\ IF docs[d] = req[r].row
        THEN /\ Write(r, d, [docs[d] EXCEPT !.status = "REVIEW"])
             /\ submitted' = [submitted EXCEPT ![d] = docs[d].key]
        ELSE UNCHANGED <<docs, submitted>> /\ Answer(r)
  /\ UNCHANGED <<open, crashes, access, store>>

\* Serializable: what was read before the locks were granted must not have changed since.
Review(r, verdict) ==
  /\ req[r].pc = "WRITE" /\ req[r].op = "REVIEW"
  /\ LET d == req[r].doc IN
     /\ RowFree(d, r)
     /\ IF docs[d] = req[r].row /\ MayAccess(req[r].actor, "REVIEW")
        THEN Write(r, d, [docs[d] EXCEPT !.status = verdict])
        ELSE UNCHANGED docs /\ Answer(r)
  /\ UNCHANGED <<open, submitted, crashes, access, store>>

\* staffMetadataMutation: one transaction, conditional on the version and time the client saw.
\* Archiving what is archived already is answered without a write.
StaffMutate(r) ==
  /\ req[r].pc = "READ" /\ req[r].op \in {"RENAME", "ARCHIVE"}
  /\ LET d == req[r].doc IN
     /\ RowFree(d, r)
     /\ IF /\ MayAccess(req[r].actor, req[r].op)
           /\ Live(d) /\ docs[d].stamp = req[r].row.stamp
        THEN Write(r, d, [docs[d] EXCEPT !.deleted = req[r].op = "ARCHIVE"])
        ELSE UNCHANGED docs /\ Answer(r)
  /\ UNCHANGED <<open, submitted, crashes, access, store>>

\* The process dies: handlers and slots are gone, the database decides what was at COMMIT, and an
\* upload that was under way may still arrive.
Crash ==
  /\ crashes < MaxCrashes
  /\ crashes' = crashes + 1
  /\ late' = late \cup {r \in Requests : req[r].pc = "PUT"}
  /\ req' = [r \in Requests |-> IF req[r].pc = "IDLE" THEN req[r]
                                ELSE [req[r] EXCEPT !.pc = "DEAD"]]
  /\ active' = 0
  /\ UNCHANGED <<docs, open, submitted, access, objects, intents>>

-----------------------------------------------------------------------------
Persist(r) ==
  \/ Read(r) \/ Begin(r) \/ Put(r) \/ Transact(r) \/ Decide(r) \/ LoseCommit(r)
  \/ Compensate(r) \/ RollBack(r) \/ Delete(r) \/ Clean(r) \/ ArrivesLate(r)

Next ==
  \/ \E e \in Experts \cup {None} : Reassign(e)
  \/ \E u \in Actors : Block(u)
  \/ \E r \in Requests :
       \/ \E op \in Ops, u \in Actors, d \in Docs : Send(r, op, u, d)
       \/ Persist(r) \/ Close(r) \/ ReadRow(r) \/ Submit(r) \/ StaffMutate(r)
       \/ \E verdict \in {"APPROVED", "NEEDS_REVISION"} : Review(r, verdict)
  \/ Crash

Spec == Init /\ [][Next]_vars

-----------------------------------------------------------------------------
\* What the observation reports of an intent: classifyIntent and the backlog query, for a
\* well-formed intent of this portrait.
Category(k) ==
  LET state == intents[k] IN
  CASE Referenced(k) /\ state = "CLEANED" -> "MANUAL_REVIEW_REQUIRED"
    [] Referenced(k) /\ state = "COMMITTED" -> "COMMITTED_REFERENCED"
    [] Referenced(k) /\ state \notin {"CLEANED", "COMMITTED"} -> "REFERENCED_OBJECT"
    [] ~Referenced(k) /\ state = "COMMITTED" -> "COMMITTED_MISSING_REFERENCE"
    [] ~Referenced(k) /\ state = "CLEANED" -> "CLEANED_TERMINAL"
    [] ~Referenced(k) /\ state = "ROLLED_BACK" -> "ROLLED_BACK_UNRESOLVED"
    [] OTHER -> "UNRESOLVED_PENDING"

Unresolved(k) ==
  \/ intents[k] \in {"PENDING", "ROLLED_BACK"}
  \/ intents[k] = "COMMITTED" /\ ~Referenced(k)
  \/ intents[k] = "CLEANED" /\ Referenced(k)

TypeOK ==
  /\ docs \in [Docs -> [key : Keys \cup {None}, status : Statuses \cup {"ABSENT"},
                        version : Nat, stamp : Nat, deleted : BOOLEAN,
                        by : Requests \cup {None}]]
  /\ objects \subseteq Keys /\ late \subseteq Requests /\ open \subseteq Requests
  /\ intents \in [Keys -> {"NONE", "PENDING", "ROLLED_BACK", "COMMITTED", "CLEANED"}]
  /\ assigned \in Experts \cup {None} /\ blocked \subseteq Actors
  /\ \A r \in Requests :
       /\ req[r].op \in Ops \cup {"NONE"} /\ req[r].actor \in Actors \cup {None}
       /\ req[r].doc \in Docs \cup {None} /\ req[r].expert \in Experts \cup {None}
       /\ req[r].proven \in BOOLEAN /\ req[r].closed \in BOOLEAN
  /\ submitted \in [Docs -> Keys \cup {None}]
  /\ active \in 0..Limit /\ crashes \in 0..MaxCrashes

\* However uploads, commits, compensations and crashes interleave, no version of a document, current or
\* replaced, loses its file ...
VersionsStored ==
  /\ \A d \in Docs : docs[d].status # "ABSENT" => docs[d].key \in objects
  /\ \A k \in Keys : intents[k] = "COMMITTED" => k \in objects

\* ... and no file without a row escapes the backlog the operators watch; in particular
\* nothing is reported as cleaned up that is in the bucket.
OrphansObserved ==
  \A k \in objects :
    \/ Referenced(k)
    \/ Unresolved(k) /\ Category(k) \notin {"CLEANED_TERMINAL", "COMMITTED_REFERENCED"}

\* What is in review, approved or sent back is what the student submitted: a replacement never
\* takes over the review of the version it replaced.
ReviewedIsSubmitted ==
  \A d \in Docs :
    docs[d].status \in {"REVIEW", "APPROVED", "NEEDS_REVISION"} => docs[d].key = submitted[d]

\* A document changes only at the hands of someone who may access the student at that moment,
\* however long the upload took (submitting, which has no transaction, is the exception), and
\* an archived one not at all.
WritesAuthorised ==
  [][\A d \in Docs : docs'[d] # docs[d] =>
       LET r == docs'[d].by IN
       /\ ~docs[d].deleted
       /\ req[r].op # "SUBMIT" => MayAccess(req[r].actor, req[r].op)]_vars

\* Requests, transactions and the bucket together are the store of DocumentStore: every upload,
\* commit, compensation and crash is one step of it or none.  A key counts as kept once its
\* intent is committed.
Documents == INSTANCE DocumentStore WITH
  rows <- [d \in Docs |-> [key |-> docs[d].key, status |-> docs[d].status,
                           version |-> docs[d].version, deleted |-> docs[d].deleted]],
  files <- {k \in objects : intents[k] = "COMMITTED"}
StoredWhole == Documents!Spec

\* A slot is held from admission until the file is dealt with and the response is over, neither
\* shorter nor longer, so that never more than Limit files are in memory and none stays taken.
SlotsHeld == active = Cardinality({r \in Requests : Holds(r)}) /\ active <= Limit

=============================================================================
