----------------------- MODULE StudentDocuments_proofs -----------------------
(***************************************************************************)
(* Proofs about StudentDocuments: no version of a document loses its file,  *)
(* no orphan escapes the backlog, reviews stay with the version they are    *)
(* of, writes are authorised, and the upload slots add up.                  *)
(*                                                                         *)
(* The argument follows one key.  Its intent is written before the object   *)
(* can exist, only a transaction whose rollback is proven reaches the       *)
(* compensation, and by then its upload is over: so an intent that is       *)
(* cleaned has no object and gets none, and one that is committed keeps it. *)
(***************************************************************************)
EXTENDS StudentDocuments, FiniteSetTheorems, TLAPS

\* The statements of an upload after its first read; those in which its transaction is over.
Storing == {"BEGIN", "PUT", "TX", "COMMIT", "COMPENSATE", "ROLL_BACK", "DELETE", "CLEAN"}
RollingBack == {"ROLL_BACK", "DELETE", "CLEAN"}
PCs == Storing \cup {"IDLE", "READ", "REFUSED", "WRITE", "ANSWERED", "DEAD"}

DocRows == [key : Keys \cup {None}, status : Statuses \cup {"ABSENT"}, version : Nat,
            stamp : Nat, deleted : BOOLEAN, by : Requests \cup {None}]
Handlers == [op : Ops \cup {"NONE"}, actor : Actors \cup {None}, doc : Docs \cup {None},
             pc : PCs, row : DocRows, expert : Experts \cup {None}, proven : BOOLEAN,
             closed : BOOLEAN]

\* A handler at work has a route, an actor and a document, and only uploads store.
Sensible(r) ==
  /\ req[r].pc = "IDLE" => req[r].op = "NONE" /\ req[r].doc = None
  /\ req[r].pc # "IDLE" => req[r].op \in Ops /\ req[r].doc \in Docs /\ req[r].actor \in Actors
  /\ req[r].pc \in Storing => req[r].op \in Uploads
  /\ req[r].pc = "WRITE" => req[r].op \in {"SUBMIT", "REVIEW"}

Typed ==
  /\ docs \in [Docs -> DocRows]
  /\ req \in [Requests -> Handlers]
  /\ objects \subseteq Keys /\ late \subseteq Requests /\ open \subseteq Requests
  /\ intents \in [Keys -> {"NONE", "PENDING", "ROLLED_BACK", "COMMITTED", "CLEANED"}]
  /\ assigned \in Experts \cup {None} /\ blocked \subseteq Actors
  /\ submitted \in [Docs -> Keys \cup {None}]
  /\ active \in Nat /\ crashes \in 0..MaxCrashes
  /\ \A r \in Requests : Sensible(r)

\* The life of one key: handler, transaction, bucket and journal.
Key(r) ==
  /\ req[r].pc \in {"IDLE", "READ", "REFUSED", "BEGIN", "WRITE"} => intents[r] = "NONE"
  /\ intents[r] = "NONE" => /\ r \notin objects \cup late \cup open
                            /\ req[r].pc \in Storing => req[r].pc = "BEGIN"
                            /\ ~ req[r].proven
  /\ req[r].pc = "PUT" => /\ r \notin late \cup open /\ ~ req[r].proven
                          /\ intents[r] = "PENDING"
  /\ req[r].pc = "TX" => /\ r \in objects /\ r \notin late \cup open /\ ~ req[r].proven
                         /\ intents[r] = "PENDING"
  /\ r \in open => /\ r \in objects /\ r \notin late /\ ~ req[r].proven
                   /\ intents[r] = "PENDING"
                   /\ req[r].pc \in {"COMMIT", "COMPENSATE", "ANSWERED", "DEAD"}
                   /\ req[r].op \in Uploads
  /\ req[r].pc = "COMMIT" => r \in open
  /\ req[r].proven => r \notin late
  /\ req[r].pc \in RollingBack => req[r].proven
  /\ req[r].pc \in {"DELETE", "CLEAN"} => intents[r] = "ROLLED_BACK"
  /\ req[r].pc = "CLEAN" \/ intents[r] = "CLEANED" => r \notin objects \cup late

\* The journal as a whole: what is committed is stored, what is referenced is committed, and
\* earlier uploads are left alone.
Journal ==
  /\ \A r \in Requests : Key(r)
  /\ \A k \in Keys : intents[k] = "COMMITTED" => k \in objects
  /\ \A d \in Docs : intents[d] \in {"NONE", "COMMITTED"} /\ (intents[d] = "NONE" => d \notin objects)
  /\ \A d \in Docs : /\ docs[d].key \in Keys => intents[docs[d].key] = "COMMITTED"
                     /\ docs[d].status # "ABSENT" => docs[d].key \in Keys

\* What a transaction at COMMIT relies on is protected by its locks.
Locks ==
  /\ \A r \in open : /\ MayAccess(req[r].actor, req[r].op)
                     /\ docs[req[r].doc] = req[r].row
                     /\ ~ req[r].row.deleted
  /\ \A r \in open, o \in open : req[r].doc = req[o].doc => r = o

\* Until a new document is created nobody else has its identity.
NewDocument(r) ==
  req[r].op \in {"UPLOAD", "STAFF_UPLOAD"} /\ req[r].pc = "READ" => docs[req[r].doc] = Absent

Fresh ==
  /\ \A r \in Requests : NewDocument(r)
  /\ \A r \in Requests, o \in Requests :
       /\ req[r].doc \in Docs /\ req[r].doc = req[o].doc
       /\ docs[req[r].doc].status = "ABSENT"
       => r = o

\* The row a handler carries from its read into its write.
Carried(r) ==
  /\ req[r].pc \in Storing => ~ req[r].row.deleted
  /\ req[r].pc = "WRITE" => ~ req[r].row.deleted /\ req[r].row.status # "ABSENT"
  /\ req[r].pc = "WRITE" /\ req[r].op = "REVIEW" => req[r].row.status = "REVIEW"
  /\ req[r].pc = "WRITE" /\ req[r].op = "SUBMIT" => req[r].row.status = "DRAFT"

Reviews == ReviewedIsSubmitted /\ \A r \in Requests : Carried(r)

IInv == Typed /\ Journal /\ Locks /\ Fresh /\ Reviews /\ SlotsHeld

-----------------------------------------------------------------------------
LEMMA IInvImplies ==
  IInv => TypeOK /\ VersionsStored /\ OrphansObserved /\ ReviewedIsSubmitted /\ SlotsHeld
<1> SUFFICES ASSUME IInv
             PROVE  TypeOK /\ VersionsStored /\ OrphansObserved /\ ReviewedIsSubmitted /\ SlotsHeld
  OBVIOUS
<1>1. active \in 0..Limit
  BY DocumentsAssumption DEF IInv, Typed, SlotsHeld
<1>2. \A r \in Requests :
       /\ req[r].op \in Ops \cup {"NONE"} /\ req[r].actor \in Actors \cup {None}
       /\ req[r].doc \in Docs \cup {None} /\ req[r].expert \in Experts \cup {None}
       /\ req[r].proven \in BOOLEAN /\ req[r].closed \in BOOLEAN
  <2> SUFFICES ASSUME NEW r \in Requests
               PROVE  /\ req[r].op \in Ops \cup {"NONE"} /\ req[r].actor \in Actors \cup {None}
                      /\ req[r].doc \in Docs \cup {None} /\ req[r].expert \in Experts \cup {None}
                      /\ req[r].proven \in BOOLEAN /\ req[r].closed \in BOOLEAN
    OBVIOUS
  <2>1. req[r] \in Handlers
    BY DEF IInv, Typed
  <2> QED
    BY <2>1 DEF Handlers
<1>3. TypeOK
  BY <1>1, <1>2 DEF IInv, Typed, TypeOK, DocRows
<1>4. VersionsStored
  BY DEF IInv, Journal, VersionsStored, Typed
<1>5. OrphansObserved
  <2> SUFFICES ASSUME NEW k \in objects, ~ Referenced(k)
               PROVE  /\ Unresolved(k)
                      /\ Category(k) \notin {"CLEANED_TERMINAL", "COMMITTED_REFERENCED"}
    BY DEF OrphansObserved
  <2>1. k \in Keys /\ intents[k] \in {"NONE", "PENDING", "ROLLED_BACK", "COMMITTED", "CLEANED"}
    BY DEF IInv, Typed
  <2>2. intents[k] \notin {"NONE", "CLEANED"}
    BY <2>1 DEF IInv, Journal, Key, Keys
  <2> QED
    BY <2>1, <2>2 DEF Unresolved, Category
<1> QED
  BY <1>3, <1>4, <1>5 DEF IInv, Reviews

LEMMA InitInv == Init => IInv
<1> SUFFICES ASSUME Init PROVE IInv
  OBVIOUS
<1>1. Absent \in DocRows /\ Absent.key = None /\ Absent.status = "ABSENT" /\ ~ Absent.deleted
  BY DEF Absent, DocRows
<1>2. ASSUME NEW d \in Docs
      PROVE  /\ docs[d] \in DocRows
             /\ docs[d] # Absent => docs[d].key = d /\ docs[d].status \in Statuses
  <2>1. docs[d] \in {Absent} \cup {Earlier(c, st) : c \in Docs, st \in Statuses}
    BY DEF Init
  <2>2. docs[d].key \in {None, d}
    BY DEF Init
  <2>3. CASE docs[d] = Absent
    BY <1>1, <2>3
  <2>4. ASSUME NEW c \in Docs, NEW st \in Statuses, docs[d] = Earlier(c, st)
        PROVE  docs[d] \in DocRows /\ docs[d].key = d /\ docs[d].status \in Statuses
    <3>1. docs[d] = [key |-> c, status |-> st, version |-> 1, stamp |-> 1, deleted |-> FALSE,
                     by |-> None]
      BY <2>4 DEF Earlier, Absent
    <3>2. c = d
      BY <2>2, <3>1, DocumentsAssumption
    <3> QED
      BY <3>1, <3>2 DEF DocRows, Keys
  <2> QED
    BY <2>1, <2>3, <2>4
<1>3. \A r \in Requests : req[r] = Unsent
  BY DEF Init
<1>4. /\ Unsent \in Handlers /\ Unsent.pc = "IDLE" /\ Unsent.op = "NONE" /\ Unsent.doc = None
      /\ ~ Unsent.proven
  BY <1>1 DEF Unsent, Handlers, PCs
<1>5. Typed
  <2>1. docs \in [Docs -> DocRows]
    <3>1. docs \in [Docs -> {Absent} \cup {Earlier(c, st) : c \in Docs, st \in Statuses}]
      BY DEF Init
    <3> QED
      BY <1>2, <3>1
  <2>2. req \in [Requests -> Handlers]
    BY <1>4 DEF Init
  <2>3. intents \in [Keys -> {"NONE", "PENDING", "ROLLED_BACK", "COMMITTED", "CLEANED"}]
    BY DEF Init
  <2>4. submitted \in [Docs -> Keys \cup {None}]
    BY DEF Init, Keys
  <2>5. \A r \in Requests : Sensible(r)
    BY <1>3, <1>4 DEF Sensible, Storing
  <2> QED
    BY <2>1, <2>2, <2>3, <2>4, <2>5, DocumentsAssumption DEF Init, Typed, Keys
<1>6. Journal
  <2>1. ASSUME NEW r \in Requests PROVE Key(r)
    <3>1. r \notin objects /\ intents[r] = "NONE"
      BY DocumentsAssumption DEF Init, Keys
    <3> QED
      BY <1>3, <1>4, <3>1 DEF Init, Key, Storing, RollingBack
  <2>2. \A k \in Keys : intents[k] = IF k \in objects THEN "COMMITTED" ELSE "NONE"
    BY DEF Init
  <2>3. \A d \in Docs : d \in Keys /\ (d \in objects <=> docs[d] # Absent)
    BY DEF Init, Keys
  <2>4. ASSUME NEW d \in Docs
        PROVE  /\ docs[d].key \in Keys => intents[docs[d].key] = "COMMITTED"
               /\ docs[d].status # "ABSENT" => docs[d].key \in Keys
    BY <1>1, <1>2, <2>2, <2>3, DocumentsAssumption DEF Keys
  <2> QED
    BY <2>1, <2>2, <2>3, <2>4 DEF Journal
<1>7. Locks
  BY DEF Init, Locks
<1>8. Fresh
  BY <1>3, <1>4, DocumentsAssumption DEF Fresh, NewDocument
<1>9. Reviews
  BY <1>1, <1>2, <1>3, <1>4 DEF Init, Reviews, ReviewedIsSubmitted, Carried, Storing, Statuses
<1>10. SlotsHeld
  <2>1. {r \in Requests : Holds(r)} = {}
    BY <1>3, <1>4 DEF Holds
  <2>2. Cardinality({r \in Requests : Holds(r)}) = 0
    BY <2>1, FS_EmptySet
  <2> QED
    BY <2>2, DocumentsAssumption DEF Init, SlotsHeld
<1> QED
  BY <1>5, <1>6, <1>7, <1>8, <1>9, <1>10 DEF IInv

-----------------------------------------------------------------------------
(* What a handler's step does to the handlers                               *)

\* Nobody else's handler is touched, and r keeps its route and its document.
Alone(r) ==
  /\ req' \in [Requests -> Handlers]
  /\ \A x \in Requests \ {r} : req'[x] = req[x]
  /\ req'[r].op = req[r].op /\ req'[r].actor = req[r].actor /\ req'[r].doc = req[r].doc

\* Only the statement r executes next changes.
Moved(r, to) ==
  /\ Alone(r)
  /\ req'[r].pc = to
  /\ req'[r].row = req[r].row /\ req'[r].expert = req[r].expert
  /\ req'[r].proven = req[r].proven /\ req'[r].closed = req[r].closed

LEMMA PcMoves ==
  ASSUME Typed, NEW r \in Requests, NEW to \in PCs, req' = [req EXCEPT ![r].pc = to]
  PROVE  Moved(r, to)
<1> DEFINE k == [req[r] EXCEPT !.pc = to]
<1>1. req[r] \in Handlers
  BY DEF Typed
<1>2. /\ k \in Handlers /\ k.pc = to /\ k.op = req[r].op /\ k.actor = req[r].actor
      /\ k.doc = req[r].doc /\ k.row = req[r].row /\ k.expert = req[r].expert
      /\ k.proven = req[r].proven /\ k.closed = req[r].closed
  BY <1>1 DEF Handlers
<1> HIDE DEF k
<1>3. req' = [req EXCEPT ![r] = k]
  BY DEF k
<1> QED
  BY <1>2, <1>3 DEF Moved, Alone, Typed

LEMMA AnswerMoves ==
  ASSUME Typed, NEW r \in Requests, Answer(r)
  PROVE  Moved(r, "ANSWERED")
BY PcMoves DEF Answer, PCs

LEMMA GotoMoves ==
  ASSUME Typed, NEW r \in Requests, NEW to \in PCs, Goto(r, to)
  PROVE  Moved(r, to)
BY PcMoves DEF Goto

-----------------------------------------------------------------------------
(* Slots                                                                    *)

Holders == {r \in Requests : Holds(r)}

LEMMA HoldersFinite == IsFiniteSet(Holders) /\ IsFiniteSet(Holders')
BY DocumentsAssumption, FS_Subset DEF Holders

LEMMA SlotsSame ==
  ASSUME SlotsHeld, UNCHANGED active, \A x \in Requests : Holds(x)' <=> Holds(x)
  PROVE  SlotsHeld'
<1>1. Holders' = Holders
  BY DEF Holders
<1> QED
  BY <1>1 DEF SlotsHeld, Holders

LEMMA SlotsLess ==
  ASSUME Typed, SlotsHeld, NEW r \in Requests, active' = active - 1, Holds(r), ~ Holds(r)',
         \A x \in Requests \ {r} : Holds(x)' <=> Holds(x)
  PROVE  SlotsHeld' /\ active' \in Nat
<1>1. Holders' = Holders \ {r} /\ r \in Holders
  BY DEF Holders
<1>2. Cardinality(Holders') = Cardinality(Holders) - 1
  BY <1>1, HoldersFinite, FS_RemoveElement
<1>3. Cardinality(Holders') \in Nat /\ Cardinality(Holders) \in Nat
  BY HoldersFinite, FS_CardinalityType
<1> QED
  BY <1>2, <1>3, DocumentsAssumption DEF SlotsHeld, Holders, Typed

LEMMA SlotsMore ==
  ASSUME Typed, SlotsHeld, NEW r \in Requests, active < Limit, active' = active + 1,
         ~ Holds(r), Holds(r)', \A x \in Requests \ {r} : Holds(x)' <=> Holds(x)
  PROVE  SlotsHeld' /\ active' \in Nat
<1>1. Holders' = Holders \cup {r} /\ r \notin Holders
  BY DEF Holders
<1>2. Cardinality(Holders') = Cardinality(Holders) + 1
  BY <1>1, HoldersFinite, FS_AddElement
<1> QED
  BY <1>2, DocumentsAssumption DEF SlotsHeld, Holders, Typed

\* Holding a slot is a matter of one's own row.
LEMMA OthersHold ==
  ASSUME NEW x \in Requests, req'[x] = req[x]
  PROVE  Holds(x)' <=> Holds(x)
BY DEF Holds

\* A handler that goes from one statement to the next keeps its slot.
LEMMA SlotsKept ==
  ASSUME SlotsHeld, NEW r \in Requests, Alone(r), req'[r].closed = req[r].closed,
         UNCHANGED active,
         \/ {req[r].pc, req'[r].pc} \cap {"IDLE", "DEAD", "REFUSED", "ANSWERED"} = {}
         \/ req[r].op \notin Uploads
         \/ req'[r].pc = req[r].pc
  PROVE  SlotsHeld'
<1>1. ASSUME NEW x \in Requests PROVE Holds(x)' <=> Holds(x)
  <2>1. CASE x = r
    BY <2>1 DEF Alone, Holds
  <2>2. CASE x # r
    BY <2>2, OthersHold DEF Alone
  <2> QED
    BY <2>1, <2>2
<1> QED
  BY <1>1, SlotsSame

\* One that settles gives it back if the response is over.
LEMMA AnswerSlots ==
  ASSUME Typed, SlotsHeld, NEW r \in Requests, Answer(r),
         req[r].pc \notin {"IDLE", "DEAD", "REFUSED", "ANSWERED"}
  PROVE  SlotsHeld' /\ active' \in Nat
<1>1. Moved(r, "ANSWERED")
  BY AnswerMoves
<1>2. \A x \in Requests \ {r} : Holds(x)' <=> Holds(x)
  BY <1>1, OthersHold DEF Moved, Alone
<1>3. CASE req[r].op \in Uploads /\ req[r].closed
  <2>1. Holds(r) /\ ~ Holds(r)'
    BY <1>1, <1>3 DEF Moved, Alone, Holds
  <2>2. active' = active - 1
    BY <1>3 DEF Answer
  <2> QED
    BY <1>2, <2>1, <2>2, SlotsLess
<1>4. CASE ~ (req[r].op \in Uploads /\ req[r].closed)
  <2>1. Holds(r)' <=> Holds(r)
    BY <1>1, <1>4 DEF Moved, Alone, Holds
  <2>2. UNCHANGED active
    BY <1>4 DEF Answer
  <2> QED
    BY <1>2, <2>1, <2>2, SlotsSame DEF Typed
<1> QED
  BY <1>3, <1>4

-----------------------------------------------------------------------------
(* What one handler's step leaves alone                                     *)

\* A key nothing happened to.
LEMMA OtherKey ==
  ASSUME NEW x \in Requests, Key(x), req'[x] = req[x], intents'[x] = intents[x],
         x \in objects' <=> x \in objects, x \in late' <=> x \in late,
         x \in open' <=> x \in open
  PROVE  Key(x)'
BY DEF Key

\* A step about the key of r leaves the other keys alone, a commit in force, and stores what it
\* commits.
OnlyKey(r) ==
  /\ \A x \in Requests \ {r} : (x \in late' <=> x \in late) /\ (x \in open' <=> x \in open)
  /\ \A k \in Keys \ {r} : intents'[k] = intents[k] /\ (k \in objects' <=> k \in objects)
  /\ intents[r] = "COMMITTED" => intents'[r] = "COMMITTED"
  /\ intents'[r] = "COMMITTED" => r \in objects'

\* A document gets no key but the one that is committed with it.
KeysFollow(r) ==
  \A d \in Docs :
    \/ docs'[d] = docs[d]
    \/ docs[d].status # "ABSENT" /\ docs'[d].key = docs[d].key
    \/ docs'[d].key = r /\ intents'[r] = "COMMITTED"

\* The life of r itself is looked at by the caller.
LEMMA JournalStep ==
  ASSUME Typed, Journal, NEW r \in Requests, Key(r)', OnlyKey(r), KeysFollow(r),
         \A x \in Requests \ {r} : req'[x] = req[x]
  PROVE  Journal'
<1>1. r \in Keys /\ (\A d \in Docs : d \in Keys \ {r})
  BY DocumentsAssumption DEF Keys
<1>2. ASSUME NEW x \in Requests PROVE Key(x)'
  <2>1. CASE x # r
    <3>1. Key(x) /\ x \in Keys
      BY DEF Journal, Keys
    <3> QED
      BY <2>1, <3>1, OtherKey DEF OnlyKey
  <2> QED
    BY <2>1
<1>3. \A k \in Keys : intents[k] = "COMMITTED" => intents'[k] = "COMMITTED"
  BY DEF OnlyKey
<1>4. \A k \in Keys : intents'[k] = "COMMITTED" => k \in objects'
  BY DEF Journal, OnlyKey
<1>5. \A d \in Docs : /\ intents'[d] \in {"NONE", "COMMITTED"}
                      /\ intents'[d] = "NONE" => d \notin objects'
  BY <1>1 DEF Journal, OnlyKey
<1>6. ASSUME NEW d \in Docs
      PROVE  /\ docs'[d].key \in Keys => intents'[docs'[d].key] = "COMMITTED"
             /\ docs'[d].status # "ABSENT" => docs'[d].key \in Keys
  BY <1>1, <1>3 DEF Journal, KeysFollow
<1> QED
  BY <1>2, <1>4, <1>5, <1>6 DEF Journal

\* Documents, access and the open transactions stay; so do the rows these carry.
LEMMA LocksKept ==
  ASSUME Locks, UNCHANGED <<docs, assigned, blocked>>, open' \subseteq open,
         \A o \in open' : /\ req'[o].op = req[o].op /\ req'[o].actor = req[o].actor
                          /\ req'[o].doc = req[o].doc /\ req'[o].row = req[o].row
  PROVE  Locks'
BY DEF Locks, MayAccess

\* A document is written by a request that is not, or no longer, at COMMIT, and that nobody at
\* COMMIT stands in the way of.
LEMMA LocksWrite ==
  ASSUME Locks, UNCHANGED <<assigned, blocked>>, open' \subseteq open, NEW d \in Docs,
         \A c \in Docs \ {d} : docs'[c] = docs[c],
         \A o \in open' : /\ req'[o].op = req[o].op /\ req'[o].actor = req[o].actor
                          /\ req'[o].doc = req[o].doc /\ req'[o].row = req[o].row
                          /\ req[o].doc \in Docs \ {d}
  PROVE  Locks'
BY DEF Locks, MayAccess

\* Nobody comes back to the first read, and only the holder of a new document writes it.
LEMMA FreshKept ==
  ASSUME Typed, Fresh, NEW r \in Requests, NEW d \in Docs, req[r].doc = d,
         req[r].op \notin {"UPLOAD", "STAFF_UPLOAD"} \/ req[r].pc # "READ",
         \A x \in Requests : /\ req'[x].op = req[x].op /\ req'[x].doc = req[x].doc
                             /\ req'[x].pc = "READ" => req[x].pc = "READ",
         \A c \in Docs \ {d} : docs'[c] = docs[c],
         docs'[d].status # "ABSENT"
  PROVE  Fresh'
<1>1. ASSUME NEW x \in Requests PROVE NewDocument(x)'
  <2>1. SUFFICES ASSUME req[x].op \in {"UPLOAD", "STAFF_UPLOAD"}, req[x].pc = "READ"
                 PROVE  docs'[req[x].doc] = Absent
    BY DEF NewDocument
  <2>2. docs[req[x].doc] = Absent /\ req[x].doc \in Docs
    BY <2>1 DEF Fresh, NewDocument, Typed, Sensible
  <2>3. CASE req[x].doc = d
    <3>1. docs[d].status = "ABSENT"
      BY <2>2, <2>3 DEF Absent
    <3>2. x = r
      BY <2>3, <3>1 DEF Fresh
    <3> QED
      BY <2>1, <3>2
  <2>4. CASE req[x].doc # d
    BY <2>2, <2>4
  <2> QED
    BY <2>3, <2>4
<1> QED
  BY <1>1 DEF Fresh

LEMMA FreshSame ==
  ASSUME Typed, Fresh, UNCHANGED docs,
         \A x \in Requests : /\ req'[x].op = req[x].op /\ req'[x].doc = req[x].doc
                             /\ req'[x].pc = "READ" => req[x].pc = "READ"
  PROVE  Fresh'
BY DEF Fresh, NewDocument

\* The rows the others carry are theirs.
LEMMA CarriedElsewhere ==
  ASSUME NEW x \in Requests, Carried(x), req'[x] = req[x]
  PROVE  Carried(x)'
BY DEF Carried

-----------------------------------------------------------------------------
(* The steps                                                                *)

\* Most steps of a handler leave the documents and the transactions alone and go to a
\* statement that follows the first read: what is left to show is the key and the slot.
LEMMA PlainStep ==
  ASSUME IInv, NEW r \in Requests, Alone(r), Sensible(r)', Key(r)', Carried(r)', SlotsHeld',
         active' \in Nat, req'[r].pc = "READ" => req[r].pc = "READ", r \in open => req'[r].row = req[r].row,
         UNCHANGED <<docs, open, submitted, crashes, access>>,
         objects' \subseteq Keys, late' \subseteq Requests,
         intents' \in [Keys -> {"NONE", "PENDING", "ROLLED_BACK", "COMMITTED", "CLEANED"}],
         OnlyKey(r)
  PROVE  IInv'
<1>1. ASSUME NEW x \in Requests, x # r PROVE req'[x] = req[x] /\ Sensible(x)' /\ Carried(x)'
  BY <1>1, CarriedElsewhere DEF Alone, IInv, Typed, Reviews, Sensible
<1>2. Typed'
  BY <1>1 DEF IInv, Typed, Alone, access
<1>3. Journal'
  <2>1. Typed /\ Journal
    BY DEF IInv
  <2>2. \A x \in Requests \ {r} : req'[x] = req[x]
    BY <1>1
  <2>3. \A d \in Docs : docs'[d] = docs[d]
    OBVIOUS
  <2>4. KeysFollow(r)
    BY <2>3 DEF KeysFollow
  <2> QED
    BY <2>1, <2>2, <2>4, JournalStep
<1>4. Locks'
  <2>1. ASSUME NEW o \in open
        PROVE  /\ req'[o].op = req[o].op /\ req'[o].actor = req[o].actor
               /\ req'[o].doc = req[o].doc /\ req'[o].row = req[o].row
    BY <1>1 DEF Alone, IInv, Typed
  <2> QED
    BY <2>1, LocksKept DEF IInv, access
<1>5. Fresh'
  <2>1. ASSUME NEW x \in Requests
        PROVE  /\ req'[x].op = req[x].op /\ req'[x].doc = req[x].doc
               /\ req'[x].pc = "READ" => req[x].pc = "READ"
    BY <1>1 DEF Alone
  <2> QED
    BY <2>1, FreshSame DEF IInv
<1>6. Reviews'
  BY <1>1 DEF IInv, Reviews, ReviewedIsSubmitted
<1> QED
  BY <1>2, <1>3, <1>4, <1>5, <1>6 DEF IInv

\* Facts about one handler that every step starts from.
LEMMA HandlerFacts ==
  ASSUME IInv, NEW r \in Requests
  PROVE  /\ req[r] \in Handlers /\ Sensible(r) /\ Key(r) /\ Carried(r) /\ r \in Keys
         /\ active \in Nat /\ Typed /\ SlotsHeld
         /\ intents[r] = "COMMITTED" => r \in objects
BY DEF IInv, Typed, Journal, Reviews, Keys

\* A statement of an upload after which the next one follows ...
LEMMA GoStep ==
  ASSUME IInv, NEW r \in Requests, NEW to \in Storing, Goto(r, to), req[r].pc \in Storing,
         Key(r)', OnlyKey(r), UNCHANGED <<docs, open, submitted, crashes, access>>,
         objects' \subseteq Keys, late' \subseteq Requests,
         intents' \in [Keys -> {"NONE", "PENDING", "ROLLED_BACK", "COMMITTED", "CLEANED"}]
  PROVE  IInv'
<1>1. Moved(r, to) /\ UNCHANGED active
  BY HandlerFacts, GotoMoves DEF PCs, Goto
<1>2. SlotsHeld'
  BY <1>1, HandlerFacts, SlotsKept DEF Moved, Storing
<1>3. Sensible(r)' /\ Carried(r)'
  BY <1>1, HandlerFacts DEF Moved, Alone, Sensible, Carried, Storing
<1> QED
  BY <1>1, <1>2, <1>3, HandlerFacts, PlainStep DEF Moved, Storing

\* ... and one after which the handler answers.
LEMMA SettleStep ==
  ASSUME IInv, NEW r \in Requests, Answer(r), req[r].pc \in Storing \cup {"READ", "WRITE"},
         Key(r)', OnlyKey(r), UNCHANGED <<docs, open, submitted, crashes, access>>,
         objects' \subseteq Keys, late' \subseteq Requests,
         intents' \in [Keys -> {"NONE", "PENDING", "ROLLED_BACK", "COMMITTED", "CLEANED"}]
  PROVE  IInv'
<1>1. Moved(r, "ANSWERED")
  BY HandlerFacts, AnswerMoves
<1>2. SlotsHeld' /\ active' \in Nat
  BY HandlerFacts, AnswerSlots DEF Storing
<1>3. Sensible(r)' /\ Carried(r)'
  BY <1>1, HandlerFacts DEF Moved, Alone, Sensible, Carried, Storing
<1> QED
  BY <1>1, <1>2, <1>3, HandlerFacts, PlainStep DEF Moved

\* A refusal: nothing but the handler has changed.
LEMMA RefuseStep ==
  ASSUME IInv, NEW r \in Requests, Answer(r), req[r].pc \in Storing \cup {"READ", "WRITE"},
         r \in open => req[r].pc # "COMMIT",
         UNCHANGED <<docs, open, submitted, crashes, access, store>>
  PROVE  IInv'
<1>1. Moved(r, "ANSWERED")
  BY HandlerFacts, AnswerMoves
<1>2. Key(r)'
  BY <1>1, HandlerFacts DEF Moved, Alone, Key, store, Storing, RollingBack
<1>3. OnlyKey(r)
  BY HandlerFacts DEF OnlyKey, store
<1> QED
  BY <1>2, <1>3, SettleStep DEF store, IInv, Typed

LEMMA BeginStep ==
  ASSUME IInv, NEW r \in Requests, Begin(r)
  PROVE  IInv'
<1>1. CASE intents' = [intents EXCEPT ![r] = "PENDING"] /\ Goto(r, "PUT")
  <2>1. Moved(r, "PUT")
    BY <1>1, HandlerFacts, GotoMoves DEF PCs, Storing
  <2>2. Key(r)'
    BY <1>1, <2>1, HandlerFacts DEF Begin, Moved, Alone, Key, Storing, RollingBack, IInv, Typed
  <2>3. OnlyKey(r)
    BY <1>1, HandlerFacts DEF Begin, OnlyKey, Key, IInv, Typed
  <2> QED
    BY <1>1, <2>2, <2>3, GoStep DEF Begin, IInv, Typed, Storing
<1>2. CASE UNCHANGED intents /\ Answer(r)
  BY <1>2, RefuseStep DEF Begin, Storing, store
<1> QED
  BY <1>1, <1>2 DEF Begin

\* The object is stored, or the attempt is given up and may still arrive.
LEMMA PutStep ==
  ASSUME IInv, NEW r \in Requests, Put(r)
  PROVE  IInv'
<1>1. CASE objects' = objects \cup {r} /\ Goto(r, "TX") /\ UNCHANGED late
  <2>1. Moved(r, "TX")
    BY <1>1, HandlerFacts, GotoMoves DEF PCs, Storing
  <2>2. Key(r)'
    BY <1>1, <2>1, HandlerFacts DEF Put, Moved, Alone, Key, Storing, RollingBack
  <2>3. OnlyKey(r)
    BY <1>1, HandlerFacts DEF Put, OnlyKey
  <2> QED
    BY <1>1, <2>2, <2>3, HandlerFacts, GoStep DEF Put, IInv, Typed, Storing
<1>2. CASE UNCHANGED objects /\ late' = late \cup {r} /\ Goto(r, "COMPENSATE")
  <2>1. Moved(r, "COMPENSATE")
    BY <1>2, HandlerFacts, GotoMoves DEF PCs, Storing
  <2>2. Key(r)'
    BY <1>2, <2>1, HandlerFacts DEF Put, Moved, Alone, Key, Storing, RollingBack
  <2>3. OnlyKey(r)
    BY <1>2, HandlerFacts DEF Put, OnlyKey
  <2> QED
    BY <1>2, <2>2, <2>3, HandlerFacts, GoStep DEF Put, IInv, Typed, Storing
<1> QED
  BY <1>1, <1>2 DEF Put, Goto

\* A late object finds an intent that is still on the operators' list.
LEMMA ArrivesStep ==
  ASSUME IInv, NEW r \in Requests, ArrivesLate(r)
  PROVE  IInv'
<1>1. Alone(r) /\ req' = req
  BY DEF ArrivesLate, Alone, IInv, Typed
<1>2. Key(r)'
  BY <1>1, HandlerFacts DEF ArrivesLate, Key, Storing, RollingBack
<1>3. OnlyKey(r)
  BY HandlerFacts DEF ArrivesLate, OnlyKey
<1>4. Sensible(r)' /\ Carried(r)' /\ SlotsHeld' /\ active' \in Nat
  <2>1. SlotsHeld'
    BY <1>1, HandlerFacts, SlotsKept DEF ArrivesLate
  <2> QED
    BY <1>1, <2>1, HandlerFacts DEF ArrivesLate, Sensible, Carried
<1>5. objects' \subseteq Keys /\ late' \subseteq Requests
  BY HandlerFacts DEF ArrivesLate, IInv, Typed
<1> QED
  BY <1>1, <1>2, <1>3, <1>4, <1>5, PlainStep DEF ArrivesLate, IInv, Typed

LEMMA LoseCommitStep ==
  ASSUME IInv, NEW r \in Requests, LoseCommit(r)
  PROVE  IInv'
<1>1. Moved(r, "COMPENSATE")
  BY HandlerFacts, GotoMoves DEF LoseCommit, PCs, Storing
<1>2. Key(r)'
  BY <1>1, HandlerFacts DEF LoseCommit, store, Moved, Alone, Key, Storing, RollingBack
<1>3. OnlyKey(r)
  BY HandlerFacts DEF LoseCommit, OnlyKey, store
<1> QED
  BY <1>2, <1>3, GoStep DEF LoseCommit, store, IInv, Typed, Storing

LEMMA CompensateStep ==
  ASSUME IInv, NEW r \in Requests, Compensate(r)
  PROVE  IInv'
<1>1. CASE /\ req[r].proven /\ intents[r] \in {"PENDING", "ROLLED_BACK"}
           /\ Goto(r, "ROLL_BACK")
  <2>1. Moved(r, "ROLL_BACK")
    BY <1>1, HandlerFacts, GotoMoves DEF PCs, Storing
  <2>2. Key(r)'
    BY <1>1, <2>1, HandlerFacts DEF Compensate, store, Moved, Alone, Key, Storing, RollingBack
  <2>3. OnlyKey(r)
    BY HandlerFacts DEF Compensate, OnlyKey, store
  <2> QED
    BY <1>1, <2>2, <2>3, GoStep DEF Compensate, store, IInv, Typed, Storing
<1>2. CASE Answer(r)
  BY <1>2, RefuseStep DEF Compensate, Storing
<1> QED
  BY <1>1, <1>2 DEF Compensate

\* The rollback is proven, so there is no transaction left that could commit the intent.
LEMMA RollBackStep ==
  ASSUME IInv, NEW r \in Requests, RollBack(r)
  PROVE  IInv'
<1>1. CASE /\ intents[r] \in {"PENDING", "ROLLED_BACK"}
           /\ intents' = [intents EXCEPT ![r] = "ROLLED_BACK"] /\ Goto(r, "DELETE")
  <2>1. Moved(r, "DELETE")
    BY <1>1, HandlerFacts, GotoMoves DEF PCs, Storing
  <2>2. intents'[r] = "ROLLED_BACK"
    BY <1>1, HandlerFacts DEF IInv, Typed
  <2>3. Key(r)'
    BY <1>1, <2>1, <2>2, HandlerFacts
    DEF RollBack, Moved, Alone, Key, Storing, RollingBack
  <2>4. OnlyKey(r)
    BY <1>1, <2>2, HandlerFacts DEF RollBack, OnlyKey, IInv, Typed
  <2> QED
    BY <1>1, <2>3, <2>4, GoStep DEF RollBack, IInv, Typed, Storing
<1>2. CASE UNCHANGED intents /\ Answer(r)
  BY <1>2, RefuseStep DEF RollBack, Storing, store
<1> QED
  BY <1>1, <1>2 DEF RollBack

LEMMA DeleteStep ==
  ASSUME IInv, NEW r \in Requests, Delete(r)
  PROVE  IInv'
<1>1. intents[r] = "ROLLED_BACK" /\ req[r].proven /\ r \notin open /\ r \notin late
  BY HandlerFacts DEF Delete, Key, RollingBack
<1>2. OnlyKey(r) /\ objects' \subseteq Keys
  BY <1>1, HandlerFacts DEF Delete, OnlyKey, IInv, Typed
<1>3. CASE objects' = objects \ {r} /\ Goto(r, "CLEAN")
  <2>1. Moved(r, "CLEAN")
    BY <1>3, HandlerFacts, GotoMoves DEF PCs, Storing
  <2>2. Key(r)'
    BY <1>1, <1>3, <2>1 DEF Delete, Moved, Alone, Key, Storing, RollingBack
  <2> QED
    BY <1>2, <1>3, <2>2, GoStep DEF Delete, IInv, Typed, Storing
<1>4. CASE objects' \in {objects, objects \ {r}} /\ Answer(r)
  <2>1. Moved(r, "ANSWERED")
    BY <1>4, HandlerFacts, AnswerMoves
  <2>2. Key(r)'
    BY <1>1, <1>4, <2>1 DEF Delete, Moved, Alone, Key, Storing, RollingBack
  <2> QED
    BY <1>2, <1>4, <2>2, SettleStep DEF Delete, IInv, Typed, Storing
<1> QED
  BY <1>3, <1>4 DEF Delete

\* The object is gone and nothing of its upload is left that could bring it back.
LEMMA CleanStep ==
  ASSUME IInv, NEW r \in Requests, Clean(r)
  PROVE  IInv'
<1>1. /\ intents[r] = "ROLLED_BACK" /\ req[r].proven
      /\ r \notin objects /\ r \notin open /\ r \notin late
  BY HandlerFacts DEF Clean, Key, RollingBack
<1>2. Moved(r, "ANSWERED")
  BY HandlerFacts, AnswerMoves DEF Clean
<1>3. intents'[r] \in {"ROLLED_BACK", "CLEANED"}
  BY <1>1, HandlerFacts DEF Clean, IInv, Typed
<1>4. Key(r)'
  BY <1>1, <1>2, <1>3 DEF Clean, Moved, Alone, Key, Storing, RollingBack
<1>5. OnlyKey(r)
  BY <1>1, <1>3, HandlerFacts DEF Clean, OnlyKey, IInv, Typed
<1> QED
  BY <1>4, <1>5, SettleStep DEF Clean, IInv, Typed, Storing

\* The response finishes or the client goes: the slot is given back only after the operation.
LEMMA CloseStep ==
  ASSUME IInv, NEW r \in Requests, Close(r)
  PROVE  IInv'
<1> DEFINE k == [req[r] EXCEPT !.closed = TRUE]
<1>1. /\ k \in Handlers /\ k.op = req[r].op /\ k.actor = req[r].actor /\ k.doc = req[r].doc
      /\ k.pc = req[r].pc /\ k.row = req[r].row /\ k.proven = req[r].proven /\ k.closed
  BY HandlerFacts DEF Handlers
<1> HIDE DEF k
<1>2. req' = [req EXCEPT ![r] = k]
  BY DEF Close, k
<1>3. Alone(r) /\ req'[r] = k
  BY <1>1, <1>2, HandlerFacts DEF Alone, Typed
<1>4. SlotsHeld' /\ active' \in Nat
  <2>1. \A x \in Requests \ {r} : Holds(x)' <=> Holds(x)
    BY <1>3, OthersHold DEF Alone
  <2>2. CASE req[r].pc = "ANSWERED"
    <3>1. Holds(r) /\ ~ Holds(r)' /\ active' = active - 1
      BY <1>1, <1>3, <2>2 DEF Close, Holds
    <3> QED
      BY <2>1, <3>1, HandlerFacts, SlotsLess
  <2>3. CASE req[r].pc # "ANSWERED"
    <3>1. (Holds(r)' <=> Holds(r)) /\ UNCHANGED active
      BY <1>1, <1>3, <2>3 DEF Close, Holds
    <3> QED
      BY <2>1, <3>1, HandlerFacts, SlotsSame
  <2> QED
    BY <2>2, <2>3
<1>5. Key(r)'
  BY <1>1, <1>3, HandlerFacts DEF Close, store, Key
<1>6. Sensible(r)' /\ Carried(r)'
  BY <1>1, <1>3, HandlerFacts DEF Sensible, Carried
<1>7. OnlyKey(r)
  BY HandlerFacts DEF Close, OnlyKey, store
<1> QED
  BY <1>1, <1>3, <1>4, <1>5, <1>6, <1>7, PlainStep DEF Close, store, IInv, Typed

\* The first read: what may be replaced is there, and a new document is still new.
LEMMA ReadStep ==
  ASSUME IInv, NEW r \in Requests, Read(r)
  PROVE  IInv'
<1> DEFINE d == req[r].doc
           k == [req[r] EXCEPT !.pc = "BEGIN", !.row = docs[d], !.expert = assigned]
<1>1. CASE /\ req[r].op \in Replacements => Live(d)
           /\ req' = [req EXCEPT ![r] = k] /\ UNCHANGED active
  <2>1. d \in Docs /\ docs[d] \in DocRows /\ assigned \in Experts \cup {None}
    BY HandlerFacts DEF Read, Sensible, IInv, Typed
  <2>2. /\ k \in Handlers /\ k.op = req[r].op /\ k.actor = req[r].actor /\ k.doc = d
        /\ k.pc = "BEGIN" /\ k.row = docs[d] /\ k.proven = req[r].proven
        /\ k.closed = req[r].closed
    BY <2>1, HandlerFacts DEF Handlers, PCs, Storing
  <2> HIDE DEF k
  <2>3. Alone(r) /\ req'[r] = k
    BY <1>1, <2>2, HandlerFacts DEF Alone, Typed
  <2>4. ~ docs[d].deleted
    <3>1. CASE req[r].op \in Replacements
      BY <1>1, <3>1 DEF Live
    <3>2. CASE req[r].op \in {"UPLOAD", "STAFF_UPLOAD"}
      BY <3>2 DEF Read, IInv, Fresh, NewDocument, Absent
    <3> QED
      BY <3>1, <3>2 DEF Read, Uploads, Replacements
  <2>5. SlotsHeld'
    BY <1>1, <2>2, <2>3, HandlerFacts, SlotsKept DEF Read
  <2>6. Key(r)'
    BY <2>2, <2>3, HandlerFacts DEF Read, store, Key, Storing, RollingBack
  <2>7. Sensible(r)' /\ Carried(r)'
    BY <2>2, <2>3, <2>4, HandlerFacts DEF Read, Sensible, Carried, Storing
  <2>8. OnlyKey(r) /\ r \notin open
    BY HandlerFacts DEF Read, OnlyKey, store, Key
  <2> QED
    BY <1>1, <2>2, <2>3, <2>5, <2>6, <2>7, <2>8, HandlerFacts, PlainStep
    DEF Read, store, IInv, Typed
<1>2. CASE Answer(r)
  BY <1>2, RefuseStep DEF Read
<1> QED
  BY <1>1, <1>2 DEF Read

LEMMA ReadRowStep ==
  ASSUME IInv, NEW r \in Requests, ReadRow(r)
  PROVE  IInv'
<1> DEFINE d == req[r].doc
           k == [req[r] EXCEPT !.pc = "WRITE", !.row = docs[d]]
<1>1. CASE /\ Live(d) /\ docs[d].status = IF req[r].op = "SUBMIT" THEN "DRAFT" ELSE "REVIEW"
           /\ req' = [req EXCEPT ![r] = k] /\ UNCHANGED active
  <2>1. d \in Docs /\ docs[d] \in DocRows
    BY HandlerFacts DEF ReadRow, Sensible, IInv, Typed
  <2>2. /\ k \in Handlers /\ k.op = req[r].op /\ k.actor = req[r].actor /\ k.doc = d
        /\ k.pc = "WRITE" /\ k.row = docs[d] /\ k.proven = req[r].proven
        /\ k.closed = req[r].closed
    BY <2>1, HandlerFacts DEF Handlers, PCs
  <2> HIDE DEF k
  <2>3. Alone(r) /\ req'[r] = k
    BY <1>1, <2>2, HandlerFacts DEF Alone, Typed
  <2>4. SlotsHeld'
    BY <1>1, <2>2, <2>3, HandlerFacts, SlotsKept DEF ReadRow
  <2>5. Key(r)'
    BY <2>2, <2>3, HandlerFacts DEF ReadRow, store, Key, Storing, RollingBack
  <2>6. Sensible(r)' /\ Carried(r)'
    BY <1>1, <2>2, <2>3, HandlerFacts DEF ReadRow, Live, Sensible, Carried, Storing
  <2>7. OnlyKey(r) /\ r \notin open
    BY HandlerFacts DEF ReadRow, OnlyKey, store, Key
  <2> QED
    BY <1>1, <2>2, <2>3, <2>4, <2>5, <2>6, <2>7, HandlerFacts, PlainStep
    DEF ReadRow, store, IInv, Typed
<1>2. CASE Answer(r)
  BY <1>2, RefuseStep DEF ReadRow
<1> QED
  BY <1>1, <1>2 DEF ReadRow

\* The callback of the transaction: it throws, and its rollback is proven, or it has checked under
\* its locks all that the commit relies on.
LEMMA TransactStep ==
  ASSUME IInv, NEW r \in Requests, Transact(r)
  PROVE  IInv'
<1>1. CASE Unchanged(r) /\ open' = open \cup {r} /\ Goto(r, "COMMIT")
  <2>1. Moved(r, "COMMIT") /\ UNCHANGED active
    BY <1>1, HandlerFacts, GotoMoves DEF PCs, Storing, Goto
  <2>2. SlotsHeld'
    BY <2>1, HandlerFacts, SlotsKept DEF Transact, Moved, Storing
  <2>3. Sensible(r)' /\ Carried(r)'
    BY <2>1, HandlerFacts DEF Transact, Moved, Alone, Sensible, Carried, Storing
  <2>4. Key(r)'
    BY <1>1, <2>1, HandlerFacts
    DEF Transact, store, Moved, Alone, Key, Sensible, Storing, RollingBack
  <2>5. ASSUME NEW x \in Requests, x # r
        PROVE  req'[x] = req[x] /\ Sensible(x)' /\ Carried(x)'
    BY <2>1, <2>5, CarriedElsewhere DEF Moved, Alone, IInv, Typed, Reviews, Sensible
  <2>6. Typed'
    BY <1>1, <2>1, <2>3, <2>5, HandlerFacts DEF Transact, Moved, Alone, access, store, Typed
  <2>7. Journal'
    <3>1. OnlyKey(r)
      BY <1>1, HandlerFacts DEF Transact, OnlyKey, store
    <3>2. \A d \in Docs : docs'[d] = docs[d]
      BY DEF Transact
    <3>3. KeysFollow(r)
      BY <3>2 DEF KeysFollow
    <3>4. Typed /\ Journal
      BY DEF IInv
    <3> QED
      BY <2>4, <2>5, <3>1, <3>3, <3>4, JournalStep
  <2>8. Locks'
    <3>1. \A o \in open' : /\ req'[o].op = req[o].op /\ req'[o].actor = req[o].actor
                           /\ req'[o].doc = req[o].doc /\ req'[o].row = req[o].row
      BY <1>1, <2>1, <2>5 DEF Moved, Alone, IInv, Typed
    <3>2. ASSUME NEW o \in open'
          PROVE  /\ MayAccess(req[o].actor, req[o].op)
                 /\ docs[req[o].doc] = req[o].row /\ ~ req[o].row.deleted
      <4>1. CASE o = r
        BY <1>1, <4>1, HandlerFacts DEF Transact, Unchanged, Carried, Storing
      <4>2. CASE o \in open
        BY <4>2 DEF IInv, Locks
      <4> QED
        BY <1>1, <4>1, <4>2
    <3>3. \A o \in open', q \in open' : req[o].doc = req[q].doc => o = q
      BY <1>1 DEF Transact, RowFree, IInv, Locks
    <3>4. UNCHANGED <<docs, assigned, blocked>>
      BY DEF Transact, access
    <3> QED
      BY <3>1, <3>2, <3>3, <3>4 DEF Locks, MayAccess
  <2>9. Fresh'
    <3>1. ASSUME NEW x \in Requests
          PROVE  /\ req'[x].op = req[x].op /\ req'[x].doc = req[x].doc
                 /\ req'[x].pc = "READ" => req[x].pc = "READ"
      BY <2>1, <2>5 DEF Moved, Alone
    <3> QED
      BY <3>1, FreshSame DEF Transact, IInv
  <2>10. Reviews'
    BY <2>3, <2>5 DEF Transact, IInv, Reviews, ReviewedIsSubmitted
  <2> QED
    BY <2>2, <2>6, <2>7, <2>8, <2>9, <2>10 DEF IInv
<1>2. CASE /\ req' = [req EXCEPT ![r].pc = "COMPENSATE", ![r].proven = TRUE]
           /\ UNCHANGED <<open, active>>
  <2> DEFINE k == [req[r] EXCEPT !.pc = "COMPENSATE", !.proven = TRUE]
  <2>1. /\ k \in Handlers /\ k.op = req[r].op /\ k.actor = req[r].actor /\ k.doc = req[r].doc
        /\ k.pc = "COMPENSATE" /\ k.row = req[r].row /\ k.proven /\ k.closed = req[r].closed
    BY HandlerFacts DEF Handlers, PCs, Storing
  <2> HIDE DEF k
  <2>2. req' = [req EXCEPT ![r] = k]
    BY <1>2, HandlerFacts DEF Typed, k
  <2>3. Alone(r) /\ req'[r] = k
    BY <2>1, <2>2, HandlerFacts DEF Alone, Typed
  <2>4. SlotsHeld'
    BY <1>2, <2>1, <2>3, HandlerFacts, SlotsKept DEF Transact
  <2>5. Key(r)'
    BY <1>2, <2>1, <2>3, HandlerFacts DEF Transact, store, Key, Storing, RollingBack
  <2>6. Sensible(r)' /\ Carried(r)'
    BY <2>1, <2>3, HandlerFacts DEF Transact, Sensible, Carried, Storing
  <2>7. OnlyKey(r)
    BY <1>2, HandlerFacts DEF Transact, OnlyKey, store
  <2> QED
    BY <1>2, <2>1, <2>3, <2>4, <2>5, <2>6, <2>7, HandlerFacts, PlainStep
    DEF Transact, store, IInv, Typed
<1> QED
  BY <1>1, <1>2 DEF Transact

\* PostgreSQL decides: the new version, its audit entry and its intent together, or nothing.
LEMMA DecideStep ==
  ASSUME IInv, NEW r \in Requests, Decide(r)
  PROVE  IInv'
<1> DEFINE d == req[r].doc
<1>1. /\ r \in open /\ req[r].op \in Uploads /\ r \in objects /\ r \notin late
      /\ intents[r] = "PENDING" /\ ~ req[r].proven
      /\ req[r].pc \in {"COMMIT", "COMPENSATE", "ANSWERED", "DEAD"}
      /\ d \in Docs /\ open' = open \ {r}
  BY HandlerFacts DEF Decide, Key, Sensible
<1>2. SUFFICES /\ Typed' /\ Journal' /\ Locks' /\ Fresh' /\ Reviews' /\ SlotsHeld'
  BY DEF IInv
<1>3. /\ Alone(r) /\ SlotsHeld' /\ active' \in Nat
      /\ req'[r].row = req[r].row /\ req'[r].proven = req[r].proven
      /\ req'[r].pc \in {"COMPENSATE", "ANSWERED", "DEAD"}
  <2>1. CASE UNCHANGED <<req, active>> /\ req[r].pc # "COMMIT"
    <3>1. Alone(r)
      BY <2>1 DEF Alone, IInv, Typed
    <3> QED
      BY <1>1, <2>1, <3>1, HandlerFacts, SlotsKept
  <2>2. CASE Answer(r) /\ req[r].pc = "COMMIT"
    <3>1. Moved(r, "ANSWERED")
      BY <2>2, HandlerFacts, AnswerMoves
    <3> QED
      BY <2>2, <3>1, HandlerFacts, AnswerSlots DEF Moved
  <2>3. CASE Goto(r, "COMPENSATE") /\ req[r].pc = "COMMIT"
    <3>1. Moved(r, "COMPENSATE") /\ UNCHANGED active
      BY <2>3, HandlerFacts, GotoMoves DEF PCs, Storing, Goto
    <3> QED
      BY <2>3, <3>1, HandlerFacts, SlotsKept DEF Moved
  <2> QED
    BY <2>1, <2>2, <2>3 DEF Decide
<1>4. Sensible(r)' /\ Carried(r)'
  BY <1>1, <1>3, HandlerFacts DEF Alone, Sensible, Carried, Storing, IInv, Locks
<1>5. ASSUME NEW x \in Requests, x # r
      PROVE  req'[x] = req[x] /\ Sensible(x)' /\ Carried(x)'
  BY <1>3, <1>5, CarriedElsewhere DEF Alone, IInv, Typed, Reviews, Sensible
<1>6. \A o \in open' : /\ req'[o].op = req[o].op /\ req'[o].actor = req[o].actor
                       /\ req'[o].doc = req[o].doc /\ req'[o].row = req[o].row
                       /\ req[o].doc \in Docs \ {d}
  <2>1. ASSUME NEW o \in open' PROVE o \in open /\ o \in Requests /\ o # r
    BY <1>1 DEF IInv, Typed
  <2>2. ASSUME NEW o \in open' PROVE req[o].doc \in Docs
    BY <2>1, HandlerFacts DEF Key, Sensible
  <2>3. ASSUME NEW o \in open' PROVE req[o].doc # d
    BY <1>1, <2>1 DEF IInv, Locks
  <2> QED
    BY <1>5, <2>1, <2>2, <2>3
<1>7. \A x \in Requests : /\ req'[x].op = req[x].op /\ req'[x].doc = req[x].doc
                          /\ req'[x].pc = "READ" => req[x].pc = "READ"
  BY <1>3, <1>5 DEF Alone
<1>8. CASE UNCHANGED <<docs, intents>>
  <2>1. Typed'
    BY <1>1, <1>3, <1>4, <1>5, <1>8, HandlerFacts DEF Decide, Alone, access, Typed
  <2>2. Key(r)'
    BY <1>1, <1>3, <1>8 DEF Decide, Key, Storing, RollingBack
  <2>3. OnlyKey(r) /\ KeysFollow(r)
    BY <1>1, <1>8 DEF Decide, OnlyKey, KeysFollow
  <2>4. Journal'
    BY <1>5, <2>2, <2>3, JournalStep DEF IInv
  <2>5. Locks'
    BY <1>1, <1>6, <1>8, LocksKept DEF Decide, access, IInv
  <2>6. Fresh'
    BY <1>7, <1>8, FreshSame DEF IInv
  <2>7. Reviews'
    BY <1>4, <1>5, <1>8 DEF Decide, IInv, Reviews, ReviewedIsSubmitted
  <2> QED
    BY <1>3, <2>1, <2>4, <2>5, <2>6, <2>7
<1>9. CASE /\ docs' = [docs EXCEPT ![d] = Stored(r)]
           /\ intents' = [intents EXCEPT ![r] = "COMMITTED"]
  <2>1. /\ Stored(r) \in DocRows /\ Stored(r).key = r /\ Stored(r).status = "DRAFT"
    <3>1. req[r].row \in DocRows
      BY HandlerFacts DEF Handlers
    <3> QED
      BY <3>1 DEF Stored, DocRows, Keys, Statuses
  <2>2. /\ docs' \in [Docs -> DocRows] /\ docs'[d] = Stored(r)
        /\ \A c \in Docs \ {d} : docs'[c] = docs[c]
    BY <1>1, <1>9, <2>1 DEF IInv, Typed
  <2>3. /\ intents' \in [Keys -> {"NONE", "PENDING", "ROLLED_BACK", "COMMITTED", "CLEANED"}]
        /\ intents'[r] = "COMMITTED" /\ \A k \in Keys \ {r} : intents'[k] = intents[k]
    BY <1>9, HandlerFacts DEF IInv, Typed
  <2>4. Typed'
    BY <1>1, <1>3, <1>4, <1>5, <2>2, <2>3, HandlerFacts DEF Decide, Alone, access, Typed
  <2>5. Key(r)'
    BY <1>1, <1>3, <2>3 DEF Decide, Key, Storing, RollingBack
  <2>6. OnlyKey(r) /\ KeysFollow(r)
    BY <1>1, <2>1, <2>2, <2>3 DEF Decide, OnlyKey, KeysFollow
  <2>7. Journal'
    BY <1>5, <2>5, <2>6, JournalStep DEF IInv
  <2>8. Locks'
    BY <1>1, <1>6, <2>2, LocksWrite DEF Decide, access, IInv
  <2>9. Fresh'
    BY <1>1, <1>7, <2>1, <2>2, FreshKept DEF IInv
  <2>10. Reviews'
    BY <1>4, <1>5, <2>1, <2>2 DEF Decide, IInv, Reviews, ReviewedIsSubmitted
  <2> QED
    BY <1>3, <2>4, <2>7, <2>8, <2>9, <2>10
<1> QED
  BY <1>8, <1>9 DEF Decide

\* A review or a change of metadata: the document keeps its file, and no upload of it is at COMMIT.
LEMMA WriteStep ==
  ASSUME IInv, NEW r \in Requests, NEW d \in Docs, d = req[r].doc, NEW row \in DocRows,
         row.key = docs[d].key, docs[d].status # "ABSENT", row.status # "ABSENT",
         Write(r, d, row), RowFree(d, r), req[r].pc \in {"READ", "WRITE"},
         req[r].op \notin Uploads, submitted' \in [Docs -> Keys \cup {None}],
         ReviewedIsSubmitted', UNCHANGED <<open, crashes, access, store>>
  PROVE  IInv'
<1> DEFINE new == [row EXCEPT !.stamp = @ + 1, !.by = r]
<1>1. new \in DocRows /\ new.key = row.key /\ new.status = row.status
  <2>1. row.stamp + 1 \in Nat
    BY DEF DocRows
  <2> QED
    BY <2>1 DEF DocRows
<1> HIDE DEF new
<1>2. /\ docs' \in [Docs -> DocRows] /\ docs'[d] = new
      /\ \A c \in Docs \ {d} : docs'[c] = docs[c]
  BY <1>1 DEF Write, IInv, Typed, new
<1>3. Moved(r, "ANSWERED")
  BY HandlerFacts, AnswerMoves DEF Write
<1>4. SlotsHeld' /\ active' \in Nat
  BY HandlerFacts, AnswerSlots DEF Write
<1>5. ASSUME NEW x \in Requests
      PROVE  (x # r => req'[x] = req[x]) /\ Sensible(x)' /\ Carried(x)'
  <2>1. CASE x = r
    BY <1>3, <2>1, HandlerFacts DEF Moved, Alone, Sensible, Carried, Storing
  <2>2. CASE x # r
    BY <1>3, <2>2, CarriedElsewhere DEF Moved, Alone, IInv, Typed, Reviews, Sensible
  <2> QED
    BY <2>1, <2>2
<1>6. r \notin open
  BY HandlerFacts DEF Key
<1>7. Typed'
  BY <1>2, <1>3, <1>4, <1>5 DEF Moved, Alone, access, store, IInv, Typed
<1>8. Journal'
  <2>1. Key(r)'
    BY <1>3, HandlerFacts DEF store, Moved, Alone, Key, Storing, RollingBack
  <2>2. OnlyKey(r)
    BY HandlerFacts DEF OnlyKey, store
  <2>3. KeysFollow(r)
    BY <1>1, <1>2 DEF KeysFollow
  <2> QED
    BY <1>5, <2>1, <2>2, <2>3, JournalStep DEF IInv
<1>9. Locks'
  <2>1. \A o \in open' : /\ req'[o].op = req[o].op /\ req'[o].actor = req[o].actor
                         /\ req'[o].doc = req[o].doc /\ req'[o].row = req[o].row
                         /\ req[o].doc \in Docs \ {d}
    <3>1. ASSUME NEW o \in open' PROVE o \in open /\ o \in Requests /\ o # r
      BY <1>6 DEF IInv, Typed
    <3>2. ASSUME NEW o \in open' PROVE req[o].doc \in Docs
      BY <3>1, HandlerFacts DEF Key, Sensible
    <3>3. ASSUME NEW o \in open' PROVE req[o].doc # d
      BY <3>1 DEF RowFree
    <3> QED
      BY <1>5, <3>1, <3>2, <3>3
  <2> QED
    BY <1>2, <2>1, LocksWrite DEF access, IInv
<1>10. Fresh'
  <2>1. \A x \in Requests : /\ req'[x].op = req[x].op /\ req'[x].doc = req[x].doc
                            /\ req'[x].pc = "READ" => req[x].pc = "READ"
    BY <1>3, <1>5 DEF Moved, Alone
  <2> QED
    BY <1>1, <1>2, <2>1, FreshKept DEF IInv, Uploads
<1>11. Reviews'
  BY <1>5 DEF Reviews
<1> QED
  BY <1>4, <1>7, <1>8, <1>9, <1>10, <1>11 DEF IInv

\* Submitting writes the row that was read, under the key it had, and records that key.
LEMMA SubmitStep ==
  ASSUME IInv, NEW r \in Requests, Submit(r)
  PROVE  IInv'
<1> DEFINE d == req[r].doc
           row == [docs[d] EXCEPT !.status = "REVIEW"]
<1>1. d \in Docs /\ docs[d] \in DocRows /\ Carried(r) /\ RowFree(d, r)
  BY HandlerFacts DEF Submit, Sensible, IInv, Typed
<1>2. CASE /\ docs[d] = req[r].row /\ Write(r, d, row)
           /\ submitted' = [submitted EXCEPT ![d] = docs[d].key]
  <2>1. row \in DocRows /\ row.key = docs[d].key /\ row.status = "REVIEW"
    BY <1>1 DEF DocRows, Statuses
  <2>2. docs[d].status # "ABSENT"
    BY <1>1, <1>2 DEF Submit, Carried
  <2>3. submitted' \in [Docs -> Keys \cup {None}]
    BY <1>1, <1>2 DEF IInv, Typed, DocRows
  <2>4. ReviewedIsSubmitted'
    <3>1. ASSUME NEW c \in Docs, c # d
          PROVE  docs'[c] = docs[c] /\ submitted'[c] = submitted[c]
      BY <1>2, <3>1 DEF Write, IInv, Typed
    <3>2. docs'[d].key = row.key /\ submitted'[d] = docs[d].key
      BY <1>1, <1>2, <2>1 DEF Write, IInv, Typed, DocRows
    <3> QED
      BY <2>1, <3>1, <3>2 DEF IInv, Reviews, ReviewedIsSubmitted
  <2> HIDE DEF row
  <2> QED
    BY <1>1, <1>2, <2>1, <2>2, <2>3, <2>4, WriteStep DEF Submit, Uploads
<1>3. CASE UNCHANGED <<docs, submitted>> /\ Answer(r)
  BY <1>3, RefuseStep DEF Submit, access
<1> QED
  BY <1>2, <1>3 DEF Submit

LEMMA ReviewStep ==
  ASSUME IInv, NEW r \in Requests, NEW verdict \in {"APPROVED", "NEEDS_REVISION"},
         Review(r, verdict)
  PROVE  IInv'
<1> DEFINE d == req[r].doc
           row == [docs[d] EXCEPT !.status = verdict]
<1>1. d \in Docs /\ docs[d] \in DocRows /\ Carried(r) /\ RowFree(d, r)
  BY HandlerFacts DEF Review, Sensible, IInv, Typed
<1>2. CASE docs[d] = req[r].row /\ Write(r, d, row)
  <2>1. row \in DocRows /\ row.key = docs[d].key /\ row.status = verdict
    BY <1>1 DEF DocRows, Statuses
  <2>2. docs[d].status = "REVIEW"
    BY <1>1, <1>2 DEF Review, Carried
  <2>3. ReviewedIsSubmitted'
    <3>1. ASSUME NEW c \in Docs, c # d PROVE docs'[c] = docs[c]
      BY <1>2, <3>1 DEF Write, IInv, Typed
    <3>2. docs'[d].key = row.key
      BY <1>1, <1>2, <2>1 DEF Write, IInv, Typed, DocRows
    <3> QED
      BY <1>1, <2>1, <2>2, <3>1, <3>2 DEF Review, IInv, Reviews, ReviewedIsSubmitted
  <2> HIDE DEF row
  <2> QED
    BY <1>1, <1>2, <2>1, <2>2, <2>3, WriteStep DEF Review, Uploads, IInv, Typed
<1>3. CASE UNCHANGED docs /\ Answer(r)
  BY <1>3, RefuseStep DEF Review, access
<1> QED
  BY <1>2, <1>3 DEF Review

LEMMA StaffMutateStep ==
  ASSUME IInv, NEW r \in Requests, StaffMutate(r)
  PROVE  IInv'
<1> DEFINE d == req[r].doc
           row == [docs[d] EXCEPT !.deleted = req[r].op = "ARCHIVE"]
<1>1. d \in Docs /\ docs[d] \in DocRows /\ RowFree(d, r)
  BY HandlerFacts DEF StaffMutate, Sensible, IInv, Typed
<1>2. CASE Live(d) /\ Write(r, d, row)
  <2>1. row \in DocRows /\ row.key = docs[d].key /\ row.status = docs[d].status
    BY <1>1 DEF DocRows
  <2>2. docs[d].status # "ABSENT"
    BY <1>2 DEF Live
  <2>3. ReviewedIsSubmitted'
    <3>1. ASSUME NEW c \in Docs, c # d PROVE docs'[c] = docs[c]
      BY <1>2, <3>1 DEF Write, IInv, Typed
    <3>2. docs'[d].key = row.key /\ docs'[d].status = row.status
      BY <1>1, <1>2, <2>1 DEF Write, IInv, Typed, DocRows
    <3> QED
      BY <1>1, <2>1, <3>1, <3>2 DEF StaffMutate, IInv, Reviews, ReviewedIsSubmitted
  <2> HIDE DEF row
  <2> QED
    BY <1>1, <1>2, <2>1, <2>2, <2>3, WriteStep DEF StaffMutate, Uploads, IInv, Typed
<1>3. CASE UNCHANGED docs /\ Answer(r)
  BY <1>3, RefuseStep DEF StaffMutate, access
<1> QED
  BY <1>2, <1>3 DEF StaffMutate

\* A request arrives: its key is new, and so is its document, or it is there.
LEMMA SendStep ==
  ASSUME IInv, NEW r \in Requests, NEW op \in Ops, NEW u \in Actors, NEW d \in Docs,
         Send(r, op, u, d)
  PROVE  IInv'
<1> DEFINE to == IF op \notin Uploads THEN "READ"
                 ELSE IF active < Limit THEN "READ" ELSE "REFUSED"
           k == [req[r] EXCEPT !.op = op, !.actor = u, !.doc = d, !.row = docs[d], !.pc = to]
<1>1. /\ req[r].pc = "IDLE" /\ req[r].op = "NONE" /\ req[r].proven = FALSE
      /\ req[r].closed = FALSE /\ docs[d] \in DocRows
  BY DEF Send, Unsent, IInv, Typed
<1>2. /\ k \in Handlers /\ k.op = op /\ k.actor = u /\ k.doc = d /\ k.row = docs[d]
      /\ k.pc = to /\ ~ k.proven /\ ~ k.closed
  BY <1>1, HandlerFacts DEF Handlers, PCs
<1>3. to \in {"READ", "REFUSED"}
  OBVIOUS
<1>4. req' = [req EXCEPT ![r] = k]
  BY DEF Send
<1> HIDE DEF k
<1>5. /\ req' \in [Requests -> Handlers] /\ req'[r] = k
      /\ \A x \in Requests \ {r} : req'[x] = req[x]
  BY <1>2, <1>4 DEF IInv, Typed
<1>6. r \notin open
  BY <1>1, HandlerFacts DEF Key
<1>7. SlotsHeld' /\ active' \in Nat
  <2>1. \A x \in Requests \ {r} : Holds(x)' <=> Holds(x)
    BY <1>5, OthersHold
  <2>2. ~ Holds(r)
    BY <1>1 DEF Holds
  <2>3. CASE op \in Uploads /\ active < Limit
    <3>1. Holds(r)' /\ active' = active + 1
      BY <1>2, <1>5, <2>3 DEF Send, Holds
    <3> QED
      BY <2>1, <2>2, <2>3, <3>1, HandlerFacts, SlotsMore
  <2>4. CASE ~ (op \in Uploads /\ active < Limit)
    <3>1. ~ Holds(r)' /\ UNCHANGED active
      BY <1>2, <1>5, <2>4 DEF Send, Holds
    <3> QED
      BY <2>1, <2>2, <3>1, HandlerFacts, SlotsSame
  <2> QED
    BY <2>3, <2>4
<1>8. ASSUME NEW x \in Requests PROVE Sensible(x)' /\ Carried(x)'
  <2>1. CASE x = r
    BY <1>2, <1>3, <1>5, <2>1 DEF Sensible, Carried, Storing
  <2>2. CASE x # r
    BY <1>5, <2>2, CarriedElsewhere DEF IInv, Typed, Reviews, Sensible
  <2> QED
    BY <2>1, <2>2
<1>9. Typed'
  BY <1>5, <1>7, <1>8 DEF Send, access, store, IInv, Typed
<1>10. Journal'
  <2>1. Key(r)'
    BY <1>1, <1>2, <1>3, <1>5, HandlerFacts DEF Send, store, Key, Storing, RollingBack
  <2>2. OnlyKey(r)
    BY HandlerFacts DEF Send, OnlyKey, store
  <2>3. KeysFollow(r)
    BY DEF Send, KeysFollow
  <2> QED
    BY <1>5, <2>1, <2>2, <2>3, JournalStep DEF IInv
<1>11. Locks'
  <2>1. \A o \in open' : /\ req'[o].op = req[o].op /\ req'[o].actor = req[o].actor
                         /\ req'[o].doc = req[o].doc /\ req'[o].row = req[o].row
    <3>1. ASSUME NEW o \in open' PROVE o \in Requests /\ o # r
      BY <1>6 DEF Send, IInv, Typed
    <3> QED
      BY <1>5, <3>1
  <2> QED
    BY <2>1, LocksKept DEF Send, access, IInv
<1>12. Fresh'
  <2>1. docs' = docs
    BY DEF Send
  <2>2. ASSUME NEW x \in Requests PROVE NewDocument(x)'
    <3>1. CASE x = r
      BY <1>2, <1>5, <2>1, <3>1 DEF Send, NewDocument
    <3>2. CASE x # r
      BY <1>5, <2>1, <3>2 DEF NewDocument, IInv, Fresh
    <3> QED
      BY <3>1, <3>2
  <2>3. ASSUME NEW x \in Requests, x # r, req[x].doc = d PROVE docs[d].status # "ABSENT"
    BY <2>3 DEF Send, Live
  <2>4. ASSUME NEW x \in Requests, NEW o \in Requests, req'[x].doc \in Docs,
               req'[x].doc = req'[o].doc, docs'[req'[x].doc].status = "ABSENT"
        PROVE  x = o
    <3>1. CASE x # r /\ o # r
      BY <1>5, <2>1, <2>4, <3>1 DEF IInv, Fresh
    <3>2. CASE x = r /\ o # r
      BY <1>2, <1>5, <2>1, <2>3, <2>4, <3>2
    <3>3. CASE x # r /\ o = r
      BY <1>2, <1>5, <2>1, <2>3, <2>4, <3>3
    <3> QED
      BY <3>1, <3>2, <3>3
  <2> QED
    BY <2>2, <2>4 DEF Fresh
<1>13. Reviews'
  BY <1>8 DEF Send, IInv, Reviews, ReviewedIsSubmitted
<1> QED
  BY <1>7, <1>9, <1>10, <1>11, <1>12, <1>13 DEF IInv

\* An expert is assigned or a user blocked: nobody at COMMIT relied on it.
LEMMA AccessStep ==
  ASSUME IInv, (\E e \in Experts \cup {None} : Reassign(e)) \/ (\E u \in Actors : Block(u))
  PROVE  IInv'
<1>1. UNCHANGED <<docs, req, open, active, submitted, crashes, objects, intents, late>>
  BY DEF Reassign, Block, store
<1>2. assigned' \in Experts \cup {None} /\ blocked' \subseteq Actors
  BY DEF Reassign, Block, IInv, Typed
<1>3. \A r \in Requests : Sensible(r)' /\ Key(r)' /\ Carried(r)'
  BY <1>1 DEF IInv, Typed, Journal, Reviews, Sensible, Key, Carried
<1>4. Typed'
  BY <1>1, <1>2, <1>3 DEF IInv, Typed
<1>5. Journal'
  BY <1>1, <1>3 DEF IInv, Journal
<1>6. Locks'
  <2>1. CASE open = {}
    BY <1>1, <2>1 DEF Locks
  <2>2. ASSUME NEW u \in Actors, Block(u) PROVE Locks'
    BY <2>2 DEF Block, IInv, Locks, MayAccess
  <2> QED
    BY <2>1, <2>2 DEF Reassign
<1>7. Fresh'
  BY <1>1, FreshSame DEF IInv
<1>8. Reviews'
  BY <1>1, <1>3 DEF IInv, Reviews, ReviewedIsSubmitted
<1>9. SlotsHeld'
  BY <1>1, SlotsSame DEF IInv, Holds
<1> QED
  BY <1>4, <1>5, <1>6, <1>7, <1>8, <1>9 DEF IInv

\* The process dies: the database keeps what is at COMMIT, and an upload may still arrive.
LEMMA CrashStep == IInv /\ Crash => IInv'
<1> SUFFICES ASSUME IInv, Crash PROVE IInv'
  OBVIOUS
<1>1. ASSUME NEW r \in Requests
      PROVE  /\ req'[r] \in Handlers /\ req'[r].op = req[r].op /\ req'[r].actor = req[r].actor
             /\ req'[r].doc = req[r].doc /\ req'[r].row = req[r].row
             /\ req'[r].proven = req[r].proven
             /\ req'[r].pc = IF req[r].pc = "IDLE" THEN "IDLE" ELSE "DEAD"
  <2>1. req[r] \in Handlers
    BY HandlerFacts
  <2>2. req'[r] = IF req[r].pc = "IDLE" THEN req[r] ELSE [req[r] EXCEPT !.pc = "DEAD"]
    BY DEF Crash
  <2> QED
    BY <2>1, <2>2 DEF Handlers, PCs
<1>2. ASSUME NEW r \in Requests PROVE Sensible(r)' /\ Carried(r)'
  BY <1>1, HandlerFacts DEF Sensible, Carried, Storing
<1>3. ASSUME NEW r \in Requests PROVE Key(r)'
  <2>1. UNCHANGED <<objects, intents, open>>
    BY DEF Crash
  <2>2. r \in late' <=> r \in late \/ req[r].pc = "PUT"
    BY DEF Crash
  <2> QED
    BY <1>1, <2>1, <2>2, HandlerFacts DEF Key, Storing, RollingBack
<1>4. Typed'
  <2>1. req' \in [Requests -> Handlers]
    <3>1. DOMAIN req' = Requests /\ req' = [r \in Requests |-> req'[r]]
      BY DEF Crash
    <3> QED
      BY <1>1, <3>1
  <2>2. crashes' \in 0..MaxCrashes /\ active' \in Nat /\ late' \subseteq Requests
    BY DocumentsAssumption DEF Crash, IInv, Typed
  <2> QED
    BY <1>2, <2>1, <2>2 DEF Crash, access, IInv, Typed
<1>5. Journal'
  BY <1>3 DEF Crash, IInv, Journal
<1>6. Locks'
  <2>1. \A o \in open' : /\ req'[o].op = req[o].op /\ req'[o].actor = req[o].actor
                         /\ req'[o].doc = req[o].doc /\ req'[o].row = req[o].row
    BY <1>1 DEF Crash, IInv, Typed
  <2> QED
    BY <2>1, LocksKept DEF Crash, access, IInv
<1>7. Fresh'
  BY <1>1, FreshSame DEF Crash, IInv
<1>8. Reviews'
  BY <1>2 DEF Crash, IInv, Reviews, ReviewedIsSubmitted
<1>9. SlotsHeld'
  <2>1. Holders' = {}
    BY <1>1 DEF Holders, Holds
  <2>2. Cardinality(Holders') = 0
    BY <2>1, FS_EmptySet
  <2> QED
    BY <2>2, DocumentsAssumption DEF Crash, SlotsHeld, Holders
<1> QED
  BY <1>4, <1>5, <1>6, <1>7, <1>8, <1>9 DEF IInv

LEMMA StutterStep == IInv /\ UNCHANGED vars => IInv'
<1> SUFFICES ASSUME IInv, UNCHANGED vars PROVE IInv'
  OBVIOUS
<1>1. \A r \in Requests : Sensible(r)' /\ Key(r)' /\ Carried(r)'
  BY DEF vars, IInv, Typed, Journal, Reviews, Sensible, Key, Carried
<1>2. Typed' /\ Journal'
  BY <1>1 DEF vars, IInv, Typed, Journal
<1>3. Locks'
  BY LocksKept DEF vars, IInv
<1>4. Fresh'
  BY FreshSame DEF vars, IInv
<1>5. Reviews'
  BY <1>1 DEF vars, IInv, Reviews, ReviewedIsSubmitted
<1>6. SlotsHeld'
  BY SlotsSame DEF vars, IInv, Holds
<1> QED
  BY <1>2, <1>3, <1>4, <1>5, <1>6 DEF IInv

LEMMA NextInv == IInv /\ [Next]_vars => IInv'
<1> SUFFICES ASSUME IInv, [Next]_vars PROVE IInv'
  OBVIOUS
<1>1. ASSUME NEW r \in Requests, NEW op \in Ops, NEW u \in Actors, NEW d \in Docs,
             Send(r, op, u, d)
      PROVE  IInv'
  BY <1>1, SendStep
<1>2. ASSUME NEW r \in Requests, Persist(r)
      PROVE  IInv'
  BY <1>2, ReadStep, BeginStep, PutStep, TransactStep, DecideStep, LoseCommitStep,
     CompensateStep, RollBackStep, DeleteStep, CleanStep, ArrivesStep DEF Persist
<1>3. ASSUME NEW r \in Requests, Close(r) \/ ReadRow(r) \/ Submit(r) \/ StaffMutate(r)
      PROVE  IInv'
  BY <1>3, CloseStep, ReadRowStep, SubmitStep, StaffMutateStep
<1>4. ASSUME NEW r \in Requests, NEW verdict \in {"APPROVED", "NEEDS_REVISION"},
             Review(r, verdict)
      PROVE  IInv'
  BY <1>4, ReviewStep
<1> QED
  BY <1>1, <1>2, <1>3, <1>4, AccessStep, CrashStep, StutterStep DEF Next

\* The invariant above holds in every reachable state.
THEOREM Invariance == Spec => []IInv
<1> QED
  BY InitInv, NextInv, PTL DEF Spec

\* Every row, intent and handler keeps its type.
THEOREM TypeCorrect == Spec => []TypeOK
<1> QED
  BY Invariance, IInvImplies, PTL

\* However uploads, commits, compensations and crashes interleave, no version of a document loses
\* its file (document.service.ts persistPrivateFile, document-storage-recovery.service.ts).
THEOREM NoVersionLosesItsFile == Spec => []VersionsStored
<1> QED
  BY Invariance, IInvImplies, PTL

\* Every file without a row is on the operators' list, and none is reported as cleaned.
THEOREM EveryOrphanIsObserved == Spec => []OrphansObserved
<1> QED
  BY Invariance, IInvImplies, PTL

\* What is in review, approved or sent back is the version the student submitted.
THEOREM ReviewsFollowSubmissions == Spec => []ReviewedIsSubmitted
<1> QED
  BY Invariance, IInvImplies, PTL

\* A slot of the upload-capacity interceptor is held exactly as long as its upload.
THEOREM SlotsAddUp == Spec => []SlotsHeld
<1> QED
  BY Invariance, IInvImplies, PTL

-----------------------------------------------------------------------------
(* Who writes                                                               *)

Authorised(d) ==
  docs'[d] # docs[d] =>
    /\ ~docs[d].deleted
    /\ req[docs'[d].by].op # "SUBMIT"
         => MayAccess(req[docs'[d].by].actor, req[docs'[d].by].op)

LEMMA WritesStep == IInv /\ [Next]_vars => \A d \in Docs : Authorised(d)
<1> SUFFICES ASSUME IInv, [Next]_vars, NEW d \in Docs, docs'[d] # docs[d]
             PROVE  /\ ~docs[d].deleted
                    /\ req[docs'[d].by].op # "SUBMIT"
                         => MayAccess(req[docs'[d].by].actor, req[docs'[d].by].op)
  BY DEF Authorised
<1>1. \/ \E r \in Requests : Decide(r) \/ Submit(r) \/ StaffMutate(r)
      \/ \E r \in Requests, verdict \in {"APPROVED", "NEEDS_REVISION"} : Review(r, verdict)
  <2>1. ASSUME NEW r \in Requests, NEW op \in Ops, NEW u \in Actors, NEW c \in Docs,
               Send(r, op, u, c)
        PROVE  FALSE
    BY <2>1 DEF Send
  <2>2. ASSUME NEW r \in Requests,
               \/ Read(r) \/ Begin(r) \/ Put(r) \/ Transact(r) \/ LoseCommit(r) \/ Compensate(r)
               \/ RollBack(r) \/ Delete(r) \/ Clean(r) \/ ArrivesLate(r) \/ Close(r) \/ ReadRow(r)
        PROVE  FALSE
    BY <2>2 DEF Read, Begin, Put, Transact, LoseCommit, Compensate, RollBack, Delete, Clean,
       ArrivesLate, Close, ReadRow
  <2>3. ASSUME (\E e \in Experts \cup {None} : Reassign(e)) \/ (\E u \in Actors : Block(u))
                 \/ Crash \/ UNCHANGED vars
        PROVE  FALSE
    BY <2>3 DEF Reassign, Block, Crash, vars
  <2> QED
    BY <2>1, <2>2, <2>3 DEF Next, Persist
<1>2. ASSUME NEW r \in Requests, Decide(r)
      PROVE  /\ ~docs[d].deleted /\ docs'[d].by = r
             /\ MayAccess(req[r].actor, req[r].op)
  <2>1. d = req[r].doc /\ docs'[d] = Stored(r)
    BY <1>2 DEF Decide, IInv, Typed
  <2> QED
    BY <1>2, <2>1 DEF Decide, Stored, IInv, Locks
<1>3. ASSUME NEW r \in Requests, NEW row \in DocRows, Write(r, req[r].doc, row)
      PROVE  d = req[r].doc /\ docs'[d].by = r
  <2>1. d = req[r].doc /\ docs'[d] = [row EXCEPT !.stamp = @ + 1, !.by = r]
    BY <1>3 DEF Write, IInv, Typed
  <2> QED
    BY <2>1 DEF DocRows
<1>4. ASSUME NEW r \in Requests, Submit(r)
      PROVE  ~docs[d].deleted /\ docs'[d].by = r /\ req[r].op = "SUBMIT"
  <2>1. req[r].doc \in Docs /\ docs[req[r].doc] \in DocRows /\ Carried(r)
    BY <1>4, HandlerFacts DEF Submit, Sensible, IInv, Typed
  <2>2. [docs[req[r].doc] EXCEPT !.status = "REVIEW"] \in DocRows
    BY <2>1 DEF DocRows, Statuses
  <2>3. /\ docs[req[r].doc] = req[r].row
        /\ Write(r, req[r].doc, [docs[req[r].doc] EXCEPT !.status = "REVIEW"])
    BY <1>4 DEF Submit
  <2> QED
    BY <1>3, <1>4, <2>1, <2>2, <2>3 DEF Submit, Carried
<1>5. ASSUME NEW r \in Requests, NEW verdict \in {"APPROVED", "NEEDS_REVISION"},
             Review(r, verdict)
      PROVE  ~docs[d].deleted /\ docs'[d].by = r /\ MayAccess(req[r].actor, req[r].op)
  <2>1. req[r].doc \in Docs /\ docs[req[r].doc] \in DocRows /\ Carried(r)
    BY <1>5, HandlerFacts DEF Review, Sensible, IInv, Typed
  <2>2. [docs[req[r].doc] EXCEPT !.status = verdict] \in DocRows
    BY <2>1 DEF DocRows, Statuses
  <2>3. /\ docs[req[r].doc] = req[r].row /\ MayAccess(req[r].actor, "REVIEW")
        /\ Write(r, req[r].doc, [docs[req[r].doc] EXCEPT !.status = verdict])
    BY <1>5 DEF Review
  <2> QED
    BY <1>3, <1>5, <2>1, <2>2, <2>3 DEF Review, Carried
<1>6. ASSUME NEW r \in Requests, StaffMutate(r)
      PROVE  ~docs[d].deleted /\ docs'[d].by = r /\ MayAccess(req[r].actor, req[r].op)
  <2>1. req[r].doc \in Docs /\ docs[req[r].doc] \in DocRows
    BY <1>6, HandlerFacts DEF StaffMutate, Sensible, IInv, Typed
  <2>2. [docs[req[r].doc] EXCEPT !.deleted = req[r].op = "ARCHIVE"] \in DocRows
    BY <2>1 DEF DocRows
  <2>3. /\ MayAccess(req[r].actor, req[r].op) /\ Live(req[r].doc)
        /\ Write(r, req[r].doc, [docs[req[r].doc] EXCEPT !.deleted = req[r].op = "ARCHIVE"])
    BY <1>6 DEF StaffMutate
  <2> QED
    BY <1>3, <2>2, <2>3 DEF Live
<1> QED
  BY <1>1, <1>2, <1>4, <1>5, <1>6

\* A document is written by someone who may access the student at that moment, and an archived one
\* by nobody.
THEOREM WritesAreAuthorised == Spec => WritesAuthorised
<1>1. IInv /\ [Next]_vars =>
        [\A d \in Docs : docs'[d] # docs[d] =>
           LET r == docs'[d].by IN
           /\ ~docs[d].deleted
           /\ req[r].op # "SUBMIT" => MayAccess(req[r].actor, req[r].op)]_vars
  BY WritesStep DEF Authorised
<1> QED
  BY <1>1, Invariance, PTL DEF Spec, WritesAuthorised

-----------------------------------------------------------------------------
(* The documents are the store                                              *)

\* What the store sees of a row, and the keys it keeps.
View(row) == [key |-> row.key, status |-> row.status, version |-> row.version,
              deleted |-> row.deleted]
Rows == [d \in Docs |-> View(docs[d])]
Files == {k \in objects : intents[k] = "COMMITTED"}

\* Writing one row is one change of the view.
LEMMA OneRow ==
  ASSUME NEW d \in Docs, NEW row, docs' = [docs EXCEPT ![d] = row], docs \in [Docs -> DocRows]
  PROVE  Rows' = [Rows EXCEPT ![d] = View(row)]
BY DEF Rows, View

\* A step that changes neither the view, the kept files nor the access is no step of the store.
LEMMA Stutters ==
  ASSUME docs' = docs, Files' = Files, UNCHANGED access
  PROVE  UNCHANGED Documents!vars
BY DEF Documents!vars, Rows, View, Files, access

\* The actor of a route that was let in is the student or one of the staff.
LEMMA Acts ==
  ASSUME NEW u \in Actors, NEW op, MayAccess(u, op), assigned \in Experts \cup {None}
  PROVE  /\ Documents!ByStudent \/ Documents!ByStaff
         /\ op \notin Self => Documents!ByStaff
BY DocumentsAssumption DEF MayAccess, Documents!ByStudent, Documents!ByStaff, Actors

\* Some documents were stored before.
LEMMA InitRefines == Init => Documents!Init
<1> SUFFICES ASSUME Init PROVE Documents!Init
  OBVIOUS
<1>1. ASSUME NEW d \in Docs
      PROVE  \/ Rows[d] = Documents!NoVersion
             \/ Rows[d].key \in Files /\ Rows[d].version = 1 /\ ~Rows[d].deleted
  <2>1. docs[d] \in {Absent} \cup {Earlier(c, st) : c \in Docs, st \in Statuses}
    BY DEF Init
  <2>2. CASE docs[d] = Absent
    <3>1. Rows[d] = View(Absent)
      BY <2>2 DEF Rows
    <3>2. View(Absent) = Documents!NoVersion
      BY DEF View, Absent, Documents!NoVersion
    <3> QED
      BY <3>1, <3>2
  <2>3. ASSUME NEW c \in Docs, NEW st \in Statuses, docs[d] = Earlier(c, st)
        PROVE  Rows[d].key \in Files /\ Rows[d].version = 1 /\ ~Rows[d].deleted
    <3>1. docs[d] = [key |-> c, status |-> st, version |-> 1, stamp |-> 1, deleted |-> FALSE,
                     by |-> None]
      BY <2>3 DEF Earlier, Absent
    <3>2. c = d
      BY <3>1, DocumentsAssumption DEF Init
    <3>3. d \in objects /\ intents[d] = "COMMITTED"
      BY <3>1 DEF Init, Absent, Keys
    <3> QED
      BY <3>1, <3>2, <3>3 DEF Rows, View, Files
  <2> QED
    BY <2>1, <2>2, <2>3
<1>2. Files \subseteq {Rows[d].key : d \in Docs}
  <2> SUFFICES ASSUME NEW k \in Files PROVE k \in Docs /\ Rows[k].key = k
    OBVIOUS
  <2>1. k \in Docs /\ docs[k] # Absent
    BY DEF Files, Init
  <2>2. docs[k].key \in {None, k}
    BY <2>1 DEF Init
  <2>3. PICK c \in Docs, st \in Statuses : docs[k] = Earlier(c, st)
    BY <2>1 DEF Init
  <2>4. docs[k].key # None
    BY <2>3, DocumentsAssumption DEF Earlier, Absent
  <2> QED
    BY <2>1, <2>2, <2>4 DEF Rows, View
<1>3. assigned \in Experts \cup {None} /\ blocked = {}
  BY DEF Init
<1> QED
  BY <1>1, <1>2, <1>3 DEF Documents!Init, Documents!NoVersion, Rows, View, Files

\* Until its COMMIT an upload moves a file the store does not know, or none.
LEMMA QuietRefines ==
  ASSUME IInv, NEW r \in Requests,
         \/ Read(r) \/ Begin(r) \/ Put(r) \/ Transact(r) \/ LoseCommit(r) \/ Compensate(r)
         \/ RollBack(r) \/ Delete(r) \/ Clean(r) \/ ArrivesLate(r) \/ Close(r) \/ ReadRow(r)
  PROVE  UNCHANGED Documents!vars
<1>1. /\ Key(r) /\ r \in Keys
      /\ \A k \in Keys : intents[k] = "COMMITTED" => k \in objects
      /\ intents \in [Keys -> {"NONE", "PENDING", "ROLLED_BACK", "COMMITTED", "CLEANED"}]
      /\ objects \subseteq Keys
  BY DEF IInv, Typed, Journal, Keys
<1>2. docs' = docs /\ UNCHANGED access
  BY DEF Read, Begin, Put, Transact, LoseCommit, Compensate, RollBack, Delete, Clean, ArrivesLate,
     Close, ReadRow
<1>3. Files' = Files
  <2>1. CASE Read(r) \/ Transact(r) \/ LoseCommit(r) \/ Compensate(r) \/ Close(r) \/ ReadRow(r)
    BY <2>1 DEF Read, Transact, LoseCommit, Compensate, Close, ReadRow, store, Files
  <2>2. CASE Begin(r)
    BY <1>1, <2>2 DEF Begin, Files, Key
  <2>3. CASE Put(r)
    BY <1>1, <2>3 DEF Put, Files, Key
  <2>4. CASE ArrivesLate(r)
    BY <1>1, <2>4 DEF ArrivesLate, Files
  <2>5. CASE RollBack(r)
    BY <1>1, <2>5 DEF RollBack, Files
  <2>6. CASE Delete(r)
    BY <1>1, <2>6 DEF Delete, Files, Key
  <2>7. CASE Clean(r)
    BY <1>1, <2>7 DEF Clean, Files, Key
  <2> QED
    BY <2>1, <2>2, <2>3, <2>4, <2>5, <2>6, <2>7
<1> QED
  BY <1>2, <1>3, Stutters

\* The commit stores a version; a COMMIT that is refused stores nothing.
LEMMA DecideRefines ==
  ASSUME IInv, NEW r \in Requests, Decide(r)
  PROVE  [Documents!Next]_(Documents!vars)
<1> DEFINE d == req[r].doc
<1>1. /\ Key(r) /\ r \in Keys /\ r \in open /\ d \in Docs
      /\ docs \in [Docs -> DocRows] /\ assigned \in Experts \cup {None}
      /\ intents \in [Keys -> {"NONE", "PENDING", "ROLLED_BACK", "COMMITTED", "CLEANED"}]
  BY HandlerFacts DEF Decide, IInv, Typed, Journal, Keys, Key, Sensible
<1>2. /\ MayAccess(req[r].actor, req[r].op) /\ req[r].actor \in Actors
      /\ docs[d] = req[r].row /\ ~docs[d].deleted
  BY <1>1, HandlerFacts DEF IInv, Typed, Locks, Sensible, Key
<1>3. intents[r] = "PENDING" /\ r \in objects
  BY <1>1 DEF Key
<1>4. CASE UNCHANGED <<docs, intents>>
  BY <1>4, Stutters DEF Decide, Files
<1>5. CASE /\ docs' = [docs EXCEPT ![d] = Stored(r)]
           /\ intents' = [intents EXCEPT ![r] = "COMMITTED"]
  <2>1. Documents!ByStudent \/ Documents!ByStaff
    BY <1>1, <1>2, Acts
  <2>2. Rows[d] = View(docs[d]) /\ Rows[d].version = docs[d].version
    BY <1>1 DEF Rows, View
  <2>3. View(Stored(r)) = [key |-> r, status |-> "DRAFT", version |-> Rows[d].version + 1,
                           deleted |-> FALSE]
    BY <1>2, <2>2 DEF View, Stored
  <2>4. Rows' = [Rows EXCEPT ![d] = View(Stored(r))]
    BY <1>1, <1>5, OneRow
  <2>5. r \notin Files /\ Files' = Files \cup {r}
    BY <1>1, <1>3, <1>5 DEF Files, Decide
  <2>6. ~Rows[d].deleted
    BY <1>2, <2>2 DEF View
  <2>7. Documents!Store(d, r)
    BY <2>1, <2>3, <2>4, <2>5, <2>6 DEF Documents!Store, Rows, View, Files, Decide, access
  <2> QED
    BY <1>1, <2>7 DEF Documents!Next
<1> QED
  BY <1>4, <1>5 DEF Decide

\* A conditional write changes one row's view, and nothing else the store sees.
LEMMA WriteRefines ==
  ASSUME IInv, NEW r \in Requests, NEW row \in DocRows, Write(r, req[r].doc, row),
         req[r].doc \in Docs, UNCHANGED <<access, objects, intents>>
  PROVE  /\ Rows' = [Rows EXCEPT ![req[r].doc] = View(row)]
         /\ Files' = Files /\ UNCHANGED <<assigned, blocked>>
<1>1. View([row EXCEPT !.stamp = @ + 1, !.by = r]) = View(row)
  BY DEF View, DocRows
<1>2. docs' = [docs EXCEPT ![req[r].doc] = [row EXCEPT !.stamp = @ + 1, !.by = r]]
  BY DEF Write
<1>3. docs \in [Docs -> DocRows]
  BY DEF IInv, Typed
<1> QED
  BY <1>1, <1>2, <1>3, OneRow DEF Files, access

\* Submitting, for the version that was read and is still there.
LEMMA SubmitRefines ==
  ASSUME IInv, NEW r \in Requests, Submit(r)
  PROVE  [Documents!Next]_(Documents!vars)
<1> DEFINE d == req[r].doc
           row == [docs[d] EXCEPT !.status = "REVIEW"]
<1>1. d \in Docs /\ docs[d] \in DocRows /\ Carried(r)
  BY HandlerFacts DEF Submit, Sensible, IInv, Typed
<1>2. CASE docs' = docs
  BY <1>2, Stutters DEF Submit, store, Files
<1>3. CASE docs[d] = req[r].row /\ Write(r, d, row)
  <2>1. row \in DocRows /\ View(row) = [View(docs[d]) EXCEPT !.status = "REVIEW"]
    BY <1>1 DEF DocRows, Statuses, View
  <2>2. /\ Rows' = [Rows EXCEPT ![d] = View(row)]
        /\ Files' = Files /\ UNCHANGED <<assigned, blocked>>
    BY <1>1, <1>3, <2>1, WriteRefines DEF Submit, store
  <2>3. Rows[d] = View(docs[d])
    BY <1>1 DEF Rows
  <2>4. docs[d].status = "DRAFT" /\ ~docs[d].deleted
    BY <1>1, <1>3 DEF Carried, Submit
  <2>5. Rows[d].status = "DRAFT" /\ ~Rows[d].deleted
    BY <2>3, <2>4 DEF View
  <2>6. PICK c \in Docs : c = d
    BY <1>1
  <2>7. Documents!Submit(c)
    BY <2>1, <2>2, <2>3, <2>5, <2>6 DEF Documents!Submit, Rows, View, Files
  <2> QED
    BY <2>7 DEF Documents!Next
<1> QED
  BY <1>2, <1>3 DEF Submit

\* A verdict, by one of the staff, on the version that was read and is still there.
LEMMA ReviewRefines ==
  ASSUME IInv, NEW r \in Requests, NEW verdict \in {"APPROVED", "NEEDS_REVISION"},
         Review(r, verdict)
  PROVE  [Documents!Next]_(Documents!vars)
<1> DEFINE d == req[r].doc
           row == [docs[d] EXCEPT !.status = verdict]
<1>1. /\ d \in Docs /\ docs[d] \in DocRows /\ Carried(r) /\ req[r].actor \in Actors
      /\ assigned \in Experts \cup {None}
  BY HandlerFacts DEF Review, Sensible, IInv, Typed
<1>2. CASE docs' = docs
  BY <1>2, Stutters DEF Review, store, Files
<1>3. CASE docs[d] = req[r].row /\ MayAccess(req[r].actor, "REVIEW") /\ Write(r, d, row)
  <2>1. row \in DocRows /\ View(row) = [View(docs[d]) EXCEPT !.status = verdict]
    BY <1>1 DEF DocRows, Statuses, View
  <2>2. /\ Rows' = [Rows EXCEPT ![d] = View(row)]
        /\ Files' = Files /\ UNCHANGED <<assigned, blocked>>
    BY <1>1, <1>3, <2>1, WriteRefines DEF Review, store
  <2>3. Rows[d] = View(docs[d])
    BY <1>1 DEF Rows
  <2>4. docs[d].status = "REVIEW" /\ ~docs[d].deleted
    BY <1>1, <1>3 DEF Carried, Review
  <2>5. Rows[d].status = "REVIEW" /\ ~Rows[d].deleted
    BY <2>3, <2>4 DEF View
  <2>6. Documents!ByStaff
    BY <1>1, <1>3, Acts DEF Self
  <2>7. Documents!Review(d, verdict)
    BY <2>1, <2>2, <2>3, <2>5, <2>6 DEF Documents!Review, Rows, View, Files
  <2> QED
    BY <1>1, <2>7 DEF Documents!Next
<1> QED
  BY <1>2, <1>3 DEF Review

\* Archiving hides the row; renaming is no step of the store.
LEMMA StaffMutateRefines ==
  ASSUME IInv, NEW r \in Requests, StaffMutate(r)
  PROVE  [Documents!Next]_(Documents!vars)
<1> DEFINE d == req[r].doc
           row == [docs[d] EXCEPT !.deleted = req[r].op = "ARCHIVE"]
<1>1. /\ d \in Docs /\ docs[d] \in DocRows /\ req[r].actor \in Actors
      /\ assigned \in Experts \cup {None}
  BY HandlerFacts DEF StaffMutate, Sensible, IInv, Typed
<1>2. CASE docs' = docs
  BY <1>2, Stutters DEF StaffMutate, store, Files
<1>3. CASE MayAccess(req[r].actor, req[r].op) /\ Live(d) /\ Write(r, d, row)
  <2>1. row \in DocRows
    BY <1>1 DEF DocRows
  <2>2. View(row) = [View(docs[d]) EXCEPT !.deleted = (req[r].op = "ARCHIVE")]
    BY <1>1 DEF DocRows, View
  <2>3. /\ Rows' = [Rows EXCEPT ![d] = View(row)]
        /\ Files' = Files /\ UNCHANGED <<assigned, blocked>>
    BY <1>1, <1>3, <2>1, WriteRefines DEF StaffMutate, store
  <2>4. Rows[d] = View(docs[d]) /\ Rows[d].status # "ABSENT" /\ ~Rows[d].deleted
    BY <1>1, <1>3 DEF Rows, View, Live
  <2>5. CASE req[r].op = "RENAME"
    <3>1. View(row) = View(docs[d])
      BY <1>1, <2>2, <2>4, <2>5 DEF View, DocRows, Live
    <3>2. Rows' = Rows
      BY <1>1, <2>3, <2>4, <3>1 DEF Rows
    <3> QED
      BY <2>3, <3>2 DEF Documents!vars, Rows, View, Files
  <2>6. CASE req[r].op = "ARCHIVE"
    <3>1. Documents!ByStaff
      BY <1>1, <1>3, <2>6, Acts DEF Self
    <3>2. PICK c \in Docs : c = d
      BY <1>1
    <3>3. Documents!Archive(c)
      BY <2>2, <2>3, <2>4, <2>6, <3>1, <3>2 DEF Documents!Archive, Rows, View, Files
    <3> QED
      BY <3>3 DEF Documents!Next
  <2> QED
    BY <2>5, <2>6 DEF StaffMutate
<1> QED
  BY <1>2, <1>3 DEF StaffMutate

\* Every step of the requests is a step of the store, or none.
LEMMA StepRefines ==
  ASSUME IInv, [Next]_vars
  PROVE  [Documents!Next]_(Documents!vars)
<1>1. ASSUME NEW r \in Requests, NEW op \in Ops, NEW u \in Actors, NEW d \in Docs,
             Send(r, op, u, d)
      PROVE  UNCHANGED Documents!vars
  BY <1>1, Stutters DEF Send, store, Files
<1>2. ASSUME NEW r \in Requests, Persist(r)
      PROVE  [Documents!Next]_(Documents!vars)
  BY <1>2, QuietRefines, DecideRefines DEF Persist
<1>3. ASSUME NEW r \in Requests, Close(r) \/ ReadRow(r) \/ Submit(r) \/ StaffMutate(r)
      PROVE  [Documents!Next]_(Documents!vars)
  BY <1>3, QuietRefines, SubmitRefines, StaffMutateRefines
<1>4. ASSUME NEW r \in Requests, NEW verdict \in {"APPROVED", "NEEDS_REVISION"},
             Review(r, verdict)
      PROVE  [Documents!Next]_(Documents!vars)
  BY <1>4, ReviewRefines
<1>5. ASSUME NEW e \in Experts \cup {None}, Reassign(e)
      PROVE  Documents!Next
  <2>1. Documents!Reassign(e)
    BY <1>5 DEF Reassign, Documents!Reassign, store
  <2> QED
    BY <2>1 DEF Documents!Next
<1>6. ASSUME NEW u \in Actors, Block(u)
      PROVE  Documents!Next
  <2>1. Documents!Block(u)
    BY <1>6 DEF Block, Documents!Block, store
  <2> QED
    BY <2>1 DEF Documents!Next, Actors
<1>7. CASE Crash \/ UNCHANGED vars
  BY <1>7, Stutters DEF Crash, vars, access, Files
<1> QED
  BY <1>1, <1>2, <1>3, <1>4, <1>5, <1>6, <1>7 DEF Next

\* Uploads, replacements, reviews, compensations and crashes together implement the store: for any
\* documents, requests, experts, slots and crashes.
THEOREM ImplementsStore == Spec => StoredWhole
<1>1. IInv /\ [Next]_vars => [Documents!Next]_(Documents!vars)
  BY StepRefines
<1> QED
  BY <1>1, InitRefines, Invariance, PTL DEF Spec, StoredWhole, Documents!Spec

=============================================================================
