---------------------------- MODULE DocumentStore ----------------------------
(***************************************************************************)
(* What the private documents of one student promise, as if a request were *)
(* one step and nothing ever failed: a version is stored whole or not at   *)
(* all, by someone who may access the student at that moment; it follows   *)
(* the version before it; its file is new and is kept for good; its review *)
(* goes from DRAFT through REVIEW to a verdict; an archived document is    *)
(* left alone.                                                             *)
(***************************************************************************)
EXTENDS Naturals

CONSTANTS
  Docs,
  Keys,      \* storage keys
  Experts,
  Student,
  Admin,
  None

VARIABLES
  rows,      \* the current version per document
  files,     \* keys whose file is kept
  assigned,  \* the student's expert
  blocked    \* users who have lost every access

vars == <<rows, files, assigned, blocked>>

NoVersion == [key |-> None, status |-> "ABSENT", version |-> 0, deleted |-> FALSE]

Init ==
  /\ \A d \in Docs :
       \/ rows[d] = NoVersion
       \/ rows[d].key \in files /\ rows[d].version = 1 /\ ~rows[d].deleted
  /\ files \subseteq {rows[d].key : d \in Docs}
  /\ assigned \in Experts \cup {None}
  /\ blocked = {}

ByStudent == Student \notin blocked
ByStaff == \E u \in Experts \cup {Admin} : u \notin blocked /\ u \in {Admin, assigned}

\* upload, newVersion, staffUpload, staffNewVersion: nothing is overwritten unseen.
Store(d, k) ==
  /\ ByStudent \/ ByStaff
  /\ ~rows[d].deleted
  /\ k \notin files
  /\ files' = files \cup {k}
  /\ rows' = [rows EXCEPT ![d] = [key |-> k, status |-> "DRAFT", version |-> @.version + 1,
                                  deleted |-> FALSE]]
  /\ UNCHANGED <<assigned, blocked>>

Submit(d) ==
  /\ rows[d].status = "DRAFT" /\ ~rows[d].deleted
  /\ rows' = [rows EXCEPT ![d].status = "REVIEW"]
  /\ UNCHANGED <<files, assigned, blocked>>

Review(d, verdict) ==
  /\ ByStaff
  /\ rows[d].status = "REVIEW" /\ ~rows[d].deleted
  /\ rows' = [rows EXCEPT ![d].status = verdict]
  /\ UNCHANGED <<files, assigned, blocked>>

Archive(d) ==
  /\ ByStaff
  /\ rows[d].status # "ABSENT" /\ ~rows[d].deleted
  /\ rows' = [rows EXCEPT ![d].deleted = TRUE]
  /\ UNCHANGED <<files, assigned, blocked>>

Reassign(e) == assigned' = e /\ UNCHANGED <<rows, files, blocked>>
Block(u) == blocked' = blocked \cup {u} /\ UNCHANGED <<rows, files, assigned>>

Next ==
  \/ \E d \in Docs :
       \/ \E k \in Keys : Store(d, k)
       \/ Submit(d) \/ Archive(d)
       \/ \E verdict \in {"APPROVED", "NEEDS_REVISION"} : Review(d, verdict)
  \/ \E e \in Experts \cup {None} : Reassign(e)
  \/ \E u \in Experts \cup {Student, Admin} : Block(u)

Spec == Init /\ [][Next]_vars

=============================================================================
