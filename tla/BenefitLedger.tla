---------------------------- MODULE BenefitLedger ----------------------------
(***************************************************************************)
(* What the enrolment of a student promises about paid services: the slots *)
(* of the student's packages grow by one tier, with the student's expert,  *)
(* for one reason (a contract confirmed at the desk or an order paid       *)
(* online); no reason counts twice, none without its tier, and who pays    *)
(* never changes the expert of a student who has one.                      *)
(***************************************************************************)
EXTENDS Naturals

CONSTANTS
  Sources,  \* contracts and orders
  Owners,   \* experts
  Tier,     \* consultations a tier is worth
  None      \* no expert

VARIABLES
  expert,   \* who looks after the student
  issued,   \* the sources that brought their benefits
  slots     \* StudentPackage.totalSlots per expert

Init ==
  /\ expert \in Owners \cup {None}
  /\ issued \subseteq Sources
  /\ slots \in [Owners -> Nat]

\* The tier goes to e, the student's expert from then on; a student nobody looks after has no package.
Issue(s, e) ==
  /\ s \notin issued
  /\ expert \in {None, e}
  /\ expert' = e
  /\ issued' = issued \cup {s}
  /\ slots' = [o \in Owners |-> IF o = e THEN slots[o] + Tier ELSE slots[o]]

Assign(e) ==
  /\ expert' = e
  /\ UNCHANGED <<issued, slots>>

Next ==
  \/ \E s \in Sources, e \in Owners \cup {None} : Issue(s, e)
  \/ \E e \in Owners : Assign(e)

Spec == Init /\ [][Next]_<<expert, issued, slots>>

=============================================================================
