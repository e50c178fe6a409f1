------------------------------ MODULE MailOutbox ------------------------------
(***************************************************************************)
(* What the outbox of a call's mails promises, without workers, leases or  *)
(* crashes: the mail of the present schedule is tried at most MaxAttempts  *)
(* times, at most one copy goes out per attempt, and it is settled once:   *)
(* as sent when a copy went out, as failed when the attempts are used up,  *)
(* as cancelled at any time.  An attempt that has begun may still bring a  *)
(* copy after that, but no attempt begins.                                 *)
(***************************************************************************)
EXTENDS Naturals

CONSTANTS
  Schedules,   \* the call's schedules, numbered as they follow each other
  MaxAttempts

VARIABLES
  current,  \* the present schedule
  outcome,  \* what became of each schedule's mail
  tries,
  copies

vars == <<current, outcome, tries, copies>>

Init ==
  /\ current = 0
  /\ outcome = [s \in Schedules |-> IF s = 0 THEN "OPEN" ELSE "ABSENT"]
  /\ tries = [s \in Schedules |-> 0]
  /\ copies = [s \in Schedules |-> 0]

\* The call is moved.
Move ==
  /\ current + 1 \in Schedules
  /\ current' = current + 1
  /\ outcome' = [s \in Schedules |-> IF s = current + 1 THEN "OPEN"
                                     ELSE IF outcome[s] = "OPEN" THEN "CANCELLED" ELSE outcome[s]]
  /\ UNCHANGED <<tries, copies>>

Attempt ==
  /\ outcome[current] = "OPEN"
  /\ tries[current] < MaxAttempts
  /\ tries' = [tries EXCEPT ![current] = @ + 1]
  /\ UNCHANGED <<current, outcome, copies>>

Mail(s) ==
  /\ copies[s] < tries[s]
  /\ copies' = [copies EXCEPT ![s] = @ + 1]
  /\ UNCHANGED <<current, outcome, tries>>

Settle(st) ==
  /\ outcome[current] = "OPEN"
  /\ st = "SENT" => copies[current] > 0
  /\ st = "FAILED" => tries[current] = MaxAttempts
  /\ outcome' = [outcome EXCEPT ![current] = st]
  /\ UNCHANGED <<current, tries, copies>>

Next ==
  \/ Move
  \/ Attempt
  \/ \E s \in Schedules : Mail(s)
  \/ \E st \in {"SENT", "CANCELLED", "FAILED"} : Settle(st)

Spec == Init /\ [][Next]_vars

=============================================================================
