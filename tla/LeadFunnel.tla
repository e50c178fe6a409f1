------------------------------ MODULE LeadFunnel ------------------------------
(***************************************************************************)
(* What the sales funnel promises of one lead, without a row of calls,     *)
(* callbacks, reminders or previews: a lead has at most one appointment    *)
(* ahead, a callback by Sales or a call with its expert; whoever makes     *)
(* one, moves it, answers it or closes it moves the lead's column on the   *)
(* board in the same step; a contract is prepared, signed and confirmed    *)
(* with nothing ahead, and carries the terms that were signed.             *)
(***************************************************************************)
CONSTANTS
  Managers,
  Experts,
  Times,
  Terms,
  None

VARIABLES
  stage,        \* the lead's column on the board
  owner,        \* its Sales manager
  expert,       \* its expert
  appointment,  \* the one appointment ahead, if any
  draft,        \* the contract being prepared
  contract      \* the terms of the contract

vars == <<stage, owner, expert, appointment, draft, contract>>

Formats == {"ONLINE", "OFFICE"}
Callback(t) == [kind |-> "CALLBACK", time |-> t]
Call(e, f, confirmed) == [kind |-> "CALL", expert |-> e, format |-> f, confirmed |-> confirmed]

Init ==
  /\ stage = "NEW"
  /\ owner = None /\ expert = None
  /\ appointment = {}
  /\ draft = [status |-> "NONE", terms |-> None]
  /\ contract = None

Consulting == {"CALL_SCHEDULED", "OFFICE_INVITED"}
Column(f) == IF f = "OFFICE" THEN "OFFICE_INVITED" ELSE "CALL_SCHEDULED"

InFunnel == owner # None /\ stage \notin {"CONTRACT_PENDING", "CONVERTED"}

Claim(m) ==
  /\ stage = "NEW" /\ owner = None
  /\ owner' = m
  /\ UNCHANGED <<stage, expert, appointment, draft, contract>>

\* A callback, new or moved, takes the place of whatever was ahead.
PlanCallback(t) ==
  /\ InFunnel
  /\ appointment' = {Callback(t)}
  /\ stage' = "RECALL"
  /\ UNCHANGED <<owner, expert, draft, contract>>

\* Kept or called off.
EndCallback ==
  /\ InFunnel
  /\ \E a \in appointment : a.kind = "CALLBACK" /\ appointment = {a}
  /\ appointment' = {}
  /\ stage' = IF expert # None THEN "RECALL" ELSE "NEW"
  /\ UNCHANGED <<owner, expert, draft, contract>>

Reject ==
  /\ InFunnel
  /\ appointment' = {}
  /\ stage' = "REJECTED"
  /\ UNCHANGED <<owner, expert, draft, contract>>

\* A call takes the place of a callback, never of another call.
Book(e, f) ==
  /\ InFunnel
  /\ \A a \in appointment : a.kind = "CALLBACK"
  /\ appointment' = {Call(e, f, FALSE)}
  /\ expert' = e
  /\ stage' = Column(f)
  /\ UNCHANGED <<owner, draft, contract>>

Move(f, e) ==
  /\ appointment = {Call(expert, f, FALSE)} /\ stage = Column(f)
  /\ appointment' = {Call(e, f, FALSE)}
  /\ expert' = e
  /\ UNCHANGED <<stage, owner, draft, contract>>

Confirm(f) ==
  /\ appointment = {Call(expert, f, FALSE)} /\ stage = Column(f)
  /\ appointment' = {Call(expert, f, TRUE)}
  /\ UNCHANGED <<stage, owner, expert, draft, contract>>

\* Declined or over: the lead goes back to Sales.
CallEnds(f, confirmed, st) ==
  /\ appointment = {Call(expert, f, confirmed)} /\ stage = Column(f)
  /\ st = "NEW" => ~confirmed
  /\ appointment' = {}
  /\ stage' = st
  /\ UNCHANGED <<owner, expert, draft, contract>>

\* A call that the expert has not answered is in the way of a contract.
Prepare(t) ==
  /\ expert # None
  /\ stage \in Consulting \cup {"RECALL", "CONTRACT_PENDING"}
  /\ stage = "CONTRACT_PENDING" <=> draft.status # "NONE"
  /\ draft.status # "SIGNED"
  /\ \A a \in appointment : a.kind = "CALL" => a.confirmed
  /\ appointment' = {}
  /\ draft' = [status |-> "UNSIGNED", terms |-> t]
  /\ stage' = "CONTRACT_PENDING"
  /\ UNCHANGED <<owner, expert, contract>>

Sign ==
  /\ stage = "CONTRACT_PENDING"
  /\ draft' = [draft EXCEPT !.status = "SIGNED"]
  /\ UNCHANGED <<stage, owner, expert, appointment, contract>>

Convert ==
  /\ stage = "CONTRACT_PENDING" /\ appointment = {}
  /\ draft' = [draft EXCEPT !.status = "SIGNED"]
  /\ contract' = draft.terms
  /\ stage' = "CONVERTED"
  /\ UNCHANGED <<owner, expert, appointment>>

Next ==
  \/ \E m \in Managers : Claim(m)
  \/ \E t \in Times : PlanCallback(t)
  \/ EndCallback
  \/ Reject
  \/ \E f \in Formats :
       \/ \E e \in Experts : Book(e, f) \/ Move(f, e)
       \/ Confirm(f)
       \/ \E confirmed \in BOOLEAN, st \in {"NEW", "RECALL"} : CallEnds(f, confirmed, st)
  \/ \E t \in Terms : Prepare(t)
  \/ Sign
  \/ Convert

Spec == Init /\ [][Next]_vars

=============================================================================
