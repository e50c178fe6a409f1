-------------------------- MODULE OneTimeInvitation --------------------------
(***************************************************************************)
(* What an activation invitation promises the student and the expert,      *)
(* without queue, workers or jobs: links go out for versions that exist, a *)
(* version is recorded as delivered only after its link went out, a newer  *)
(* version starts undelivered, and one password is set, with a link, while *)
(* the current version is valid.  After that the invitation is closed:     *)
(* links may still arrive, but nothing is recorded, renewed or redeemed.   *)
(*                                                                         *)
(* A redemption is admitted while the account exists.  It is not promised  *)
(* that the account still exists when the password is set a moment later.  *)
(***************************************************************************)
EXTENDS Naturals

CONSTANTS MaxVersion, Requests

VARIABLES
  version,    \* the version the expert asked for last
  delivered,  \* whether it is recorded as delivered
  links,      \* versions whose link went out
  expired,    \* versions up to this one have expired
  account,    \* whether the student's account exists
  admitted,   \* redemptions that found the account
  passwords   \* how often a password was set through the invitation

vars == <<version, delivered, links, expired, account, admitted, passwords>>

Init ==
  /\ version = 1 /\ delivered = FALSE
  /\ links = {} /\ expired = 0
  /\ account = TRUE /\ admitted = {} /\ passwords = 0

Mail(v) ==
  /\ v <= version
  /\ links' = links \cup {v}
  /\ UNCHANGED <<version, delivered, expired, account, admitted, passwords>>

Record ==
  /\ ~delivered /\ passwords = 0
  /\ version \in links
  /\ delivered' = TRUE
  /\ UNCHANGED <<version, links, expired, account, admitted, passwords>>

Renew ==
  /\ version < MaxVersion /\ passwords = 0
  /\ version' = version + 1 /\ delivered' = FALSE
  /\ UNCHANGED <<links, expired, account, admitted, passwords>>

Admit(r) ==
  /\ account /\ links # {}
  /\ r \notin admitted
  /\ admitted' = admitted \cup {r}
  /\ UNCHANGED <<version, delivered, links, expired, account, passwords>>

Open == passwords = 0 /\ version > expired

\* Of those admitted the first to come while the invitation is open sets the password ...
Redeem(r) ==
  /\ r \in admitted /\ Open
  /\ passwords' = 1
  /\ admitted' = admitted \ {r}
  /\ UNCHANGED <<version, delivered, links, expired, account>>

\* ... and nobody is turned away as long as it is.
TurnAway(r) ==
  /\ r \in admitted /\ ~Open
  /\ admitted' = admitted \ {r}
  /\ UNCHANGED <<version, delivered, links, expired, account, passwords>>

Expire ==
  /\ version > expired
  /\ expired' = expired + 1
  /\ UNCHANGED <<version, delivered, links, account, admitted, passwords>>

BlockOrRestore ==
  /\ account' = ~account
  /\ UNCHANGED <<version, delivered, links, expired, admitted, passwords>>

Next ==
  \/ \E v \in 1..MaxVersion : Mail(v)
  \/ \E r \in Requests : Admit(r) \/ Redeem(r) \/ TurnAway(r)
  \/ Record \/ Renew
  \/ Expire \/ BlockOrRestore

Spec == Init /\ [][Next]_vars

=============================================================================
