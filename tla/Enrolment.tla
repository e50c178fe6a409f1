------------------------------ MODULE Enrolment ------------------------------
(***************************************************************************)
(* One student's way into the paid services: contracts signed on paper and *)
(* paid at the desk in one or more instalments, orders paid through the    *)
(* gateway by the students who signed online before, and the benefits both *)
(* bring: the subscription, the expert and the consultation package.       *)
(*                                                                         *)
(* Every writer of a contract and the settlement of an order are           *)
(* Serializable transactions and single steps here; checks that precede    *)
(* them in statements of their own (checkout, booking) are steps of their  *)
(* own.  Signing online is switched off, so a contract that was signed     *)
(* online exists from the start.  All contracts are of one paid tariff and *)
(* the student's account is not deleted.                                   *)
(***************************************************************************)
EXTENDS Naturals, Sequences, FiniteSets

CONSTANTS
  Contracts,    \* identities of Contract rows
  Orders,       \* identities of Transaction rows
  Payments,     \* the provider's payment ids
  Experts,      \* consultant profiles
  Admin,
  Tier,         \* TIER_SLOTS of the tariff
  Parts,        \* instalments of an INSTALLMENT contract
  MaxDate,      \* bound: dates are 1..MaxDate, all of them past
  MaxBookings,  \* bound: consultations booked
  None

ASSUME EnrolmentAssumption ==
  /\ Tier \in Nat \ {0} /\ Parts \in Nat \ {0, 1} /\ MaxDate \in Nat \ {0} /\ MaxBookings \in Nat
  /\ Admin \notin Experts /\ None \notin Experts \cup Contracts \cup Payments
  /\ Contracts \cap Orders = {} /\ IsFiniteSet(Contracts)

VARIABLES
  contracts, \* Contract rows with their ContractInstallment rows
  lead,      \* the CRM lead the student comes from
  orders,    \* Transaction rows
  portrait,  \* StudentPortrait: subscription and consultantProfileId
  package,   \* StudentPackage rows, per expert
  booking,   \* the booking handler: the expert and the package it has read
  granted    \* history: contracts and orders whose benefits were granted

vars == <<contracts, lead, orders, portrait, package, booking, granted>>

Dates == 1..MaxDate
NoContract == [status |-> "ABSENT", type |-> "NULL", signed |-> FALSE, confirmed |-> FALSE, paid |-> <<>>]
NoOrder == [status |-> "ABSENT", ref |-> None]
NoBooking == [expert |-> None, package |-> FALSE]

Pending == {"PENDING_EXPERT", "PENDING_STUDENT"}
Final == {"SIGNED", "PAID"}
Historical(st) ==
  [status |-> st, type |-> "NULL", signed |-> st \in Final, confirmed |-> FALSE, paid |-> <<>>]

\* Contracts of the online era, duplicates included; activateContractBenefits may have failed after
\* the signature was committed.
Init ==
  /\ contracts \in [Contracts -> {NoContract} \cup {Historical(st) : st \in Pending \cup Final}]
  /\ orders \in [Orders -> {NoOrder} \cup [status : {"FAILED", "SUCCESS"}, ref : {None}]]
  /\ \E e \in Experts \cup {None} :
       /\ granted \in SUBSET {c \in Contracts : contracts[c].status \in Final}
       /\ portrait = [expert |-> IF granted = {} THEN None ELSE e, subscribed |-> granted # {}]
       /\ package = [x \in Experts |->
            [total |-> IF x = portrait.expert THEN Tier * Cardinality(granted) ELSE 0, used |-> 0]]
  /\ \/ lead = [status |-> "NONE", expert |-> None, contract |-> None]
     \/ \E e \in Experts, c \in Contracts \cup {None} :
          /\ c # None => contracts[c].status \in Pending
          /\ lead = [status |-> "CONTRACT_PENDING", expert |-> e, contract |-> c]
  /\ booking = NoBooking

Live(c) == contracts[c].status # "ABSENT"
Existing == {c \in Contracts : Live(c)}

-----------------------------------------------------------------------------
(* Who may do what                                                         *)

Reserved(c) == lead.status = "CONTRACT_PENDING" /\ lead.contract = c

\* The student's expert; before there is one, the expert of the CRM lead that brought the contract.
MayManage(actor, c) ==
  \/ actor = Admin
  \/ actor = portrait.expert
  \/ portrait.expert = None /\ Reserved(c) /\ actor = lead.expert

\* The expert whose package the contract pays for.
OwnerOf(actor, c) ==
  CASE portrait.expert # None -> portrait.expert
    [] portrait.expert = None /\ Reserved(c) -> lead.expert
    [] OTHER -> IF actor = Admin THEN None ELSE actor

UsesManualPayments == \E c \in Existing : contracts[c].type # "NULL" \/ contracts[c].confirmed
IsFullySigned == \E c \in Existing : contracts[c].status \in Final

Credit(e) == IF e = None THEN package ELSE [package EXCEPT ![e].total = @ + Tier]

-----------------------------------------------------------------------------
(* Contracts at the desk                                                   *)

CreateContract(actor, c, type) ==
  /\ actor = Admin \/ actor = portrait.expert
  /\ Existing = {}
  /\ contracts' = [contracts EXCEPT ![c] = [NoContract EXCEPT !.status = "PENDING_EXPERT", !.type = type]]
  /\ UNCHANGED <<lead, orders, portrait, package, booking, granted>>

\* bug: looks at the status alone
EditableByStatus(row) == row.status \notin Final

Editable(row) == row.status \notin Final /\ ~row.signed

\* Any change of the price or the terms of a historical contract gives it a payment type.
UpdateMeta(actor, c, type) ==
  /\ Live(c) /\ MayManage(actor, c)
  /\ Editable(contracts[c])
  /\ contracts' = [contracts EXCEPT ![c].type = type]
  /\ UNCHANGED <<lead, orders, portrait, package, booking, granted>>

RecordSignature(actor, c) ==
  /\ Live(c) /\ MayManage(actor, c)
  /\ ~contracts[c].confirmed /\ contracts[c].status \notin Final
  /\ contracts' = [contracts EXCEPT ![c].signed = TRUE]
  /\ UNCHANGED <<lead, orders, portrait, package, booking, granted>>

\* What the grant of an earlier online signature must have left behind.
HistoricalBenefits(c) ==
  /\ portrait.subscribed /\ portrait.expert # None
  /\ package[portrait.expert].total >= Tier
  /\ package[portrait.expert].used <= package[portrait.expert].total
  /\ Existing = {c}

Schedule(row, paidAt) ==
  [i \in 1..(IF row.type = "INSTALLMENT" THEN Parts ELSE 1) |-> IF i = 1 THEN paidAt ELSE 0]

\* confirmManualContract, on the row as the transaction sees it.  A repeated request is answered
\* from the first instalment and changes nothing.
ConfirmRow(actor, c, row, paidAt) ==
  LET owner == OwnerOf(actor, c)
      schedule == Schedule(row, paidAt)
  IN /\ ~row.confirmed /\ row.status # "PAID"
     /\ row.status = "SIGNED" => HistoricalBenefits(c)
     /\ lead.contract = c => owner # None
     /\ contracts' = [contracts EXCEPT ![c] =
          [status |-> IF Len(schedule) = 1 THEN "PAID" ELSE "SIGNED",
           type |-> IF row.type = "NULL" THEN "FULL" ELSE row.type,
           signed |-> TRUE, confirmed |-> TRUE, paid |-> schedule]]
     /\ IF row.status = "SIGNED"
        THEN UNCHANGED <<portrait, package, granted>>
        ELSE /\ portrait' = [expert |-> owner, subscribed |-> TRUE]
             /\ package' = Credit(owner)
             /\ granted' = granted \cup {c}
     /\ UNCHANGED <<orders, booking>>

\* The signature comes with the request if it was not recorded before.
ConfirmManualContract(actor, c, paidAt) ==
  /\ Live(c) /\ MayManage(actor, c)
  /\ ConfirmRow(actor, c, contracts[c], paidAt)
  /\ lead' = IF lead.contract = c THEN [lead EXCEPT !.status = "CONVERTED"] ELSE lead

\* The expert of a prepared lead confirms: the contract is created for the student's account, if
\* it has no other expert and no contract, and confirmed in the same transaction.
ConfirmLead(c, type, paidAt) ==
  /\ lead.status = "CONTRACT_PENDING" /\ lead.contract = None
  /\ portrait.expert \in {None, lead.expert}
  /\ Existing = {}
  /\ ConfirmRow(lead.expert, c, [NoContract EXCEPT !.status = "PENDING_EXPERT", !.type = type],
                paidAt)
  /\ lead' = [lead EXCEPT !.status = "CONVERTED", !.contract = c]

\* bug: takes the instalments in any order
AnyOrder(row, n, paidAt) == row.paid[n] = 0

InOrder(row, n, paidAt) ==
  /\ row.paid[n] = 0
  /\ \A i \in 1..(n - 1) : row.paid[i] # 0 /\ row.paid[i] <= paidAt

ConfirmInstallment(actor, c, n, paidAt) ==
  LET row == contracts[c]
      paid == [row.paid EXCEPT ![n] = paidAt]
  IN /\ Live(c) /\ MayManage(actor, c)
     /\ row.confirmed
     /\ n \in DOMAIN row.paid /\ InOrder(row, n, paidAt)
     /\ contracts' = [contracts EXCEPT ![c] = [row EXCEPT !.paid = paid, !.status =
          IF \A i \in DOMAIN paid : paid[i] # 0 THEN "PAID" ELSE row.status]]
     /\ UNCHANGED <<lead, orders, portrait, package, booking, granted>>

-----------------------------------------------------------------------------
(* Orders paid through the gateway                                         *)

\* createPayment: both checks, then the row, without a transaction around them.
CheckOut(o) ==
  /\ orders[o] = NoOrder
  /\ ~UsesManualPayments /\ IsFullySigned
  /\ orders' = [orders EXCEPT ![o].status = "CHECKED"]
  /\ UNCHANGED <<contracts, lead, portrait, package, booking, granted>>

CreateOrder(o) ==
  /\ orders[o].status = "CHECKED"
  /\ orders' = [orders EXCEPT ![o].status = "PENDING"]
  /\ UNCHANGED <<contracts, lead, portrait, package, booking, granted>>

\* bug: looks at the order alone
ForeignToOrder(o, p) == orders[o].ref \notin {None, p}

\* The provider may report a payment any number of times, and late.
Foreign(o, p) ==
  \/ orders[o].ref \notin {None, p}
  \/ \E x \in Orders \ {o} : orders[x].ref = p

\* A SUCCESS row of old only gets its reference.
RecordReference(o, p) ==
  /\ orders[o].status = "SUCCESS" /\ ~Foreign(o, p)
  /\ orders' = [orders EXCEPT ![o].ref = p]
  /\ UNCHANGED <<contracts, lead, portrait, package, booking, granted>>

\* bug: a SUCCESS row is settled like any other
AwaitingOrPaid(o) == orders[o].status \in {"PENDING", "FAILED", "SUCCESS"}

Awaiting(o) == orders[o].status \in {"PENDING", "FAILED"}

\* The receipt is kept, and is worth something only to a student without a desk contract.
SettleFreedomPayment(o, p) ==
  /\ Awaiting(o) /\ ~Foreign(o, p)
  /\ orders' = [orders EXCEPT ![o] = [status |-> "SUCCESS", ref |-> p]]
  /\ IF UsesManualPayments
     THEN UNCHANGED <<contracts, portrait, package, granted>>
     ELSE /\ IsFullySigned
          /\ portrait' = [portrait EXCEPT !.subscribed = TRUE]
          /\ package' = Credit(portrait.expert)
          /\ granted' = granted \cup {o}
          /\ contracts' = [c \in Contracts |-> IF contracts[c].status = "SIGNED"
                            THEN [contracts[c] EXCEPT !.status = "PAID"] ELSE contracts[c]]
  /\ UNCHANGED <<lead, booking>>

-----------------------------------------------------------------------------
(* The student's expert and consultations                                  *)

MoveTo(e) ==
  /\ portrait' = [portrait EXCEPT !.expert = e]
  /\ UNCHANGED <<contracts, lead, orders, package, booking, granted>>

\* An expert takes a student nobody has and no CRM contract reserves ...
AssignPortrait(e) ==
  /\ portrait.expert = None
  /\ ~\E c \in Existing : contracts[c].status \in Pending /\ lead.contract = c
  /\ MoveTo(e)

\* ... or hands one over; a student may choose at any time.
TransferPortrait(e) == portrait.expert \notin {None, e} /\ MoveTo(e)
SelectExpert(e) == portrait.expert # e /\ MoveTo(e)

\* The package is looked up before the booking transaction, which compares nothing with it.
FindPackage ==
  /\ booking = NoBooking /\ portrait.expert # None
  /\ booking' = [expert |-> portrait.expert, package |-> package[portrait.expert].total > 0]
  /\ UNCHANGED <<contracts, lead, orders, portrait, package, granted>>

Book ==
  /\ booking # NoBooking
  /\ package[booking.expert].used < MaxBookings
  /\ booking' = NoBooking
  /\ package' = IF booking.package THEN [package EXCEPT ![booking.expert].used = @ + 1] ELSE package
  /\ UNCHANGED <<contracts, lead, orders, portrait, granted>>

-----------------------------------------------------------------------------
Desk(actor, c) ==
  \/ \E type \in {"FULL", "INSTALLMENT"} : CreateContract(actor, c, type) \/ UpdateMeta(actor, c, type)
  \/ RecordSignature(actor, c)
  \/ \E date \in Dates :
       \/ ConfirmManualContract(actor, c, date)
       \/ \E n \in 1..Parts : ConfirmInstallment(actor, c, n, date)

Gateway(o) ==
  \/ CheckOut(o) \/ CreateOrder(o)
  \/ \E p \in Payments : RecordReference(o, p) \/ SettleFreedomPayment(o, p)

Next ==
  \/ \E actor \in Experts \cup {Admin}, c \in Contracts : Desk(actor, c)
  \/ \E c \in Contracts, type \in {"FULL", "INSTALLMENT"}, date \in Dates :
       ConfirmLead(c, type, date)
  \/ \E o \in Orders : Gateway(o)
  \/ \E e \in Experts : AssignPortrait(e) \/ TransferPortrait(e) \/ SelectExpert(e)
  \/ FindPackage \/ Book

Spec == Init /\ [][Next]_vars

-----------------------------------------------------------------------------
ContractRows == [status : {"ABSENT"} \cup Pending \cup Final, type : {"NULL", "FULL", "INSTALLMENT"},
                 signed : BOOLEAN, confirmed : BOOLEAN, paid : Seq(0..MaxDate)]

TypeOK ==
  /\ contracts \in [Contracts -> ContractRows]
  /\ lead \in [status : {"NONE", "CONTRACT_PENDING", "CONVERTED"},
               expert : Experts \cup {None}, contract : Contracts \cup {None}]
  /\ orders \in [Orders -> [status : {"ABSENT", "CHECKED", "PENDING", "FAILED", "SUCCESS"},
                            ref : Payments \cup {None}]]
  /\ portrait \in [expert : Experts \cup {None}, subscribed : BOOLEAN]
  /\ package \in [Experts -> [total : Nat, used : Nat]]
  /\ booking \in [expert : Experts \cup {None}, package : BOOLEAN]
  /\ granted \subseteq Contracts \cup Orders

\* A contract confirmed at the desk has its schedule, paid from the first instalment on in the
\* order of the dates, and is PAID exactly when nothing is outstanding.
InstalmentsInOrder ==
  \A c \in Contracts : contracts[c].confirmed =>
    LET paid == contracts[c].paid IN
    /\ Len(paid) = IF contracts[c].type = "INSTALLMENT" THEN Parts ELSE 1
    /\ paid[1] # 0
    /\ \A i, j \in DOMAIN paid : (i < j /\ paid[j] # 0) => paid[i] # 0 /\ paid[i] <= paid[j]
    /\ contracts[c].status = IF \A i \in DOMAIN paid : paid[i] # 0 THEN "PAID" ELSE "SIGNED"

\* One payment of the provider settles one order, and an order brings benefits only when settled.
OnePaymentOneOrder ==
  \A o \in Orders :
    /\ orders[o].ref # None => orders[o].status = "SUCCESS"
    /\ o \in granted => orders[o].ref # None
    /\ \A x \in Orders \ {o} : orders[x].ref = orders[o].ref => orders[o].ref = None

\* What was signed and paid stays: no desk operation and no receipt changes the terms of a signed
\* contract, the date of a paid instalment, or a contract that is paid.
SettledStays ==
  [][\A c \in Contracts :
       LET old == contracts[c]  new == contracts'[c] IN
       /\ old.signed => new.type = old.type \/ (old.type = "NULL" /\ new.type = "FULL")
       /\ old.confirmed => /\ new.confirmed
                           /\ \A i \in DOMAIN old.paid : old.paid[i] # 0 => new.paid[i] = old.paid[i]
       /\ old.status = "PAID" => new = old]_vars

\* Whatever the desk, the gateway and the experts do in between, benefits are granted as the
\* ledger promises: once per contract confirmed and once per order paid, each time one tier for the
\* expert the student has, or is given with it.
Benefits == INSTANCE BenefitLedger WITH
  Sources <- Contracts \cup Orders, Owners <- Experts, expert <- portrait.expert, issued <- granted,
  slots <- [e \in Experts |-> package[e].total]
GrantedOnce == Benefits!Spec

=============================================================================
