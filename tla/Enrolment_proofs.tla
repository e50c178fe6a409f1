--------------------------- MODULE Enrolment_proofs ---------------------------
(***************************************************************************)
(* Proofs about Enrolment: the instalments of a contract, the payments of   *)
(* the orders, and that the whole implements BenefitLedger.                 *)
(*                                                                         *)
(* The invariant has four parts, one for each table: the contract rows, the *)
(* orders, what was granted, and the types of the rest.  A benefit is       *)
(* granted at most once because granting leaves a trace the guards look at: *)
(* a confirmed contract is signed or paid, a settled order has a reference. *)
(***************************************************************************)
EXTENDS Enrolment, TLAPS, FiniteSetTheorems, SequenceTheorems

\* What InstalmentsInOrder says of one contract, and that only signed ones are confirmed.
RowInOrder(row) ==
  row.confirmed =>
    /\ row.signed
    /\ Len(row.paid) = IF row.type = "INSTALLMENT" THEN Parts ELSE 1
    /\ row.paid[1] # 0
    /\ \A i, j \in DOMAIN row.paid :
         (i < j /\ row.paid[j] # 0) => row.paid[i] # 0 /\ row.paid[i] <= row.paid[j]
    /\ row.status = IF \A i \in DOMAIN row.paid : row.paid[i] # 0 THEN "PAID" ELSE "SIGNED"

ContractsInv ==
  /\ contracts \in [Contracts -> ContractRows]
  /\ \A c \in Contracts : RowInOrder(contracts[c])
  /\ \A c \in Contracts : contracts[c].status = "ABSENT" => ~ contracts[c].signed

OrderRows == [status : {"ABSENT", "CHECKED", "PENDING", "FAILED", "SUCCESS"},
              ref : Payments \cup {None}]

OrdersInv == orders \in [Orders -> OrderRows] /\ OnePaymentOneOrder

\* Only a contract that was signed or paid has brought its benefits.
GrantsInv ==
  /\ granted \subseteq Contracts \cup Orders
  /\ \A c \in Contracts : c \in granted => contracts[c].status \in Final

PackageRows == [total : Nat, used : Nat]

OthersInv ==
  /\ lead \in [status : {"NONE", "CONTRACT_PENDING", "CONVERTED"},
               expert : Experts \cup {None}, contract : Contracts \cup {None}]
  /\ portrait \in [expert : Experts \cup {None}, subscribed : BOOLEAN]
  /\ package \in [Experts -> PackageRows]
  /\ booking \in [expert : Experts \cup {None}, package : BOOLEAN]

\* The inductive invariant.
IInv == ContractsInv /\ OrdersInv /\ GrantsInv /\ OthersInv

\* The parts say what the runs check.
LEMMA IInvImplies == IInv => TypeOK /\ InstalmentsInOrder /\ OnePaymentOneOrder
BY DEF IInv, ContractsInv, OrdersInv, GrantsInv, OthersInv, TypeOK, InstalmentsInOrder,
   RowInOrder, OrderRows, PackageRows

\* A contract of the online era has no schedule and is not confirmed.
LEMMA HistoricalRows ==
  /\ NoContract \in ContractRows /\ ~ NoContract.confirmed /\ ~ NoContract.signed
  /\ \A st \in Pending \cup Final :
       /\ Historical(st) \in ContractRows
       /\ ~ Historical(st).confirmed
       /\ Historical(st).status = st
<1>1. <<>> \in Seq(0..MaxDate)
  OBVIOUS
<1>2. NoContract \in ContractRows /\ ~ NoContract.confirmed /\ ~ NoContract.signed
  BY <1>1 DEF NoContract, ContractRows
<1>3. ASSUME NEW st \in Pending \cup Final
      PROVE Historical(st) \in ContractRows /\ ~ Historical(st).confirmed /\ Historical(st).status = st
  <2> DEFINE sg == st \in Final
  <2>1. sg \in BOOLEAN
    OBVIOUS
  <2>2. Historical(st) = [status |-> st, type |-> "NULL", signed |-> sg, confirmed |-> FALSE,
                          paid |-> <<>>]
    BY DEF Historical
  <2> HIDE DEF sg
  <2> QED
    BY <1>1, <2>1, <2>2 DEF ContractRows
<1> QED
  BY <1>2, <1>3

\* The schedule of a confirmed contract: as many entries as it has instalments, the first
\* of them paid.
LEMMA ScheduleInOrder ==
  ASSUME NEW row, NEW paidAt \in Dates
  PROVE  LET s == Schedule(row, paidAt) IN
         /\ s \in Seq(0..MaxDate)
         /\ Len(s) = IF row.type = "INSTALLMENT" THEN Parts ELSE 1
         /\ DOMAIN s = 1..Len(s)
         /\ s[1] = paidAt
         /\ \A i \in DOMAIN s : i # 1 => s[i] = 0
<1> DEFINE k == IF row.type = "INSTALLMENT" THEN Parts ELSE 1
           s == Schedule(row, paidAt)
<1>1. k \in Nat \ {0}
  BY EnrolmentAssumption
<1>2. s = [i \in 1..k |-> IF i = 1 THEN paidAt ELSE 0]
  BY DEF Schedule
<1> HIDE DEF k, s
<1>3. \A i \in 1..k : (IF i = 1 THEN paidAt ELSE 0) \in 0..MaxDate
  BY EnrolmentAssumption DEF Dates
<1>4. s \in Seq(0..MaxDate)
  BY <1>1, <1>2, <1>3, IsASeq
<1>5. Len(s) = k
  BY <1>1, <1>2, <1>4, LenProperties
<1> QED
  BY <1>1, <1>2, <1>4, <1>5 DEF k, s

\* At first no contract is confirmed, no order has a reference, and only signed or paid
\* contracts have brought anything.
LEMMA InitInv == Init => IInv
<1> SUFFICES ASSUME Init PROVE IInv
  OBVIOUS
<1>1. ContractsInv
  BY HistoricalRows DEF Init, ContractsInv, RowInOrder, Pending, Final
<1>2. OrdersInv
  BY EnrolmentAssumption DEF Init, OrdersInv, OrderRows, OnePaymentOneOrder, NoOrder
<1>3. GrantsInv
  BY DEF Init, GrantsInv
<1>4. OthersInv
  <2>1. PICK e \in Experts \cup {None} :
          /\ granted \in SUBSET {c \in Contracts : contracts[c].status \in Final}
          /\ portrait = [expert |-> IF granted = {} THEN None ELSE e, subscribed |-> granted # {}]
          /\ package = [x \in Experts |->
               [total |-> IF x = portrait.expert THEN Tier * Cardinality(granted) ELSE 0, used |-> 0]]
    BY DEF Init
  <2>2. Cardinality(granted) \in Nat
    BY <2>1, EnrolmentAssumption, FS_Subset, FS_CardinalityType
  <2>3. package \in [Experts -> PackageRows]
    BY <2>1, <2>2, EnrolmentAssumption DEF PackageRows
  <2>4. portrait \in [expert : Experts \cup {None}, subscribed : BOOLEAN]
    <3> DEFINE any == granted # {}
               exp == IF granted = {} THEN None ELSE e
    <3>1. any \in BOOLEAN /\ exp \in Experts \cup {None}
      OBVIOUS
    <3>2. portrait = [expert |-> exp, subscribed |-> any]
      BY <2>1
    <3> HIDE DEF any, exp
    <3> QED
      BY <3>1, <3>2
  <2>5. lead \in [status : {"NONE", "CONTRACT_PENDING", "CONVERTED"},
                 expert : Experts \cup {None}, contract : Contracts \cup {None}]
    BY DEF Init
  <2>6. booking \in [expert : Experts \cup {None}, package : BOOLEAN]
    BY DEF Init, NoBooking
  <2> QED
    BY <2>3, <2>4, <2>5, <2>6 DEF OthersInv
<1> QED
  BY <1>1, <1>2, <1>3, <1>4 DEF IInv

\* One contract row is replaced by another of its type and order.
LEMMA RowStep ==
  ASSUME ContractsInv, NEW c \in Contracts, NEW new \in ContractRows, RowInOrder(new),
         new.status # "ABSENT", contracts' = [contracts EXCEPT ![c] = new]
  PROVE  /\ ContractsInv'
         /\ contracts'[c] = new
         /\ \A x \in Contracts : x # c => contracts'[x] = contracts[x]
<1>1. /\ contracts' \in [Contracts -> ContractRows]
      /\ contracts'[c] = new
      /\ \A x \in Contracts : x # c => contracts'[x] = contracts[x]
  BY DEF ContractsInv
<1>2. \A x \in Contracts : RowInOrder(contracts[x])
  BY DEF ContractsInv
<1>3. \A x \in Contracts : RowInOrder(contracts'[x])
  BY <1>1, <1>2
<1>4. \A x \in Contracts : contracts'[x].status = "ABSENT" => ~ contracts'[x].signed
  BY <1>1 DEF ContractsInv
<1> QED
  BY <1>1, <1>3, <1>4 DEF ContractsInv

\* A step that leaves the orders, the grants and the tables outside the contracts alone
\* keeps the invariant if no signed or paid contract loses that status.
LEMMA ContractStep ==
  ASSUME IInv, NEW c \in Contracts, NEW new \in ContractRows, RowInOrder(new),
         new.status # "ABSENT", contracts' = [contracts EXCEPT ![c] = new],
         contracts[c].status \in Final => new.status \in Final,
         UNCHANGED <<lead, orders, portrait, package, booking, granted>>
  PROVE  IInv'
<1>1. /\ ContractsInv'
      /\ contracts'[c] = new
      /\ \A x \in Contracts : x # c => contracts'[x] = contracts[x]
  BY RowStep DEF IInv
<1>2. OrdersInv'
  BY DEF IInv, OrdersInv, OnePaymentOneOrder
<1>3. GrantsInv'
  BY <1>1 DEF IInv, GrantsInv
<1>4. OthersInv'
  BY DEF IInv, OthersInv
<1> QED
  BY <1>1, <1>2, <1>3, <1>4 DEF IInv

\* A new contract, and new terms of one that is not signed.
LEMMA CreateContractStep ==
  ASSUME IInv, NEW actor, NEW c \in Contracts, NEW type \in {"FULL", "INSTALLMENT"},
         CreateContract(actor, c, type)
  PROVE  IInv'
<1> DEFINE new == [NoContract EXCEPT !.status = "PENDING_EXPERT", !.type = type]
<1>1. new \in ContractRows /\ ~ new.confirmed /\ new.status = "PENDING_EXPERT"
  BY HistoricalRows DEF NoContract, ContractRows, Pending
<1>2. RowInOrder(new)
  BY <1>1 DEF RowInOrder
<1>3. contracts[c].status = "ABSENT"
  BY DEF CreateContract, Existing, Live
<1>4. /\ contracts' = [contracts EXCEPT ![c] = new]
      /\ UNCHANGED <<lead, orders, portrait, package, booking, granted>>
  BY DEF CreateContract
<1> HIDE DEF new
<1> QED
  BY <1>1, <1>2, <1>3, <1>4, ContractStep DEF Final

LEMMA UpdateMetaStep ==
  ASSUME IInv, NEW actor, NEW c \in Contracts, NEW type \in {"FULL", "INSTALLMENT"},
         UpdateMeta(actor, c, type)
  PROVE  IInv'
<1> DEFINE old == contracts[c]
           new == [old EXCEPT !.type = type]
<1>1. old \in ContractRows /\ RowInOrder(old) /\ ~ old.signed
  BY DEF IInv, ContractsInv, UpdateMeta, Editable
<1>2. new \in ContractRows /\ ~ new.confirmed /\ new.status = old.status
  BY <1>1 DEF RowInOrder, ContractRows
<1>3. RowInOrder(new)
  BY <1>2 DEF RowInOrder
<1>4. /\ contracts' = [contracts EXCEPT ![c] = new]
      /\ UNCHANGED <<lead, orders, portrait, package, booking, granted>>
  BY DEF UpdateMeta
<1>5. new.status # "ABSENT" /\ (contracts[c].status \in Final => new.status \in Final)
  BY <1>2 DEF UpdateMeta, Live
<1> HIDE DEF new, old
<1> QED
  BY <1>2, <1>3, <1>4, <1>5, ContractStep

LEMMA RecordSignatureStep ==
  ASSUME IInv, NEW actor, NEW c \in Contracts, RecordSignature(actor, c)
  PROVE  IInv'
<1> DEFINE old == contracts[c]
           new == [old EXCEPT !.signed = TRUE]
<1>1. old \in ContractRows /\ ~ old.confirmed
  BY DEF IInv, ContractsInv, RecordSignature
<1>2. new \in ContractRows /\ ~ new.confirmed /\ new.status = old.status
  BY <1>1 DEF ContractRows
<1>3. RowInOrder(new)
  BY <1>2 DEF RowInOrder
<1>4. /\ contracts' = [contracts EXCEPT ![c] = new]
      /\ UNCHANGED <<lead, orders, portrait, package, booking, granted>>
  BY DEF RecordSignature
<1>5. new.status # "ABSENT" /\ (contracts[c].status \in Final => new.status \in Final)
  BY <1>2 DEF RecordSignature, Live
<1> HIDE DEF new, old
<1> QED
  BY <1>2, <1>3, <1>4, <1>5, ContractStep

\* An instalment is paid after those before it.
LEMMA ConfirmInstallmentStep ==
  ASSUME IInv, NEW actor, NEW c \in Contracts, NEW n \in 1..Parts, NEW paidAt \in Dates,
         ConfirmInstallment(actor, c, n, paidAt)
  PROVE  IInv'
<1> DEFINE row == contracts[c]
           paid == [row.paid EXCEPT ![n] = paidAt]
           status == IF \A i \in DOMAIN paid : paid[i] # 0 THEN "PAID" ELSE row.status
           new == [row EXCEPT !.paid = paid, !.status = status]
<1>1. /\ row \in ContractRows /\ RowInOrder(row) /\ row.confirmed
      /\ n \in DOMAIN row.paid /\ InOrder(row, n, paidAt)
      /\ contracts' = [contracts EXCEPT ![c] = new]
      /\ UNCHANGED <<lead, orders, portrait, package, booking, granted>>
  BY DEF IInv, ContractsInv, ConfirmInstallment
<1>2. /\ row.paid \in Seq(0..MaxDate) /\ DOMAIN row.paid = 1..Len(row.paid)
      /\ Len(row.paid) \in Nat
  BY <1>1, LenProperties DEF ContractRows
<1>3. paidAt \in 0..MaxDate /\ paidAt # 0 /\ \A i \in DOMAIN row.paid : row.paid[i] \in Nat
  BY <1>1, <1>2, EnrolmentAssumption, ElementOfSeq DEF Dates
<1> HIDE DEF row
<1>4. /\ paid \in Seq(0..MaxDate) /\ Len(paid) = Len(row.paid)
      /\ DOMAIN paid = DOMAIN row.paid
      /\ \A i \in DOMAIN row.paid : paid[i] = IF i = n THEN paidAt ELSE row.paid[i]
  BY <1>1, <1>2, <1>3, ExceptSeq
<1> HIDE DEF paid
<1>5. status \in Final /\ row.status = "SIGNED"
  BY <1>1 DEF RowInOrder, InOrder, Final
<1> HIDE DEF status
<1>6. /\ new \in ContractRows
      /\ new.paid = paid /\ new.status = status /\ new.type = row.type /\ new.signed = row.signed
  BY <1>1, <1>4, <1>5 DEF ContractRows, Final
<1> HIDE DEF new
<1>7. RowInOrder(new)
  <2>1. row.signed /\ Len(paid) = IF row.type = "INSTALLMENT" THEN Parts ELSE 1
    BY <1>1, <1>4 DEF RowInOrder
  <2>2. paid[1] # 0
    BY <1>1, <1>2, <1>3, <1>4 DEF RowInOrder, InOrder
  <2>3. ASSUME NEW i \in DOMAIN paid, NEW j \in DOMAIN paid, i < j, paid[j] # 0
        PROVE  paid[i] # 0 /\ paid[i] <= paid[j]
    <3>1. CASE j = n
      BY <2>3, <3>1, <1>1, <1>2, <1>3, <1>4 DEF InOrder
    <3>2. CASE j # n
      BY <2>3, <3>2, <1>1, <1>2, <1>3, <1>4 DEF RowInOrder, InOrder
    <3> QED
      BY <3>1, <3>2
  <2>4. status = IF \A i \in DOMAIN paid : paid[i] # 0 THEN "PAID" ELSE "SIGNED"
    BY <1>5 DEF status
  <2> QED
    BY <1>6, <2>1, <2>2, <2>3, <2>4 DEF RowInOrder
<1>8. new.status \in Final /\ new.status # "ABSENT"
  BY <1>5, <1>6 DEF Final
<1> QED
  BY <1>1, <1>6, <1>7, <1>8, ContractStep DEF row

\* Whoever manages the student, the package that is credited is an expert's.
LEMMA OwnerIsExpert ==
  ASSUME OthersInv, NEW c \in Contracts, NEW actor \in Experts \cup {Admin, None}
  PROVE  OwnerOf(actor, c) \in Experts \cup {None}
BY DEF OthersInv, OwnerOf, Reserved

\* A credit adds one tier to at most one package.
LEMMA CreditRows ==
  ASSUME OthersInv, NEW e \in Experts \cup {None}
  PROVE  /\ Credit(e) \in [Experts -> PackageRows]
         /\ e = None => Credit(e) = package
         /\ e # None => \A x \in Experts :
              Credit(e)[x].total = IF x = e THEN package[x].total + Tier ELSE package[x].total
<1>1. Tier \in Nat
  BY EnrolmentAssumption
<1>2. CASE e = None
  BY <1>2 DEF Credit, OthersInv
<1>3. CASE e # None
  <2>1. Credit(e) = [package EXCEPT ![e].total = package[e].total + Tier]
    BY <1>3 DEF Credit
  <2>2. package \in [Experts -> PackageRows] /\ e \in Experts
    BY <1>3 DEF OthersInv
  <2> QED
    BY <1>1, <1>3, <2>1, <2>2 DEF PackageRows
<1> QED
  BY <1>2, <1>3

\* The row a confirmation leaves.
LEMMA ConfirmedRow ==
  ASSUME NEW row \in ContractRows, NEW paidAt \in Dates
  PROVE  LET s == Schedule(row, paidAt)
             new == [status |-> IF Len(s) = 1 THEN "PAID" ELSE "SIGNED",
                     type |-> IF row.type = "NULL" THEN "FULL" ELSE row.type,
                     signed |-> TRUE, confirmed |-> TRUE, paid |-> s]
         IN new \in ContractRows /\ RowInOrder(new) /\ new.status \in Final
<1> DEFINE s == Schedule(row, paidAt)
           st == IF Len(s) = 1 THEN "PAID" ELSE "SIGNED"
           ty == IF row.type = "NULL" THEN "FULL" ELSE row.type
           new == [status |-> st, type |-> ty, signed |-> TRUE, confirmed |-> TRUE, paid |-> s]
<1>1. /\ s \in Seq(0..MaxDate)
      /\ Len(s) = IF row.type = "INSTALLMENT" THEN Parts ELSE 1
      /\ DOMAIN s = 1..Len(s)
      /\ s[1] = paidAt
      /\ \A i \in DOMAIN s : i # 1 => s[i] = 0
  BY ScheduleInOrder
<1> HIDE DEF s
<1>2. paidAt # 0 /\ paidAt \in Nat
  BY EnrolmentAssumption DEF Dates
<1>3. Len(s) \in Nat \ {0} /\ (row.type = "INSTALLMENT" <=> ty = "INSTALLMENT")
  BY <1>1, EnrolmentAssumption
<1>4. ty \in {"FULL", "INSTALLMENT"} /\ st \in Final
  BY DEF ContractRows, Final
<1>5. st = IF \A i \in DOMAIN s : s[i] # 0 THEN "PAID" ELSE "SIGNED"
  <2>1. CASE Len(s) = 1
    BY <2>1, <1>1, <1>2
  <2>2. CASE Len(s) # 1
    <3>1. 2 \in DOMAIN s
      BY <2>2, <1>1, <1>3
    <3> QED
      BY <2>2, <3>1, <1>1
  <2> QED
    BY <2>1, <2>2
<1> HIDE DEF st, ty
<1>6. \A i, j \in DOMAIN s : (i < j /\ s[j] # 0) => s[i] # 0 /\ s[i] <= s[j]
  BY <1>1, <1>3
<1>7. RowInOrder(new)
  BY <1>1, <1>2, <1>3, <1>5, <1>6 DEF RowInOrder
<1>8. new \in ContractRows /\ new.status \in Final
  BY <1>1, <1>4 DEF ContractRows
<1> QED
  BY <1>7, <1>8 DEF new, st, ty, s

Slots == [e \in Experts |-> package[e].total]

Credited(e) == [x \in Experts |-> IF x = e THEN Slots[x] + Tier ELSE Slots[x]]

\* A step that grants one source at most, with one tier for the student's expert, and otherwise
\* at most changes that expert.
GrantStep ==
  \/ UNCHANGED <<granted, Slots>> /\ portrait'.expert \in {portrait.expert} \cup Experts
  \/ \E s \in Contracts \cup Orders, e \in Experts \cup {None} :
       /\ s \notin granted
       /\ granted' = granted \cup {s}
       /\ portrait.expert \in {None, e} /\ portrait'.expert = e
       /\ Slots' = Credited(e)

\* Crediting the package of an expert is such a step for the slots.
LEMMA CreditSlots ==
  ASSUME OthersInv, NEW e \in Experts \cup {None}, package' = Credit(e)
  PROVE  Slots' = Credited(e)
<1>1. \A x \in Experts : package'[x].total = IF x = e THEN package[x].total + Tier
                                             ELSE package[x].total
  <2>1. CASE e = None
    BY <2>1, CreditRows, EnrolmentAssumption
  <2>2. CASE e # None
    BY <2>2, CreditRows
  <2> QED
    BY <2>1, <2>2
<1> QED
  BY <1>1 DEF Slots, Credited

\* Confirming a contract grants it once: a contract that was granted is signed or paid.
LEMMA ConfirmRowStep ==
  ASSUME IInv, NEW actor \in Experts \cup {Admin, None}, NEW c \in Contracts, NEW row \in ContractRows,
         NEW paidAt \in Dates, ConfirmRow(actor, c, row, paidAt),
         contracts[c].status \in Final => row.status = contracts[c].status,
         lead' \in [status : {"NONE", "CONTRACT_PENDING", "CONVERTED"},
                   expert : Experts \cup {None}, contract : Contracts \cup {None}]
  PROVE  IInv' /\ GrantStep
<1> DEFINE owner == OwnerOf(actor, c)
           s == Schedule(row, paidAt)
           new == [status |-> IF Len(s) = 1 THEN "PAID" ELSE "SIGNED",
                   type |-> IF row.type = "NULL" THEN "FULL" ELSE row.type,
                   signed |-> TRUE, confirmed |-> TRUE, paid |-> s]
<1>1. new \in ContractRows /\ RowInOrder(new) /\ new.status \in Final
  BY ConfirmedRow
<1>2. /\ contracts' = [contracts EXCEPT ![c] = new]
      /\ row.status # "PAID"
      /\ UNCHANGED <<orders, booking>>
  BY DEF ConfirmRow
<1>3. \/ row.status = "SIGNED" /\ UNCHANGED <<portrait, package, granted>>
      \/ /\ row.status # "SIGNED"
         /\ portrait' = [expert |-> owner, subscribed |-> TRUE]
         /\ package' = Credit(owner)
         /\ granted' = granted \cup {c}
  BY DEF ConfirmRow
<1>4. owner \in Experts \cup {None} /\ portrait.expert \in {None, owner}
  <2>1. owner \in Experts \cup {None}
    BY OwnerIsExpert DEF IInv
  <2>2. portrait.expert # None => owner = portrait.expert
    BY DEF OwnerOf
  <2> QED
    BY <2>1, <2>2
<1> HIDE DEF owner, new
<1>0. new.status # "ABSENT"
  BY <1>1 DEF Final
<1>5. /\ ContractsInv'
      /\ contracts'[c] = new
      /\ \A x \in Contracts : x # c => contracts'[x] = contracts[x]
  BY <1>0, <1>1, <1>2, RowStep DEF IInv
<1>6. GrantsInv'
  BY <1>1, <1>3, <1>5 DEF IInv, GrantsInv
<1>7. OrdersInv'
  BY <1>2, <1>3, EnrolmentAssumption DEF IInv, OrdersInv, OnePaymentOneOrder
<1>8. OthersInv'
  <2>1. package' \in [Experts -> PackageRows]
    BY <1>3, <1>4, CreditRows DEF IInv, OthersInv
  <2>2. portrait' \in [expert : Experts \cup {None}, subscribed : BOOLEAN]
    <3>1. CASE UNCHANGED portrait
      BY <3>1 DEF IInv, OthersInv
    <3>2. CASE portrait' = [expert |-> owner, subscribed |-> TRUE]
      BY <3>2, <1>4
    <3> QED
      BY <1>3, <3>1, <3>2
  <2> QED
    BY <1>2, <2>1, <2>2 DEF IInv, OthersInv
<1>9. GrantStep
  <2>1. CASE UNCHANGED <<portrait, package, granted>>
    BY <2>1 DEF GrantStep, Slots
  <2>2. CASE /\ row.status # "SIGNED"
             /\ portrait' = [expert |-> owner, subscribed |-> TRUE]
             /\ package' = Credit(owner)
             /\ granted' = granted \cup {c}
    <3>1. c \notin granted
      BY <1>2, <2>2 DEF IInv, GrantsInv, Final
    <3>2. Slots' = Credited(owner)
      BY <1>4, <2>2, CreditSlots DEF IInv
    <3>3. portrait'.expert = owner
      BY <2>2
    <3> QED
      BY <1>4, <2>2, <3>1, <3>2, <3>3 DEF GrantStep
  <2> QED
    BY <1>3, <2>1, <2>2
<1> QED
  BY <1>5, <1>6, <1>7, <1>8, <1>9 DEF IInv

\* The confirmation of an existing contract, and of one created for a prepared lead.
LEMMA ConfirmManualContractStep ==
  ASSUME IInv, NEW actor \in Experts \cup {Admin}, NEW c \in Contracts, NEW paidAt \in Dates,
         ConfirmManualContract(actor, c, paidAt)
  PROVE  IInv' /\ GrantStep
<1>1. contracts[c] \in ContractRows
  BY DEF IInv, ContractsInv
<1>2. lead' \in [status : {"NONE", "CONTRACT_PENDING", "CONVERTED"},
                expert : Experts \cup {None}, contract : Contracts \cup {None}]
  BY DEF ConfirmManualContract, IInv, OthersInv
<1>3. ConfirmRow(actor, c, contracts[c], paidAt)
  BY DEF ConfirmManualContract
<1> QED
  BY <1>1, <1>2, <1>3, ConfirmRowStep

LEMMA ConfirmLeadStep ==
  ASSUME IInv, NEW c \in Contracts, NEW type \in {"FULL", "INSTALLMENT"}, NEW paidAt \in Dates,
         ConfirmLead(c, type, paidAt)
  PROVE  IInv' /\ GrantStep
<1> DEFINE row == [NoContract EXCEPT !.status = "PENDING_EXPERT", !.type = type]
<1>1. row \in ContractRows
  BY HistoricalRows DEF NoContract, ContractRows, Pending
<1>2. contracts[c].status = "ABSENT"
  BY DEF ConfirmLead, Existing, Live
<1>3. lead' \in [status : {"NONE", "CONTRACT_PENDING", "CONVERTED"},
                expert : Experts \cup {None}, contract : Contracts \cup {None}]
  BY DEF ConfirmLead, IInv, OthersInv
<1>4. ConfirmRow(lead.expert, c, row, paidAt)
  BY DEF ConfirmLead
<1>5. lead.expert \in Experts \cup {None}
  BY DEF IInv, OthersInv
<1> HIDE DEF row
<1>6. contracts[c].status \notin Final
  BY <1>2 DEF Final
<1> QED
  BY <1>1, <1>3, <1>4, <1>5, <1>6, ConfirmRowStep

\* A step that touches neither packages, nor grants, nor the portrait.
LEMMA QuietStep == UNCHANGED <<portrait, package, granted>> => GrantStep
BY DEF GrantStep, Slots

\* The check of createPayment and the row it writes afterwards.
LEMMA CheckOutStep ==
  ASSUME IInv, NEW o \in Orders, CheckOut(o) \/ CreateOrder(o)
  PROVE  IInv' /\ GrantStep
<1>1. PICK st \in {"CHECKED", "PENDING"} : orders' = [orders EXCEPT ![o].status = st]
  BY DEF CheckOut, CreateOrder
<1>2. /\ orders[o].status # "SUCCESS"
      /\ UNCHANGED <<contracts, lead, portrait, package, booking, granted>>
  BY DEF CheckOut, CreateOrder, NoOrder
<1>3. /\ orders \in [Orders -> OrderRows]
      /\ orders' = [orders EXCEPT ![o] = [orders[o] EXCEPT !.status = st]]
  BY <1>1 DEF IInv, OrdersInv
<1>4. /\ orders' \in [Orders -> OrderRows]
      /\ \A x \in Orders : orders'[x].ref = orders[x].ref
      /\ \A x \in Orders : x # o => orders'[x] = orders[x]
  BY <1>3 DEF OrderRows
<1>5. OrdersInv'
  BY <1>2, <1>4 DEF IInv, OrdersInv, OnePaymentOneOrder
<1>6. ContractsInv' /\ GrantsInv' /\ OthersInv'
  BY <1>2 DEF IInv, ContractsInv, GrantsInv, OthersInv
<1> QED
  BY <1>2, <1>5, <1>6, QuietStep DEF IInv

\* An order that gets the reference of a payment no other order has.
LEMMA ReferenceStep ==
  ASSUME OrdersInv, NEW o \in Orders, NEW p \in Payments, ~ Foreign(o, p),
         orders' = [orders EXCEPT ![o] = [status |-> "SUCCESS", ref |-> p]],
         granted' = granted \/ granted' = granted \cup {o}
  PROVE  OrdersInv'
<1>1. p # None
  BY EnrolmentAssumption
<1>2. /\ orders' \in [Orders -> OrderRows]
      /\ orders'[o] = [status |-> "SUCCESS", ref |-> p]
      /\ \A x \in Orders : x # o => orders'[x] = orders[x]
  BY DEF OrdersInv, OrderRows
<1>3. \A x \in Orders : x # o => orders[x].ref # p
  BY DEF Foreign
<1>4. \A x \in Orders : x \in granted' => x \in granted \/ x = o
  OBVIOUS
<1>5. ASSUME NEW x \in Orders
      PROVE  /\ orders'[x].ref # None => orders'[x].status = "SUCCESS"
             /\ x \in granted' => orders'[x].ref # None
             /\ \A y \in Orders \ {x} : orders'[y].ref = orders'[x].ref => orders'[x].ref = None
  <2>1. CASE x = o
    BY <1>1, <1>2, <1>3, <2>1
  <2>2. CASE x # o
    BY <1>1, <1>2, <1>3, <1>4, <2>2 DEF OrdersInv, OnePaymentOneOrder
  <2> QED
    BY <2>1, <2>2
<1> QED
  BY <1>2, <1>5 DEF OrdersInv, OnePaymentOneOrder

LEMMA RecordReferenceStep ==
  ASSUME IInv, NEW o \in Orders, NEW p \in Payments, RecordReference(o, p)
  PROVE  IInv' /\ GrantStep
<1>1. /\ orders[o].status = "SUCCESS" /\ ~ Foreign(o, p)
      /\ orders' = [orders EXCEPT ![o].ref = p]
      /\ UNCHANGED <<contracts, lead, portrait, package, booking, granted>>
  BY DEF RecordReference
<1>2. orders[o] \in OrderRows /\ orders \in [Orders -> OrderRows]
  BY DEF IInv, OrdersInv
<1>3. [orders[o] EXCEPT !.ref = p] = [status |-> "SUCCESS", ref |-> p]
  BY <1>1, <1>2 DEF OrderRows
<1>4. orders' = [orders EXCEPT ![o] = [status |-> "SUCCESS", ref |-> p]]
  BY <1>1, <1>2, <1>3
<1>5. OrdersInv'
  BY <1>1, <1>4, ReferenceStep DEF IInv
<1>6. ContractsInv' /\ GrantsInv' /\ OthersInv'
  BY <1>1 DEF IInv, ContractsInv, GrantsInv, OthersInv
<1> QED
  BY <1>1, <1>5, <1>6, QuietStep DEF IInv

\* The receipt of a student who pays at the desk changes the order alone; for any other
\* student no contract is confirmed, so the signed ones may simply become paid.
LEMMA SettleStep ==
  ASSUME IInv, NEW o \in Orders, NEW p \in Payments, SettleFreedomPayment(o, p)
  PROVE  IInv' /\ GrantStep
<1>1. /\ Awaiting(o) /\ ~ Foreign(o, p)
      /\ orders' = [orders EXCEPT ![o] = [status |-> "SUCCESS", ref |-> p]]
      /\ UNCHANGED <<lead, booking>>
  BY DEF SettleFreedomPayment
<1>2. CASE UsesManualPayments
  <2>1. UNCHANGED <<contracts, portrait, package, granted>>
    BY <1>2 DEF SettleFreedomPayment
  <2>2. OrdersInv'
    BY <1>1, <2>1, ReferenceStep DEF IInv
  <2>3. ContractsInv' /\ GrantsInv' /\ OthersInv'
    BY <1>1, <2>1 DEF IInv, ContractsInv, GrantsInv, OthersInv
  <2> QED
    BY <2>1, <2>2, <2>3, QuietStep DEF IInv
<1>3. CASE ~ UsesManualPayments
  <2>1. /\ portrait' = [portrait EXCEPT !.subscribed = TRUE]
        /\ package' = Credit(portrait.expert)
        /\ granted' = granted \cup {o}
        /\ contracts' = [c \in Contracts |-> IF contracts[c].status = "SIGNED"
                            THEN [contracts[c] EXCEPT !.status = "PAID"] ELSE contracts[c]]
    BY <1>3 DEF SettleFreedomPayment
  <2>2. OrdersInv'
    BY <1>1, <2>1, ReferenceStep DEF IInv
  <2>3. ASSUME NEW c \in Contracts
        PROVE  /\ contracts'[c] \in ContractRows /\ RowInOrder(contracts'[c])
               /\ contracts[c].status \in Final => contracts'[c].status \in Final
               /\ contracts'[c].status = "ABSENT" => ~ contracts'[c].signed
    <3>1. /\ contracts[c] \in ContractRows /\ RowInOrder(contracts[c])
          /\ contracts[c].status = "ABSENT" => ~ contracts[c].signed
      BY DEF IInv, ContractsInv
    <3>2. CASE contracts[c].status = "SIGNED"
      <4> DEFINE new == [contracts[c] EXCEPT !.status = "PAID"]
      <4>1. contracts'[c] = new
        BY <2>1, <3>2
      <4>2. ~ contracts[c].confirmed
        BY <1>3, <3>2 DEF UsesManualPayments, Existing, Live
      <4>3. new \in ContractRows /\ ~ new.confirmed /\ new.status = "PAID"
        BY <3>1, <4>2 DEF ContractRows, Final
      <4> QED
        BY <4>1, <4>3 DEF RowInOrder, Final
    <3>3. CASE contracts[c].status # "SIGNED"
      BY <2>1, <3>1, <3>3
    <3> QED
      BY <3>2, <3>3
  <2>4. ContractsInv'
    <3>1. contracts' \in [Contracts -> ContractRows]
      <4>1. contracts' = [c \in Contracts |-> contracts'[c]]
        BY <2>1
      <4> QED
        BY <2>3, <4>1
    <3> QED
      BY <2>3, <3>1 DEF ContractsInv
  <2>5. GrantsInv'
    BY <2>1, <2>3, EnrolmentAssumption DEF IInv, GrantsInv
  <2>6. portrait.expert \in Experts \cup {None}
    BY DEF IInv, OthersInv
  <2>7. package' \in [Experts -> PackageRows]
    BY <2>1, <2>6, CreditRows DEF IInv
  <2>8. portrait' \in [expert : Experts \cup {None}, subscribed : BOOLEAN]
    BY <2>1 DEF IInv, OthersInv
  <2>9. OthersInv'
    BY <1>1, <2>7, <2>8 DEF IInv, OthersInv
  <2>10. o \notin granted
    BY <1>1 DEF Awaiting, IInv, OrdersInv, OnePaymentOneOrder
  <2>11. Slots' = Credited(portrait.expert)
    BY <2>1, <2>6, CreditSlots DEF IInv
  <2>12. GrantStep
    <3>1. portrait'.expert = portrait.expert
      BY <2>1 DEF IInv, OthersInv
    <3> QED
      BY <2>1, <2>6, <2>10, <2>11, <3>1 DEF GrantStep
  <2> QED
    BY <2>2, <2>4, <2>5, <2>9, <2>12 DEF IInv
<1> QED
  BY <1>2, <1>3

\* The student changes hands, and consultations use what the package has.
LEMMA MoveStep ==
  ASSUME IInv, NEW e \in Experts, AssignPortrait(e) \/ TransferPortrait(e) \/ SelectExpert(e)
  PROVE  IInv' /\ GrantStep
<1>1. MoveTo(e)
  BY DEF AssignPortrait, TransferPortrait, SelectExpert
<1>2. ContractsInv' /\ OrdersInv' /\ GrantsInv'
  BY <1>1 DEF MoveTo, IInv, ContractsInv, OrdersInv, OnePaymentOneOrder, GrantsInv
<1>3. OthersInv'
  BY <1>1 DEF MoveTo, IInv, OthersInv
<1>4. GrantStep
  <2>1. portrait'.expert = e
    BY <1>1 DEF MoveTo, IInv, OthersInv
  <2> QED
    BY <1>1, <2>1 DEF MoveTo, GrantStep, Slots
<1> QED
  BY <1>2, <1>3, <1>4 DEF IInv

LEMMA FindPackageStep == ASSUME IInv, FindPackage PROVE IInv' /\ GrantStep
<1>1. ContractsInv' /\ OrdersInv' /\ GrantsInv'
  BY DEF FindPackage, IInv, ContractsInv, OrdersInv, OnePaymentOneOrder, GrantsInv
<1>2. booking' \in [expert : Experts \cup {None}, package : BOOLEAN]
  <2> DEFINE has == package[portrait.expert].total > 0
  <2>1. booking' = [expert |-> portrait.expert, package |-> has]
    BY DEF FindPackage
  <2>2. has \in BOOLEAN
    BY DEF FindPackage, IInv, OthersInv, PackageRows
  <2> HIDE DEF has
  <2> QED
    BY <2>1, <2>2 DEF IInv, OthersInv
<1>3. OthersInv'
  BY <1>2 DEF FindPackage, IInv, OthersInv
<1> QED
  BY <1>1, <1>3, QuietStep DEF FindPackage, IInv

LEMMA BookStep == ASSUME IInv, Book PROVE IInv' /\ GrantStep
<1>1. UNCHANGED <<contracts, lead, orders, portrait, granted>>
  BY DEF Book
<1>2. booking' \in [expert : Experts \cup {None}, package : BOOLEAN]
  BY DEF Book, NoBooking
<1>3. /\ package' \in [Experts -> PackageRows]
      /\ \A e \in Experts : package'[e].total = package[e].total
  <2>1. package \in [Experts -> PackageRows]
    BY DEF IInv, OthersInv
  <2>2. CASE UNCHANGED package
    BY <2>1, <2>2
  <2>3. CASE package' = [package EXCEPT ![booking.expert].used = @ + 1]
    <3> DEFINE b == booking.expert
               row == [package[b] EXCEPT !.used = package[b].used + 1]
    <3>1. package' = [package EXCEPT ![b] = row]
      BY <2>3
    <3>2. b \in Experts => row \in PackageRows /\ row.total = package[b].total
      BY <2>1 DEF PackageRows
    <3> HIDE DEF b, row
    <3> QED
      BY <2>1, <3>1, <3>2
  <2> QED
    BY <2>2, <2>3 DEF Book
<1>4. ContractsInv' /\ OrdersInv' /\ GrantsInv'
  BY <1>1 DEF IInv, ContractsInv, OrdersInv, OnePaymentOneOrder, GrantsInv
<1>5. OthersInv'
  BY <1>1, <1>2, <1>3 DEF IInv, OthersInv
<1>6. GrantStep
  <2>1. UNCHANGED Slots
    BY <1>3 DEF Slots
  <2> QED
    BY <1>1, <2>1 DEF GrantStep
<1> QED
  BY <1>4, <1>5, <1>6 DEF IInv

\* Every step keeps the invariant and is a step of the ledger or a stutter of it.
LEMMA NextInv == IInv /\ [Next]_vars => IInv' /\ GrantStep
<1> SUFFICES ASSUME IInv, [Next]_vars PROVE IInv' /\ GrantStep
  OBVIOUS
<1>1. ASSUME NEW actor \in Experts \cup {Admin}, NEW c \in Contracts, Desk(actor, c)
      PROVE  IInv' /\ GrantStep
  <2>1. ASSUME NEW type \in {"FULL", "INSTALLMENT"},
               CreateContract(actor, c, type) \/ UpdateMeta(actor, c, type)
        PROVE  IInv' /\ GrantStep
    <3>1. UNCHANGED <<portrait, package, granted>>
      BY <2>1 DEF CreateContract, UpdateMeta
    <3> QED
      BY <2>1, <3>1, QuietStep, CreateContractStep, UpdateMetaStep
  <2>2. CASE RecordSignature(actor, c)
    <3>1. UNCHANGED <<portrait, package, granted>>
      BY <2>2 DEF RecordSignature
    <3> QED
      BY <2>2, <3>1, QuietStep, RecordSignatureStep
  <2>3. ASSUME NEW date \in Dates, ConfirmManualContract(actor, c, date)
        PROVE  IInv' /\ GrantStep
    BY <2>3, ConfirmManualContractStep
  <2>4. ASSUME NEW date \in Dates, NEW n \in 1..Parts, ConfirmInstallment(actor, c, n, date)
        PROVE  IInv' /\ GrantStep
    <3>1. UNCHANGED <<portrait, package, granted>>
      BY <2>4 DEF ConfirmInstallment
    <3> QED
      BY <2>4, <3>1, QuietStep, ConfirmInstallmentStep
  <2> QED
    BY <1>1, <2>1, <2>2, <2>3, <2>4 DEF Desk
<1>2. ASSUME NEW c \in Contracts, NEW type \in {"FULL", "INSTALLMENT"}, NEW date \in Dates,
             ConfirmLead(c, type, date)
      PROVE  IInv' /\ GrantStep
  BY <1>2, ConfirmLeadStep
<1>3. ASSUME NEW o \in Orders, Gateway(o)
      PROVE  IInv' /\ GrantStep
  BY <1>3, CheckOutStep, RecordReferenceStep, SettleStep DEF Gateway
<1>4. ASSUME NEW e \in Experts, AssignPortrait(e) \/ TransferPortrait(e) \/ SelectExpert(e)
      PROVE  IInv' /\ GrantStep
  BY <1>4, MoveStep
<1>5. CASE FindPackage \/ Book
  BY <1>5, FindPackageStep, BookStep
<1>6. CASE UNCHANGED vars
  <2>1. UNCHANGED <<contracts, lead, orders, portrait, package, booking, granted>>
    BY <1>6 DEF vars
  <2>2. ContractsInv' /\ OrdersInv'
    BY <2>1 DEF IInv, ContractsInv, OrdersInv, OnePaymentOneOrder
  <2>3. GrantsInv' /\ OthersInv'
    BY <2>1 DEF IInv, GrantsInv, OthersInv
  <2> QED
    BY <2>1, <2>2, <2>3, QuietStep DEF IInv
<1> QED
  BY <1>1, <1>2, <1>3, <1>4, <1>5, <1>6 DEF Next

\* The invariant holds throughout.
THEOREM Invariance == Spec => []IInv
<1>1. IInv /\ [Next]_vars => IInv'
  BY NextInv
<1> QED
  BY <1>1, InitInv, PTL DEF Spec

\* Every variable has its type (the tables of the contract, billing and portrait modules).
THEOREM TypesHold == Spec => []TypeOK
<1>1. IInv => TypeOK
  BY IInvImplies
<1> QED
  BY <1>1, Invariance, PTL

\* A confirmed contract is paid from the first instalment on, in the order of the dates, and
\* is PAID exactly when nothing is outstanding (manual-contract.service.ts).
THEOREM InstalmentsStayInOrder == Spec => []InstalmentsInOrder
<1>1. IInv => InstalmentsInOrder
  BY IInvImplies
<1> QED
  BY <1>1, Invariance, PTL

\* One payment of the provider settles one order, however often and late it is reported
\* (payment.repository.ts).
THEOREM OnePaymentPerOrder == Spec => []OnePaymentOneOrder
<1>1. IInv => OnePaymentOneOrder
  BY IInvImplies
<1> QED
  BY <1>1, Invariance, PTL

\* Enrolment implements BenefitLedger: benefits are granted once per contract and once per
\* order, one tier each time, for the expert the student has or is given with it.
THEOREM ImplementsLedger == Spec => GrantedOnce
<1>1. IInv => Benefits!Init
  BY DEF IInv, GrantsInv, OthersInv, PackageRows, Benefits!Init
<1>2. GrantStep => [Benefits!Next]_<<portrait.expert, granted, [e \in Experts |-> package[e].total]>>
  BY DEF GrantStep, Slots, Credited, Benefits!Next, Benefits!Issue, Benefits!Assign
<1>3. Init => Benefits!Init
  BY <1>1, InitInv
<1>4. IInv /\ [Next]_vars
        => [Benefits!Next]_<<portrait.expert, granted, [e \in Experts |-> package[e].total]>>
  BY <1>2, NextInv
<1> QED
  BY <1>3, <1>4, Invariance, PTL DEF Spec, GrantedOnce, Benefits!Spec

\* What a step may do to a row: keep the terms of a signed one, the dates of a confirmed one
\* and everything of a paid one.
Settled(old, new) ==
  /\ old.signed => new.type = old.type \/ (old.type = "NULL" /\ new.type = "FULL")
  /\ old.confirmed => /\ new.confirmed
                      /\ \A i \in DOMAIN old.paid : old.paid[i] # 0 => new.paid[i] = old.paid[i]
  /\ old.status = "PAID" => new = old

\* The invariant gives the guards their force: a signed contract is not editable, a paid one
\* has nothing outstanding, and none is confirmed when an order is settled.
LEMMA SettledStep == IInv /\ [Next]_vars => \A x \in Contracts : Settled(contracts[x], contracts'[x])
<1> SUFFICES ASSUME IInv, [Next]_vars, NEW x \in Contracts
             PROVE  Settled(contracts[x], contracts'[x])
  OBVIOUS
<1> DEFINE old == contracts[x]
           new == contracts'[x]
<1>1. /\ contracts \in [Contracts -> ContractRows] /\ old \in ContractRows /\ RowInOrder(old)
      /\ old.status = "ABSENT" => ~ old.signed
  BY DEF IInv, ContractsInv
<1>2. ASSUME UNCHANGED contracts PROVE Settled(old, new)
  BY <1>2 DEF Settled
<1>3. ASSUME NEW row \in ContractRows, NEW paidAt \in Dates, NEW actor, NEW c \in Contracts,
             ConfirmRow(actor, c, row, paidAt),
             row = contracts[c] \/ contracts[c].status = "ABSENT"
      PROVE  Settled(old, new)
  <2> DEFINE s == Schedule(row, paidAt)
             st == IF Len(s) = 1 THEN "PAID" ELSE "SIGNED"
             ty == IF row.type = "NULL" THEN "FULL" ELSE row.type
             next == [status |-> st, type |-> ty, signed |-> TRUE, confirmed |-> TRUE, paid |-> s]
  <2>1. contracts' = [contracts EXCEPT ![c] = next] /\ ~ row.confirmed /\ row.status # "PAID"
    BY <1>3 DEF ConfirmRow
  <2> HIDE DEF st, s
  <2>2. next.type = ty
    OBVIOUS
  <2> HIDE DEF next
  <2>3. CASE x = c
    <3>1. new = next
      BY <1>1, <2>1, <2>3
    <3>2. ~ old.confirmed /\ old.status # "PAID"
      BY <1>1, <1>3, <2>1, <2>3 DEF RowInOrder
    <3>3. old.signed => old = row
      BY <1>1, <1>3, <2>3
    <3> QED
      BY <2>2, <3>1, <3>2, <3>3 DEF Settled
  <2>4. CASE x # c
    BY <1>1, <2>1, <2>4 DEF Settled
  <2> QED
    BY <2>3, <2>4
<1>4. ASSUME NEW actor, NEW c \in Contracts, NEW type \in {"FULL", "INSTALLMENT"},
             CreateContract(actor, c, type)
      PROVE  Settled(old, new)
  <2>1. ~ old.signed /\ ~ old.confirmed /\ old.status # "PAID"
    BY <1>1, <1>4 DEF CreateContract, Existing, Live, RowInOrder
  <2> QED
    BY <2>1 DEF Settled
<1>5. ASSUME NEW actor, NEW c \in Contracts, NEW type \in {"FULL", "INSTALLMENT"},
             UpdateMeta(actor, c, type)
      PROVE  Settled(old, new)
  <2>1. CASE x = c
    <3>1. ~ old.signed /\ ~ old.confirmed /\ old.status # "PAID"
      BY <1>1, <1>5, <2>1 DEF UpdateMeta, Editable, Final, RowInOrder
    <3> QED
      BY <3>1 DEF Settled
  <2>2. CASE x # c
    BY <1>1, <1>5, <2>2 DEF UpdateMeta, Settled
  <2> QED
    BY <2>1, <2>2
<1>6. ASSUME NEW actor, NEW c \in Contracts, RecordSignature(actor, c)
      PROVE  Settled(old, new)
  <2>1. CASE x = c
    <3>1. ~ old.confirmed /\ old.status # "PAID"
      BY <1>6, <2>1 DEF RecordSignature, Final
    <3>2. new = [old EXCEPT !.signed = TRUE]
      BY <1>1, <1>6, <2>1 DEF RecordSignature
    <3>3. new.type = old.type
      BY <1>1, <3>2 DEF ContractRows
    <3> QED
      BY <3>1, <3>3 DEF Settled
  <2>2. CASE x # c
    BY <1>1, <1>6, <2>2 DEF RecordSignature, Settled
  <2> QED
    BY <2>1, <2>2
<1>7. ASSUME NEW actor, NEW c \in Contracts, NEW n \in 1..Parts, NEW paidAt \in Dates,
             ConfirmInstallment(actor, c, n, paidAt)
      PROVE  Settled(old, new)
  <2>1. CASE x = c
    <3> DEFINE paid == [old.paid EXCEPT ![n] = paidAt]
               st == IF \A i \in DOMAIN paid : paid[i] # 0 THEN "PAID" ELSE old.status
    <3>1. /\ new = [old EXCEPT !.paid = paid, !.status = st]
          /\ old.confirmed /\ n \in DOMAIN old.paid /\ old.paid[n] = 0
      BY <1>1, <1>7, <2>1 DEF ConfirmInstallment, InOrder
    <3>2. old.status # "PAID"
      BY <1>1, <3>1 DEF RowInOrder
    <3>3. \A i \in DOMAIN old.paid : old.paid[i] # 0 => paid[i] = old.paid[i]
      BY <3>1
    <3> HIDE DEF paid, st
    <3>4. new.type = old.type /\ new.confirmed = old.confirmed /\ new.paid = paid
      BY <1>1, <3>1 DEF ContractRows
    <3> QED
      BY <3>1, <3>2, <3>3, <3>4 DEF Settled
  <2>2. CASE x # c
    BY <1>1, <1>7, <2>2 DEF ConfirmInstallment, Settled
  <2> QED
    BY <2>1, <2>2
<1>8. ASSUME NEW o, NEW p, SettleFreedomPayment(o, p), ~ UsesManualPayments
      PROVE  Settled(old, new)
  <2>1. new = IF old.status = "SIGNED" THEN [old EXCEPT !.status = "PAID"] ELSE old
    BY <1>8 DEF SettleFreedomPayment
  <2>2. CASE old.status = "SIGNED"
    <3>1. ~ old.confirmed
      BY <1>8, <2>2 DEF UsesManualPayments, Existing, Live
    <3>2. new.type = old.type
      BY <1>1, <2>1, <2>2 DEF ContractRows
    <3> QED
      BY <2>2, <3>1, <3>2 DEF Settled
  <2>3. CASE old.status # "SIGNED"
    BY <2>1, <2>3 DEF Settled
  <2> QED
    BY <2>2, <2>3
<1> HIDE DEF old, new
<1>9. ASSUME NEW actor \in Experts \cup {Admin}, NEW c \in Contracts, Desk(actor, c)
      PROVE  Settled(old, new)
  <2>1. ASSUME NEW date \in Dates, ConfirmManualContract(actor, c, date)
        PROVE  Settled(old, new)
    <3>1. ConfirmRow(actor, c, contracts[c], date) /\ contracts[c] \in ContractRows
      BY <1>1, <2>1 DEF ConfirmManualContract
    <3> QED
      BY <1>3, <3>1
  <2> QED
    BY <1>4, <1>5, <1>6, <1>7, <1>9, <2>1 DEF Desk
<1>10. ASSUME NEW c \in Contracts, NEW type \in {"FULL", "INSTALLMENT"}, NEW date \in Dates,
              ConfirmLead(c, type, date)
       PROVE  Settled(old, new)
  <2> DEFINE row == [NoContract EXCEPT !.status = "PENDING_EXPERT", !.type = type]
  <2>1. row \in ContractRows
    BY HistoricalRows DEF NoContract, ContractRows, Pending
  <2>2. contracts[c].status = "ABSENT" /\ ConfirmRow(lead.expert, c, row, date)
    BY <1>10 DEF ConfirmLead, Existing, Live
  <2> HIDE DEF row
  <2> QED
    BY <1>3, <2>1, <2>2
<1>11. ASSUME NEW o \in Orders, Gateway(o)
       PROVE  Settled(old, new)
  <2>1. CASE CheckOut(o) \/ CreateOrder(o) \/ \E p \in Payments : RecordReference(o, p)
    <3>1. UNCHANGED contracts
      BY <2>1 DEF CheckOut, CreateOrder, RecordReference
    <3> QED
      BY <1>2, <3>1
  <2>2. ASSUME NEW p \in Payments, SettleFreedomPayment(o, p)
        PROVE  Settled(old, new)
    <3>1. CASE UsesManualPayments
      <4>1. UNCHANGED contracts
        BY <2>2, <3>1 DEF SettleFreedomPayment
      <4> QED
        BY <1>2, <4>1
    <3>2. CASE ~ UsesManualPayments
      BY <1>8, <2>2, <3>2
    <3> QED
      BY <3>1, <3>2
  <2> QED
    BY <1>11, <2>1, <2>2 DEF Gateway
<1>12. ASSUME \E e \in Experts : AssignPortrait(e) \/ TransferPortrait(e) \/ SelectExpert(e)
       PROVE  Settled(old, new)
  <2>1. UNCHANGED contracts
    BY <1>12 DEF AssignPortrait, TransferPortrait, SelectExpert, MoveTo
  <2> QED
    BY <1>2, <2>1
<1>13. ASSUME FindPackage \/ Book \/ UNCHANGED vars
       PROVE  Settled(old, new)
  <2>1. UNCHANGED contracts
    BY <1>13 DEF FindPackage, Book, vars
  <2> QED
    BY <1>2, <2>1
<1> QED
  BY <1>9, <1>10, <1>11, <1>12, <1>13 DEF Next, old, new

\* What was signed and paid stays (contract.repository.ts, manual-contract.service.ts,
\* payment.repository.ts).
THEOREM SettledForGood == Spec => SettledStays
<1>1. IInv /\ [Next]_vars =>
        [\A c \in Contracts :
           LET old == contracts[c]  new == contracts'[c] IN
           /\ old.signed => new.type = old.type \/ (old.type = "NULL" /\ new.type = "FULL")
           /\ old.confirmed => /\ new.confirmed
                               /\ \A i \in DOMAIN old.paid :
                                    old.paid[i] # 0 => new.paid[i] = old.paid[i]
           /\ old.status = "PAID" => new = old]_vars
  BY SettledStep DEF Settled
<1> QED
  BY <1>1, Invariance, PTL DEF Spec, SettledStays

=============================================================================
