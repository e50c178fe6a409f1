------------------------ MODULE LeadLifecycle_proofs ------------------------
(***************************************************************************)
(* Proofs about LeadLifecycle.  Every state invariant of the module is a   *)
(* conjunct of IInv, because they hold each other up: decline and followUp *)
(* write the lead's status without reading it and keep StatusMatchesCall   *)
(* only through OneActiveCall; an answered call belongs to the lead's      *)
(* expert only through ActiveCallAnswerable; a callback that is due        *)
(* excludes a call only because CallbackExclusive and StatusMatchesCall    *)
(* agree on the status.  The one conjunct no run names is DraftHasTerms.   *)
(*                                                                         *)
(* There is one lemma per action, and in it one step per conjunct (or pair *)
(* of conjuncts) of IInv.  The actions that close, cancel and remind many  *)
(* rows at once rest on three lemmas about what those operators leave.     *)
(* The second part is the refinement of LeadFunnel, action by action again.*)
(***************************************************************************)
EXTENDS LeadLifecycle, TLAPS

\* A draft row carries terms: a contract is never created from terms that are missing.
DraftHasTerms == draft.status # "NONE" <=> draft.terms # None

\* The inductive invariant.
IInv ==
  /\ TypeOK
  /\ OneActiveCall
  /\ StatusMatchesCall
  /\ ActiveCallAnswerable
  /\ StartedByAssigned
  /\ MeetingMatchesCall
  /\ CallbackExclusive
  /\ ReminderTracksCallback
  /\ PreviewBookedOnce
  /\ ContractingFrozen
  /\ DraftHasTerms

\* A lead that has just arrived satisfies the invariant.
LEMMA InitInv == Init => IInv
<1> SUFFICES ASSUME Init PROVE IInv
  OBVIOUS
<1> USE DEF Init, FreeCall, FreeCallback, FreeReminder, FreePreview
<1>1. TypeOK
  BY DEF TypeOK, Leads, CallRows, CallbackRows, ReminderRows, PreviewRows, Drafts,
     LeadStatus, Formats, MaybeExpert
<1>2. OneActiveCall /\ StatusMatchesCall /\ ActiveCallAnswerable /\ StartedByAssigned
  BY DEF OneActiveCall, StatusMatchesCall, ActiveCallAnswerable, StartedByAssigned, Active,
     Consulting
<1>3. MeetingMatchesCall /\ CallbackExclusive /\ ReminderTracksCallback
  BY DEF MeetingMatchesCall, CallbackExclusive, ReminderTracksCallback
<1>4. PreviewBookedOnce /\ ContractingFrozen /\ DraftHasTerms
  BY DEF PreviewBookedOnce, ContractingFrozen, DraftHasTerms, Contracting
<1> QED
  BY <1>1, <1>2, <1>3, <1>4 DEF IInv

\* What cancelActiveExpertCalls and prepare leave of the calls: no open one, their
\* meetings closed, nothing else changed.
LEMMA CloseActiveCallsRows ==
  ASSUME TypeOK, NEW st \in {"CANCELLED", "COMPLETED"}
  PROVE  /\ CloseActiveCalls(st) \in [Calls -> CallRows]
         /\ \A c \in Calls :
              /\ CloseActiveCalls(st)[c].status = IF Active(c) THEN st ELSE calls[c].status
              /\ CloseActiveCalls(st)[c].expert = calls[c].expert
              /\ CloseActiveCalls(st)[c].format = calls[c].format
              /\ CloseActiveCalls(st)[c].invitation = calls[c].invitation
              /\ CloseActiveCalls(st)[c].meeting =
                   IF Active(c) /\ calls[c].meeting # "NONE" THEN st ELSE calls[c].meeting
<1>1. \A c \in Calls : calls[c] \in CallRows
  BY DEF TypeOK
<1> QED
  BY <1>1 DEF CloseActiveCalls, CallRows

\* Cancelling the scheduled callbacks leaves none scheduled and moves none.
LEMMA CancelCallbacksRows ==
  ASSUME TypeOK
  PROVE  /\ CancelCallbacks \in [Callbacks -> CallbackRows]
         /\ \A k \in Callbacks :
              /\ CancelCallbacks[k].status # "SCHEDULED"
              /\ CancelCallbacks[k].time = callbacks[k].time
<1>1. \A k \in Callbacks : callbacks[k] \in CallbackRows
  BY DEF TypeOK
<1> QED
  BY <1>1 DEF CancelCallbacks, CallbackRows

\* Cancelling the pending reminders leaves none pending and recalls none already sent.
LEMMA CancelRemindersRows ==
  ASSUME TypeOK
  PROVE  /\ CancelReminders \in [Reminders -> ReminderRows]
         /\ \A r \in Reminders :
              /\ CancelReminders[r].status # "PENDING"
              /\ CancelReminders[r].status = "SENT" <=> reminders[r].status = "SENT"
              /\ CancelReminders[r].callback = reminders[r].callback
              /\ CancelReminders[r].time = reminders[r].time
<1>1. \A r \in Reminders : reminders[r] \in ReminderRows
  BY DEF TypeOK
<1> QED
  BY <1>1 DEF CancelReminders, ReminderRows

\* Sales claims the lead: only its owner changes.
LEMMA AcceptInv ==
  ASSUME IInv, NEW m \in Managers,
         Accept(m)
  PROVE  IInv'
<1> USE DEF Accept, IInv
<1>1. TypeOK'
  BY DEF TypeOK, Leads
<1>2. OneActiveCall' /\ StatusMatchesCall'
  BY DEF Active, OneActiveCall, StatusMatchesCall
<1>3. ActiveCallAnswerable' /\ StartedByAssigned'
  BY DEF Active, ActiveCallAnswerable, StartedByAssigned
<1>4. MeetingMatchesCall' /\ PreviewBookedOnce'
  BY DEF MeetingMatchesCall, PreviewBookedOnce
<1>5. CallbackExclusive'
  BY DEF CallbackExclusive
<1>6. ReminderTracksCallback'
  BY DEF ReminderTracksCallback
<1>7. ContractingFrozen' /\ DraftHasTerms'
  BY DEF Contracting, ContractingFrozen, DraftHasTerms
<1> QED
  BY <1>1, <1>2, <1>3, <1>4, <1>5, <1>6, <1>7

\* A new callback closes the open call and supersedes the callback and reminder before it.
LEMMA CreateCallbackInv ==
  ASSUME IInv, NEW m \in Managers, NEW k \in Callbacks, NEW r \in Reminders, NEW t \in Times,
         CreateCallback(m, k, r, t)
  PROVE  IInv'
<1> USE DEF CreateCallback, IInv, MutableOwned, RemindInstead
<1>1. TypeOK'
  BY CloseActiveCallsRows, CancelCallbacksRows, CancelRemindersRows DEF TypeOK, Leads,
     LeadStatus, CallbackRows, ReminderRows
<1>2. OneActiveCall' /\ StatusMatchesCall'
  <2>1. \A c \in Calls : ~Active(c)'
    BY CloseActiveCallsRows DEF Active
  <2>2. lead'.status \notin Consulting
    BY DEF TypeOK, Leads, Consulting
  <2> QED
    BY <2>1, <2>2 DEF OneActiveCall, StatusMatchesCall
<1>3. ActiveCallAnswerable' /\ StartedByAssigned'
  BY CloseActiveCallsRows DEF Active, ActiveCallAnswerable, StartedByAssigned
<1>4. MeetingMatchesCall' /\ PreviewBookedOnce'
  BY CloseActiveCallsRows, CancelRemindersRows DEF Active, TypeOK, CallRows, CallbackRows,
     PreviewRows, MeetingMatchesCall, PreviewBookedOnce
<1>5. CallbackExclusive'
  <2>1. lead'.status = "RECALL"
    OBVIOUS
  <2>2. \A j \in Callbacks : callbacks'[j].status = "SCHEDULED" => j = k
    BY CancelCallbacksRows
  <2>3. \A c \in Calls : ~Active(c)'
    BY CloseActiveCallsRows DEF Active
  <2> QED
    BY <2>1, <2>2, <2>3 DEF CallbackExclusive
<1>6. ReminderTracksCallback'
  BY CancelCallbacksRows, CancelRemindersRows DEF ReminderTracksCallback
<1>7. ContractingFrozen' /\ DraftHasTerms'
  BY DEF Contracting, ContractingFrozen, DraftHasTerms
<1> QED
  BY <1>1, <1>2, <1>3, <1>4, <1>5, <1>6, <1>7

\* A moved callback takes its reminder along; a closed one leaves no reminder pending.
LEMMA UpdateCallbackInv ==
  ASSUME IInv, NEW m \in Managers, NEW k \in Callbacks,
         NEW st \in {"SCHEDULED", "COMPLETED", "CANCELLED"},
         NEW t \in Times, NEW r \in Reminders,
         UpdateCallback(m, k, st, t, r)
  PROVE  IInv'
<1> USE DEF UpdateCallback, IInv, MutableOwned, RemindInstead
<1>1. TypeOK'
  BY NoneIsNull, CancelRemindersRows DEF TypeOK, Leads, LeadStatus, CallbackRows, ReminderRows
<1>2. OneActiveCall' /\ StatusMatchesCall'
  BY DEF Active, TypeOK, Leads, Consulting, OneActiveCall, StatusMatchesCall,
     CallbackExclusive
<1>3. ActiveCallAnswerable' /\ StartedByAssigned'
  BY DEF Active, TypeOK, Leads, CallRows, ActiveCallAnswerable, StartedByAssigned
<1>4. MeetingMatchesCall' /\ PreviewBookedOnce'
  BY DEF MeetingMatchesCall, PreviewBookedOnce
<1>5. CallbackExclusive'
  BY DEF Active, TypeOK, CallbackExclusive
<1>6. ReminderTracksCallback'
  <2>1. CASE st = "SCHEDULED"
    <3>1. reminders' = RemindInstead(r, k, t)
      BY <2>1
    <3>2. \A q \in Reminders : reminders'[q].status = "PENDING" => q = r
      BY <3>1, CancelRemindersRows
    <3>3. /\ reminders'[r] = [status |-> "PENDING", callback |-> k, time |-> t]
          /\ callbacks'[k] = [status |-> st, time |-> t]
      BY <3>1, CancelRemindersRows DEF TypeOK
    <3>4. \A j \in Callbacks : callbacks'[j].status = "SCHEDULED" => j = k
      BY DEF CallbackExclusive
    <3> QED
      BY <3>2, <3>3, <3>4, <2>1 DEF ReminderTracksCallback
  <2>2. CASE st # "SCHEDULED"
    <3>1. reminders' = CancelReminders
      BY <2>2
    <3>2. \A q \in Reminders : reminders'[q].status # "PENDING"
      BY <3>1, CancelRemindersRows
    <3>3. \A j \in Callbacks : callbacks'[j].status # "SCHEDULED"
      BY <2>2 DEF TypeOK, CallbackExclusive
    <3> QED
      BY <3>2, <3>3 DEF ReminderTracksCallback
  <2> QED
    BY <2>1, <2>2
<1>7. ContractingFrozen' /\ DraftHasTerms'
  BY DEF TypeOK, Leads, Contracting, ContractingFrozen, DraftHasTerms
<1> QED
  BY <1>1, <1>2, <1>3, <1>4, <1>5, <1>6, <1>7

\* Rejecting closes everything open.
LEMMA RejectInv ==
  ASSUME IInv, NEW m \in Managers,
         Reject(m)
  PROVE  IInv'
<1> USE DEF Reject, IInv, MutableOwned
<1>1. TypeOK'
  BY CloseActiveCallsRows, CancelCallbacksRows, CancelRemindersRows DEF TypeOK, Leads,
     LeadStatus
<1>2. OneActiveCall' /\ StatusMatchesCall'
  <2>1. \A c \in Calls : ~Active(c)'
    BY CloseActiveCallsRows DEF Active
  <2>2. lead'.status \notin Consulting
    BY DEF TypeOK, Leads, Consulting
  <2> QED
    BY <2>1, <2>2 DEF OneActiveCall, StatusMatchesCall
<1>3. ActiveCallAnswerable' /\ StartedByAssigned'
  BY CloseActiveCallsRows DEF Active, ActiveCallAnswerable, StartedByAssigned
<1>4. MeetingMatchesCall' /\ PreviewBookedOnce'
  BY NoneIsNull, CloseActiveCallsRows, CancelCallbacksRows, CancelRemindersRows DEF Active,
     TypeOK, CallRows, ReminderRows, PreviewRows, Drafts, Formats, MaybeExpert,
     MeetingMatchesCall, PreviewBookedOnce
<1>5. CallbackExclusive'
  BY CancelCallbacksRows DEF CallbackExclusive
<1>6. ReminderTracksCallback'
  BY CancelCallbacksRows, CancelRemindersRows DEF ReminderTracksCallback
<1>7. ContractingFrozen' /\ DraftHasTerms'
  BY DEF Contracting, ContractingFrozen, DraftHasTerms
<1> QED
  BY <1>1, <1>2, <1>3, <1>4, <1>5, <1>6, <1>7

\* A preview touches nothing but its own row.
LEMMA PreviewInv ==
  ASSUME IInv, NEW m \in Managers, NEW p \in Previews, NEW e \in Experts, NEW f \in Formats,
         Preview(m, p, e, f)
  PROVE  IInv'
<1> USE DEF Preview, IInv
<1>1. TypeOK'
  BY DEF TypeOK, PreviewRows, MaybeExpert
<1>2. OneActiveCall' /\ StatusMatchesCall'
  BY DEF Active, OneActiveCall, StatusMatchesCall
<1>3. ActiveCallAnswerable' /\ StartedByAssigned'
  BY DEF Active, ActiveCallAnswerable, StartedByAssigned
<1>4. MeetingMatchesCall' /\ PreviewBookedOnce'
  BY DEF MeetingMatchesCall, PreviewBookedOnce
<1>5. CallbackExclusive'
  BY DEF Active, CallbackExclusive
<1>6. ReminderTracksCallback'
  BY DEF ReminderTracksCallback
<1>7. ContractingFrozen' /\ DraftHasTerms'
  BY DEF Active, ContractingFrozen, DraftHasTerms
<1> QED
  BY <1>1, <1>2, <1>3, <1>4, <1>5, <1>6, <1>7

\* Only a preview without a call is cancelled.
LEMMA CancelPreviewInv ==
  ASSUME IInv, NEW m \in Managers, NEW p \in Previews,
         CancelPreview(m, p)
  PROVE  IInv'
<1> USE DEF CancelPreview, IInv
<1>1. TypeOK'
  BY DEF TypeOK, PreviewRows
<1>2. OneActiveCall' /\ StatusMatchesCall'
  BY DEF Active, OneActiveCall, StatusMatchesCall
<1>3. ActiveCallAnswerable' /\ StartedByAssigned'
  BY DEF Active, ActiveCallAnswerable, StartedByAssigned
<1>4. MeetingMatchesCall' /\ PreviewBookedOnce'
  BY DEF MeetingMatchesCall, PreviewBookedOnce
<1>5. CallbackExclusive'
  BY DEF Active, CallbackExclusive
<1>6. ReminderTracksCallback'
  BY DEF ReminderTracksCallback
<1>7. ContractingFrozen' /\ DraftHasTerms'
  BY DEF Active, ContractingFrozen, DraftHasTerms
<1> QED
  BY <1>1, <1>2, <1>3, <1>4, <1>5, <1>6, <1>7

\* Booking finds no open call and cancels the callback that was due.
LEMMA BookCallInv ==
  ASSUME IInv, NEW m \in Managers, NEW c \in Calls, NEW e \in Experts, NEW f \in Formats,
         NEW p \in Previews \cup {None},
         BookCall(m, c, e, f, p)
  PROVE  IInv'
<1> USE DEF BookCall, IInv, MutableOwned, NoOpenCall, Assign
<1>1. TypeOK'
  BY NoneIsNull, CancelCallbacksRows, CancelRemindersRows DEF TypeOK, Leads, LeadStatus,
     CallRows, MaybeExpert
<1>2. OneActiveCall' /\ StatusMatchesCall'
  BY DEF Active, TypeOK, Consulting, OneActiveCall, StatusMatchesCall
<1>3. ActiveCallAnswerable' /\ StartedByAssigned'
  BY NoneIsNull DEF Active, ActiveCallAnswerable, StartedByAssigned
<1>4. MeetingMatchesCall' /\ PreviewBookedOnce'
  BY DEF MeetingMatchesCall, PreviewBookedOnce
<1>5. CallbackExclusive'
  BY CancelCallbacksRows DEF CallbackExclusive
<1>6. ReminderTracksCallback'
  BY CancelCallbacksRows, CancelRemindersRows DEF ReminderTracksCallback
<1>7. ContractingFrozen' /\ DraftHasTerms'
  BY DEF Contracting, ContractingFrozen, DraftHasTerms
<1> QED
  BY <1>1, <1>2, <1>3, <1>4, <1>5, <1>6, <1>7

\* Moving the open call moves the lead's expert with it.
LEMMA UpdateCallInv ==
  ASSUME IInv, NEW m \in Managers, NEW c \in Calls, NEW e \in Experts,
         UpdateCall(m, c, e)
  PROVE  IInv'
<1> USE DEF UpdateCall, IInv, Assign
<1>1. TypeOK'
  <2>1. calls[c] \in CallRows
    BY DEF TypeOK
  <2>2. [calls[c] EXCEPT !.expert = e, !.startPassed = FALSE] \in CallRows
    BY <2>1 DEF CallRows, MaybeExpert
  <2>3. calls' \in [Calls -> CallRows]
    BY <2>2 DEF TypeOK
  <2>4. lead' \in Leads
    BY DEF TypeOK, Leads, MaybeExpert
  <2> QED
    BY <2>3, <2>4 DEF TypeOK
<1>2. OneActiveCall' /\ StatusMatchesCall'
  BY DEF Active, OneActiveCall, StatusMatchesCall
<1>3. ActiveCallAnswerable' /\ StartedByAssigned'
  BY NoneIsNull DEF Active, TypeOK, OneActiveCall, ActiveCallAnswerable, StartedByAssigned
<1>4. MeetingMatchesCall' /\ PreviewBookedOnce'
  BY DEF MeetingMatchesCall, PreviewBookedOnce
<1>5. CallbackExclusive'
  BY DEF Active, CallbackExclusive
<1>6. ReminderTracksCallback'
  BY DEF ReminderTracksCallback
<1>7. ContractingFrozen' /\ DraftHasTerms'
  BY DEF Active, ContractingFrozen, DraftHasTerms
<1> QED
  BY <1>1, <1>2, <1>3, <1>4, <1>5, <1>6, <1>7

\* Confirming opens the meeting of an online call.
LEMMA ConfirmCallInv ==
  ASSUME IInv, NEW e \in Experts, NEW c \in Calls,
         ConfirmCall(e, c)
  PROVE  IInv'
<1> USE DEF ConfirmCall, IInv, Answerable
<1>1. TypeOK'
  <2>1. calls[c] \in CallRows
    BY DEF TypeOK
  <2>2. [calls[c] EXCEPT !.status = "CONFIRMED",
           !.meeting = IF calls[c].format = "OFFICE" THEN "NONE" ELSE "SCHEDULED"] \in CallRows
    BY <2>1 DEF CallRows
  <2> QED
    BY <2>2 DEF TypeOK
<1>2. OneActiveCall' /\ StatusMatchesCall'
  BY DEF Active, OneActiveCall, StatusMatchesCall
<1>3. ActiveCallAnswerable' /\ StartedByAssigned'
  BY DEF Active, ActiveCallAnswerable, StartedByAssigned
<1>4. MeetingMatchesCall' /\ PreviewBookedOnce'
  BY DEF TypeOK, CallRows, Formats, MeetingMatchesCall, PreviewBookedOnce
<1>5. CallbackExclusive'
  BY DEF Active, CallbackExclusive
<1>6. ReminderTracksCallback'
  BY DEF ReminderTracksCallback
<1>7. ContractingFrozen' /\ DraftHasTerms'
  BY DEF Active, ContractingFrozen, DraftHasTerms
<1> QED
  BY <1>1, <1>2, <1>3, <1>4, <1>5, <1>6, <1>7

\* Declining the only open call returns the lead to Sales.
LEMMA DeclineCallInv ==
  ASSUME IInv, NEW e \in Experts, NEW c \in Calls,
         DeclineCall(e, c)
  PROVE  IInv'
<1> USE DEF DeclineCall, IInv, Answerable
<1>1. TypeOK'
  BY DEF TypeOK, Leads, LeadStatus, CallRows
<1>2. OneActiveCall' /\ StatusMatchesCall'
  BY DEF Active, TypeOK, Consulting, OneActiveCall, StatusMatchesCall
<1>3. ActiveCallAnswerable' /\ StartedByAssigned'
  BY DEF Active, ActiveCallAnswerable, StartedByAssigned
<1>4. MeetingMatchesCall' /\ PreviewBookedOnce'
  BY DEF MeetingMatchesCall, PreviewBookedOnce
<1>5. CallbackExclusive'
  BY DEF Active, CallbackExclusive
<1>6. ReminderTracksCallback'
  BY DEF ReminderTracksCallback
<1>7. ContractingFrozen' /\ DraftHasTerms'
  BY DEF Active, Contracting, ContractingFrozen, DraftHasTerms
<1> QED
  BY <1>1, <1>2, <1>3, <1>4, <1>5, <1>6, <1>7

\* The assigned expert starts.
LEMMA StartInv ==
  ASSUME IInv, NEW e \in Experts,
         Start(e)
  PROVE  IInv'
<1> USE DEF Start, IInv
<1>1. TypeOK'
  BY DEF TypeOK, Leads
<1>2. OneActiveCall' /\ StatusMatchesCall'
  BY DEF Active, OneActiveCall, StatusMatchesCall
<1>3. ActiveCallAnswerable' /\ StartedByAssigned'
  BY DEF Active, ActiveCallAnswerable, StartedByAssigned
<1>4. MeetingMatchesCall' /\ PreviewBookedOnce'
  BY DEF MeetingMatchesCall, PreviewBookedOnce
<1>5. CallbackExclusive'
  BY DEF StatusMatchesCall, CallbackExclusive
<1>6. ReminderTracksCallback'
  BY DEF ReminderTracksCallback
<1>7. ContractingFrozen' /\ DraftHasTerms'
  BY DEF StatusMatchesCall, ContractingFrozen, DraftHasTerms
<1> QED
  BY <1>1, <1>2, <1>3, <1>4, <1>5, <1>6, <1>7

\* Recording an outcome completes the only open call and its meeting.
LEMMA FollowUpInv ==
  ASSUME IInv, NEW e \in Experts, NEW c \in Calls, NEW outcome \in Outcomes,
         FollowUp(e, c, outcome)
  PROVE  IInv'
<1> USE DEF FollowUp, IInv
<1>1. TypeOK'
  <2>1. calls[c] \in CallRows
    BY DEF TypeOK
  <2>2. [calls[c] EXCEPT !.status = "COMPLETED",
           !.meeting = IF calls[c].meeting = "NONE" THEN "NONE" ELSE "COMPLETED"] \in CallRows
    BY <2>1 DEF CallRows
  <2>3. calls' \in [Calls -> CallRows]
    BY <2>2 DEF TypeOK
  <2>4. lead' \in Leads
    BY DEF TypeOK, Leads, LeadStatus
  <2> QED
    BY <2>3, <2>4 DEF TypeOK
<1>2. OneActiveCall' /\ StatusMatchesCall'
  BY DEF Active, TypeOK, Consulting, OneActiveCall, StatusMatchesCall
<1>3. ActiveCallAnswerable' /\ StartedByAssigned'
  BY DEF Active, ActiveCallAnswerable, StartedByAssigned
<1>4. MeetingMatchesCall' /\ PreviewBookedOnce'
  BY DEF MeetingMatchesCall, PreviewBookedOnce
<1>5. CallbackExclusive'
  BY DEF CallbackExclusive
<1>6. ReminderTracksCallback'
  BY DEF ReminderTracksCallback
<1>7. ContractingFrozen' /\ DraftHasTerms'
  BY DEF Contracting, ContractingFrozen, DraftHasTerms
<1> QED
  BY <1>1, <1>2, <1>3, <1>4, <1>5, <1>6, <1>7

\* Preparing the contract closes everything of the funnel.
LEMMA PrepareInv ==
  ASSUME IInv, NEW e \in Experts, NEW replace \in BOOLEAN, NEW t \in Terms,
         Prepare(e, replace, t)
  PROVE  IInv'
<1> USE DEF Prepare, IInv
<1>1. TypeOK'
  BY CloseActiveCallsRows, CancelCallbacksRows, CancelRemindersRows DEF TypeOK, Leads,
     LeadStatus, Drafts
<1>2. OneActiveCall' /\ StatusMatchesCall'
  <2>1. \A c \in Calls : ~Active(c)'
    BY CloseActiveCallsRows DEF Active
  <2>2. lead'.status \notin Consulting
    BY DEF TypeOK, Leads, Consulting
  <2> QED
    BY <2>1, <2>2 DEF OneActiveCall, StatusMatchesCall
<1>3. ActiveCallAnswerable' /\ StartedByAssigned'
  <2>1. \A c \in Calls : ~Active(c)'
    BY CloseActiveCallsRows DEF Active
  <2>2. lead'.expert = lead.expert /\ lead'.started = lead.started
    BY DEF TypeOK, Leads
  <2> QED
    BY <2>1, <2>2 DEF ActiveCallAnswerable, StartedByAssigned
<1>4. MeetingMatchesCall' /\ PreviewBookedOnce'
  <2>1. MeetingMatchesCall'
    BY CloseActiveCallsRows DEF MeetingMatchesCall
  <2>2. PreviewBookedOnce'
    BY CloseActiveCallsRows DEF PreviewBookedOnce
  <2> QED
    BY <2>1, <2>2
<1>5. CallbackExclusive'
  BY CancelCallbacksRows DEF CallbackExclusive
<1>6. ReminderTracksCallback'
  BY CancelCallbacksRows, CancelRemindersRows DEF ReminderTracksCallback
<1>7. ContractingFrozen' /\ DraftHasTerms'
  BY NoneIsNull, CloseActiveCallsRows, CancelCallbacksRows, CancelRemindersRows DEF Active,
     TypeOK, CallRows, Drafts, Formats, MaybeExpert, Contracting, ContractingFrozen,
     DraftHasTerms
<1> QED
  BY <1>1, <1>2, <1>3, <1>4, <1>5, <1>6, <1>7

\* Signing keeps the terms.
LEMMA RecordSignatureInv ==
  ASSUME IInv, NEW e \in Experts,
         RecordSignature(e)
  PROVE  IInv'
<1> USE DEF RecordSignature, IInv
<1>1. TypeOK'
  BY DEF TypeOK, Drafts
<1>2. OneActiveCall' /\ StatusMatchesCall'
  BY DEF Active, OneActiveCall, StatusMatchesCall
<1>3. ActiveCallAnswerable' /\ StartedByAssigned'
  BY DEF Active, ActiveCallAnswerable, StartedByAssigned
<1>4. MeetingMatchesCall' /\ PreviewBookedOnce'
  BY DEF MeetingMatchesCall, PreviewBookedOnce
<1>5. CallbackExclusive'
  BY DEF CallbackExclusive
<1>6. ReminderTracksCallback'
  BY DEF ReminderTracksCallback
<1>7. ContractingFrozen' /\ DraftHasTerms'
  BY DEF Active, ContractingFrozen, DraftHasTerms
<1> QED
  BY <1>1, <1>2, <1>3, <1>4, <1>5, <1>6, <1>7

\* The contract takes the terms of the draft it signs.
LEMMA ConfirmContractInv ==
  ASSUME IInv, NEW e \in Experts, NEW signedNow \in BOOLEAN,
         ConfirmContract(e, signedNow)
  PROVE  IInv'
<1> USE DEF ConfirmContract, IInv
<1>1. TypeOK'
  BY DEF TypeOK, Leads, LeadStatus, Drafts
<1>2. OneActiveCall' /\ StatusMatchesCall'
  BY DEF Active, Consulting, OneActiveCall, StatusMatchesCall
<1>3. ActiveCallAnswerable' /\ StartedByAssigned'
  BY DEF Active, ActiveCallAnswerable, StartedByAssigned
<1>4. MeetingMatchesCall' /\ PreviewBookedOnce'
  BY DEF MeetingMatchesCall, PreviewBookedOnce
<1>5. CallbackExclusive'
  BY DEF CallbackExclusive
<1>6. ReminderTracksCallback'
  BY DEF ReminderTracksCallback
<1>7. ContractingFrozen' /\ DraftHasTerms'
  BY DEF Active, Contracting, ContractingFrozen, DraftHasTerms
<1> QED
  BY <1>1, <1>2, <1>3, <1>4, <1>5, <1>6, <1>7

\* A start time passing closes nothing.
LEMMA CallStartsInv ==
  ASSUME IInv, NEW c \in Calls,
         CallStarts(c)
  PROVE  IInv'
<1> USE DEF CallStarts, IInv
<1>1. TypeOK'
  BY NoneIsNull DEF TypeOK, CallRows
<1>2. OneActiveCall' /\ StatusMatchesCall'
  BY DEF Active, OneActiveCall, StatusMatchesCall
<1>3. ActiveCallAnswerable' /\ StartedByAssigned'
  BY DEF Active, ActiveCallAnswerable, StartedByAssigned
<1>4. MeetingMatchesCall' /\ PreviewBookedOnce'
  BY DEF MeetingMatchesCall, PreviewBookedOnce
<1>5. CallbackExclusive'
  BY DEF CallbackExclusive
<1>6. ReminderTracksCallback'
  BY DEF ReminderTracksCallback
<1>7. ContractingFrozen' /\ DraftHasTerms'
  BY DEF ContractingFrozen, DraftHasTerms
<1> QED
  BY <1>1, <1>2, <1>3, <1>4, <1>5, <1>6, <1>7

\* An expired preview keeps its booking.
LEMMA PreviewExpiresInv ==
  ASSUME IInv, NEW p \in Previews,
         PreviewExpires(p)
  PROVE  IInv'
<1> USE DEF PreviewExpires, IInv
<1>1. TypeOK'
  BY DEF TypeOK, PreviewRows
<1>2. OneActiveCall' /\ StatusMatchesCall'
  BY DEF Active, OneActiveCall, StatusMatchesCall
<1>3. ActiveCallAnswerable' /\ StartedByAssigned'
  BY DEF Active, ActiveCallAnswerable, StartedByAssigned
<1>4. MeetingMatchesCall' /\ PreviewBookedOnce'
  BY DEF MeetingMatchesCall, PreviewBookedOnce
<1>5. CallbackExclusive'
  BY DEF Active, CallbackExclusive
<1>6. ReminderTracksCallback'
  BY DEF ReminderTracksCallback
<1>7. ContractingFrozen' /\ DraftHasTerms'
  BY DEF Active, ContractingFrozen, DraftHasTerms
<1> QED
  BY <1>1, <1>2, <1>3, <1>4, <1>5, <1>6, <1>7

\* A sent reminder still stands for its callback.
LEMMA ReminderDeliveredInv ==
  ASSUME IInv, NEW r \in Reminders,
         ReminderDelivered(r)
  PROVE  IInv'
<1> USE DEF ReminderDelivered, IInv
<1>1. TypeOK'
  BY DEF TypeOK, ReminderRows
<1>2. OneActiveCall' /\ StatusMatchesCall'
  BY DEF Active, OneActiveCall, StatusMatchesCall
<1>3. ActiveCallAnswerable' /\ StartedByAssigned'
  BY DEF Active, ActiveCallAnswerable, StartedByAssigned
<1>4. MeetingMatchesCall' /\ PreviewBookedOnce'
  BY DEF MeetingMatchesCall, PreviewBookedOnce
<1>5. CallbackExclusive'
  BY DEF Active, CallbackExclusive
<1>6. ReminderTracksCallback'
  BY DEF ReminderTracksCallback
<1>7. ContractingFrozen' /\ DraftHasTerms'
  BY DEF ContractingFrozen, DraftHasTerms
<1> QED
  BY <1>1, <1>2, <1>3, <1>4, <1>5, <1>6, <1>7

\* A step outside the lead changes nothing the invariant speaks of.
LEMMA StutterInv ==
  ASSUME IInv, UNCHANGED vars
  PROVE  IInv'
<1> USE DEF vars, IInv, Active
<1>1. TypeOK'
  BY DEF TypeOK
<1>2. (OneActiveCall /\ StatusMatchesCall /\ ActiveCallAnswerable /\ StartedByAssigned)'
  BY DEF OneActiveCall, StatusMatchesCall, ActiveCallAnswerable, StartedByAssigned
<1>3. (MeetingMatchesCall /\ CallbackExclusive /\ ReminderTracksCallback)'
  BY DEF MeetingMatchesCall, CallbackExclusive, ReminderTracksCallback
<1>4. (PreviewBookedOnce /\ ContractingFrozen /\ DraftHasTerms)'
  BY DEF PreviewBookedOnce, ContractingFrozen, DraftHasTerms
<1> QED
  BY <1>1, <1>2, <1>3, <1>4

\* Every step keeps the invariant.
LEMMA StepInv == IInv /\ [Next]_vars => IInv'
<1> SUFFICES ASSUME IInv, [Next]_vars
             PROVE  IInv'
  OBVIOUS
<1>1. CASE SalesStep
  <2>1. PICK m \in Managers :
          \/ Accept(m)
          \/ \E k \in Callbacks, r \in Reminders, t \in Times :
               \/ CreateCallback(m, k, r, t)
               \/ \E st \in {"SCHEDULED", "COMPLETED", "CANCELLED"} :
                    UpdateCallback(m, k, st, t, r)
          \/ Reject(m)
          \/ \E p \in Previews, e \in Experts, f \in Formats : Preview(m, p, e, f)
          \/ \E p \in Previews : CancelPreview(m, p)
          \/ \E c \in Calls, e \in Experts, f \in Formats, p \in Previews \cup {None} :
               BookCall(m, c, e, f, p)
          \/ \E c \in Calls, e \in Experts : UpdateCall(m, c, e)
    BY <1>1 DEF SalesStep
  <2> QED
    BY <2>1, AcceptInv, CreateCallbackInv, UpdateCallbackInv, RejectInv, PreviewInv,
       CancelPreviewInv, BookCallInv, UpdateCallInv
<1>2. CASE ExpertStep
  BY <1>2, ConfirmCallInv, DeclineCallInv, StartInv, FollowUpInv, PrepareInv,
     RecordSignatureInv, ConfirmContractInv DEF ExpertStep
<1>3. CASE BackgroundStep
  BY <1>3, CallStartsInv, PreviewExpiresInv, ReminderDeliveredInv DEF BackgroundStep
<1>4. CASE UNCHANGED vars
  BY <1>4, StutterInv
<1> QED
  BY <1>1, <1>2, <1>3, <1>4 DEF Next

\* The inductive invariant holds in every reachable state.
THEOREM Invariance == Spec => []IInv
<1> QED
  BY InitInv, StepInv, PTL DEF Spec

\* Every row keeps its type.
THEOREM TypeCorrect == Spec => []TypeOK
<1>1. IInv => TypeOK
  BY DEF IInv
<1> QED
  BY <1>1, Invariance, PTL

\* At most one call of the lead is open, whoever booked, moved or answered it
\* (lead-expert-call.service.ts).
THEOREM AtMostOneActiveCall == Spec => []OneActiveCall
<1>1. IInv => OneActiveCall
  BY DEF IInv
<1> QED
  BY <1>1, Invariance, PTL

\* The lead's column on the board says what its open call says.
THEOREM ColumnMatchesCall == Spec => []StatusMatchesCall
<1>1. IInv => StatusMatchesCall
  BY DEF IInv
<1> QED
  BY <1>1, Invariance, PTL

\* The expert of an open call is the lead's expert, who can answer and close it.
THEOREM CallIsAnswerable == Spec => []ActiveCallAnswerable
<1>1. IInv => ActiveCallAnswerable
  BY DEF IInv
<1> QED
  BY <1>1, Invariance, PTL

\* No expert has started a lead through a predecessor's click.
THEOREM StartedByItsExpert == Spec => []StartedByAssigned
<1>1. IInv => StartedByAssigned
  BY DEF IInv
<1> QED
  BY <1>1, Invariance, PTL

\* Closing a call by any route closes its video meeting.
THEOREM MeetingFollowsCall == Spec => []MeetingMatchesCall
<1>1. IInv => MeetingMatchesCall
  BY DEF IInv
<1> QED
  BY <1>1, Invariance, PTL

\* A callback that Sales still owes excludes a second one and a consultation.
THEOREM CallbackIsExclusive == Spec => []CallbackExclusive
<1>1. IInv => CallbackExclusive
  BY DEF IInv
<1> QED
  BY <1>1, Invariance, PTL

\* Sales is reminded once, of what is still scheduled, at the time it is scheduled for.
THEOREM ReminderFollowsCallback == Spec => []ReminderTracksCallback
<1>1. IInv => ReminderTracksCallback
  BY DEF IInv
<1> QED
  BY <1>1, Invariance, PTL

\* A cancelled invitation link leads to no call, and one link to one call.
THEOREM LinkBookedOnce == Spec => []PreviewBookedOnce
<1>1. IInv => PreviewBookedOnce
  BY DEF IInv
<1> QED
  BY <1>1, Invariance, PTL

\* A lead in contracting has nothing else open and its contract carries the signed terms.
THEOREM ContractingSafe == Spec => []ContractingFrozen
<1>1. IInv => ContractingFrozen
  BY DEF IInv
<1> QED
  BY <1>1, Invariance, PTL

\* No step rewrites signed terms: only prepare() writes terms, and it refuses a signed draft;
\* every other write of the draft keeps its terms and its signature.
THEOREM SignedTermsAreBinding == Spec => SignedTermsBinding
<1>1. IInv /\ [Next]_vars => [draft.status = "SIGNED" => draft' = draft]_vars
  <2> SUFFICES ASSUME IInv, Next, draft.status = "SIGNED"
               PROVE  draft' = draft
    OBVIOUS
  <2>1. draft \in Drafts
    BY DEF IInv, TypeOK
  <2>2. CASE SalesStep
    BY <2>2 DEF SalesStep, Accept, CreateCallback, UpdateCallback, Reject, Preview,
                CancelPreview, BookCall, UpdateCall
  <2>3. CASE ExpertStep
    BY <2>1, <2>3 DEF ExpertStep, ConfirmCall, DeclineCall, Start, FollowUp, Prepare,
                Replaceable, RecordSignature, ConfirmContract, Drafts
  <2>4. CASE BackgroundStep
    BY <2>4 DEF BackgroundStep, CallStarts, PreviewExpires, ReminderDelivered
  <2> QED
    BY <2>2, <2>3, <2>4 DEF Next
<1> QED
  BY <1>1, Invariance, PTL DEF Spec, SignedTermsBinding

\* No step takes an accepted lead from its owner or a contracting lead back to the funnel.
\* decline() and followUp() write the status unconditionally: that they never touch a
\* contracting lead rests on the invariant, not on a check of their own.
THEOREM NoStepBack == Spec => NoWayBack
<1>1. IInv /\ [Next]_vars =>
        [/\ lead.manager # None => lead'.manager = lead.manager
         /\ lead.status \in Contracting => lead'.status \in Contracting]_vars
  <2> SUFFICES ASSUME IInv, Next
               PROVE  /\ lead.manager # None => lead'.manager = lead.manager
                      /\ lead.status \in Contracting => lead'.status \in Contracting
    OBVIOUS
  <2>1. lead \in Leads /\ (lead.status \in Contracting => \A c \in Calls : ~Active(c))
    BY DEF IInv, TypeOK, ContractingFrozen
  <2>2. CASE SalesStep
    <3> DEFINE Keeps == /\ lead.manager # None => lead'.manager = lead.manager
                        /\ lead.status \in Contracting => lead'.status \in Contracting
    <3>1. ASSUME NEW m \in Managers, Accept(m) PROVE Keeps
      BY <2>1, <3>1 DEF Accept
    <3>2. ASSUME NEW m \in Managers, NEW k \in Callbacks, NEW r \in Reminders, NEW t \in Times,
                 CreateCallback(m, k, r, t) PROVE Keeps
      BY <2>1, <3>2 DEF CreateCallback, MutableOwned
    <3>3. ASSUME NEW m \in Managers, NEW k \in Callbacks, NEW r \in Reminders, NEW t \in Times,
                 NEW st \in {"SCHEDULED", "COMPLETED", "CANCELLED"},
                 UpdateCallback(m, k, st, t, r) PROVE Keeps
      BY <2>1, <3>3 DEF UpdateCallback, MutableOwned, Leads
    <3>4. ASSUME NEW m \in Managers, Reject(m) PROVE Keeps
      BY <2>1, <3>4 DEF Reject, MutableOwned
    <3>5. ASSUME NEW m \in Managers, NEW c \in Calls, NEW e \in Experts, NEW f \in Formats,
                 NEW p \in Previews \cup {None}, BookCall(m, c, e, f, p) PROVE Keeps
      BY <2>1, <3>5 DEF BookCall, MutableOwned, Assign
    <3>6. ASSUME NEW m \in Managers, NEW c \in Calls, NEW e \in Experts,
                 UpdateCall(m, c, e) PROVE Keeps
      BY <2>1, <3>6 DEF UpdateCall, Assign
    <3>7. ASSUME NEW m \in Managers, NEW p \in Previews,
                 \/ CancelPreview(m, p)
                 \/ \E e \in Experts, f \in Formats : Preview(m, p, e, f) PROVE Keeps
      BY <3>7 DEF CancelPreview, Preview
    <3> QED
      BY <2>2, <3>1, <3>2, <3>3, <3>4, <3>5, <3>6, <3>7 DEF SalesStep
  <2>3. CASE ExpertStep
    BY <2>1, <2>3 DEF ExpertStep, ConfirmCall, DeclineCall, Start, FollowUp, Prepare,
                RecordSignature, ConfirmContract, Answerable, Active, Leads,
                Contracting, Consulting
  <2>4. CASE BackgroundStep
    BY <2>4 DEF BackgroundStep, CallStarts, PreviewExpires, ReminderDelivered
  <2> QED
    BY <2>2, <2>3, <2>4 DEF Next
<1> QED
  BY <1>1, Invariance, PTL DEF Spec, NoWayBack
-----------------------------------------------------------------------------
(* The handlers implement the funnel: the appointments in the rows are at  *)
(* most one, by the invariant, so each handler is one step of the funnel.  *)

\* With nothing active and nothing scheduled there is nothing ahead.
LEMMA NothingAhead ==
  ASSUME NEW cs, NEW ks,
         \A c \in Calls : cs[c].status \notin {"REQUESTED", "CONFIRMED"},
         \A k \in Callbacks : ks[k].status # "SCHEDULED"
  PROVE  Ahead(cs, ks) = {}
<1> QED
  BY DEF Ahead

\* One active call and no scheduled callback: that call is ahead.
LEMMA CallIsAhead ==
  ASSUME NEW cs, NEW ks, NEW c \in Calls,
         cs[c].status \in {"REQUESTED", "CONFIRMED"},
         \A d \in Calls : cs[d].status \in {"REQUESTED", "CONFIRMED"} => d = c,
         \A k \in Callbacks : ks[k].status # "SCHEDULED"
  PROVE  Ahead(cs, ks) = {CallAhead(cs[c])}
<1>1. {d \in Calls : cs[d].status \in {"REQUESTED", "CONFIRMED"}} = {c}
  OBVIOUS
<1>2. {j \in Callbacks : ks[j].status = "SCHEDULED"} = {}
  OBVIOUS
<1> QED
  BY <1>1, <1>2 DEF Ahead

\* One scheduled callback and no active call: that callback is ahead.
LEMMA CallbackIsAhead ==
  ASSUME NEW cs, NEW ks, NEW k \in Callbacks,
         ks[k].status = "SCHEDULED",
         \A j \in Callbacks : ks[j].status = "SCHEDULED" => j = k,
         \A c \in Calls : cs[c].status \notin {"REQUESTED", "CONFIRMED"}
  PROVE  Ahead(cs, ks) = {CallbackAhead(ks[k])}
<1>1. {c \in Calls : cs[c].status \in {"REQUESTED", "CONFIRMED"}} = {}
  OBVIOUS
<1>2. {j \in Callbacks : ks[j].status = "SCHEDULED"} = {k}
  OBVIOUS
<1> QED
  BY <1>1, <1>2 DEF Ahead

\* A call ahead is the call of an active row, confirmed when the row is.
LEMMA AheadFromRow ==
  ASSUME NEW cs, NEW ks, NEW a \in Ahead(cs, ks),
         a.kind = "CALL"
  PROVE  \E c \in Calls : /\ cs[c].status \in {"REQUESTED", "CONFIRMED"}
                          /\ a.confirmed = (cs[c].status = "CONFIRMED")
<1>1. CASE \E k \in Callbacks : a = CallbackAhead(ks[k])
  BY <1>1 DEF CallbackAhead
<1>2. CASE \E c \in Calls : /\ cs[c].status \in {"REQUESTED", "CONFIRMED"}
                            /\ a = CallAhead(cs[c])
  BY <1>2 DEF CallAhead
<1> QED
  BY <1>1, <1>2 DEF Ahead

\* What the appointments leave out of a row may change without moving them.
LEMMA AheadUnmoved ==
  ASSUME NEW cs, NEW ds, NEW ks,
         \A c \in Calls : /\ cs[c].status = ds[c].status
                          /\ cs[c].expert = ds[c].expert
                          /\ cs[c].format = ds[c].format
  PROVE  Ahead(cs, ks) = Ahead(ds, ks)
<1>1. \A c \in Calls : CallAhead(cs[c]) = CallAhead(ds[c])
  BY DEF CallAhead
<1> QED
  BY <1>1 DEF Ahead
\* The rows of the invariant as the funnel sees them: typed, at most one call, and a call
\* in line with the lead.
LEMMA Rows ==
  ASSUME IInv
  PROVE  /\ lead \in Leads
         /\ \A c \in Calls : calls[c] \in CallRows
         /\ \A k \in Callbacks : callbacks[k] \in CallbackRows
BY DEF IInv, TypeOK

\* What an active call says of the lead, and that it is all there is ahead.
LEMMA OpenCall ==
  ASSUME IInv, NEW c \in Calls, Active(c)
  PROVE  /\ Ahead(calls, callbacks) = {Funnel!Call(lead.expert, calls[c].format,
                                                   calls[c].status = "CONFIRMED")}
         /\ lead.status = Funnel!Column(calls[c].format)
         /\ calls[c].format \in Formats
         /\ \A d \in Calls : calls[d].status \in {"REQUESTED", "CONFIRMED"} => d = c
         /\ \A k \in Callbacks : callbacks[k].status # "SCHEDULED"
<1>1. \A d \in Calls : calls[d].status \in {"REQUESTED", "CONFIRMED"} => d = c
  BY DEF IInv, OneActiveCall, Active
<1>2. \A k \in Callbacks : callbacks[k].status # "SCHEDULED"
  BY DEF IInv, CallbackExclusive
<1>3. Ahead(calls, callbacks) = {CallAhead(calls[c])}
  BY <1>1, <1>2, CallIsAhead DEF Active
<1>4. CallAhead(calls[c]) =
        Funnel!Call(lead.expert, calls[c].format, calls[c].status = "CONFIRMED")
  BY DEF CallAhead, Funnel!Call, IInv, ActiveCallAnswerable
<1>5. calls[c].format \in Formats
  BY Rows DEF CallRows
<1>6. lead.status = Funnel!Column(calls[c].format)
  BY <1>5 DEF IInv, StatusMatchesCall, Funnel!Column, Consulting, Formats
<1> QED
  BY <1>1, <1>2, <1>3, <1>4, <1>5, <1>6

\* A lead that its owner may work on is in the funnel.
LEMMA MutableInFunnel ==
  ASSUME NEW m \in Managers, MutableOwned(m)
  PROVE  Funnel!InFunnel
BY NoneIsNull DEF MutableOwned, Funnel!InFunnel, Contracting

\* The lead that has just arrived starts the funnel.
LEMMA FunnelInit == Init => Funnel!Init
<1> SUFFICES ASSUME Init PROVE Funnel!Init
  OBVIOUS
<1>1. Ahead(calls, callbacks) = {}
  BY NothingAhead DEF Init, FreeCall, FreeCallback
<1> QED
  BY <1>1 DEF Init, Funnel!Init

\* The winner of the claim is the owner.
LEMMA AcceptFollows ==
  ASSUME IInv, NEW m \in Managers, Accept(m)
  PROVE  Funnel!Next
<1>1. Funnel!Claim(m)
  BY Rows DEF Accept, Funnel!Claim, Leads
<1> QED
  BY <1>1 DEF Funnel!Next

\* A new callback takes the place of the open call or of the callback before it.
LEMMA CreateCallbackFollows ==
  ASSUME IInv, NEW m \in Managers, NEW k \in Callbacks, NEW r \in Reminders, NEW t \in Times,
         CreateCallback(m, k, r, t)
  PROVE  Funnel!Next
<1>1. \A c \in Calls : calls'[c].status \notin {"REQUESTED", "CONFIRMED"}
  BY CloseActiveCallsRows DEF CreateCallback, IInv, Active
<1>2. \A j \in Callbacks : callbacks'[j].status = "SCHEDULED" => j = k
  BY CancelCallbacksRows DEF CreateCallback, IInv
<1>3. callbacks'[k] = [status |-> "SCHEDULED", time |-> t]
  BY CancelCallbacksRows DEF CreateCallback, IInv
<1>4. callbacks'[k].status = "SCHEDULED" /\ callbacks'[k].time = t
  BY <1>3
<1>5. Ahead(calls', callbacks') = {Funnel!Callback(t)}
  BY <1>1, <1>2, <1>4, CallbackIsAhead DEF CallbackAhead, Funnel!Callback
<1>6. Funnel!PlanCallback(t)
  BY <1>5, MutableInFunnel, Rows DEF CreateCallback, Funnel!PlanCallback, Leads
<1> QED
  BY <1>6 DEF Funnel!Next

\* A callback that moves is planned anew; one that is kept or called off is over.
LEMMA UpdateCallbackFollows ==
  ASSUME IInv, NEW m \in Managers, NEW k \in Callbacks,
         NEW st \in {"SCHEDULED", "COMPLETED", "CANCELLED"}, NEW t \in Times,
         NEW r \in Reminders,
         UpdateCallback(m, k, st, t, r)
  PROVE  Funnel!Next
<1>1. /\ lead.status = "RECALL"
      /\ callbacks[k].status = "SCHEDULED"
      /\ \A j \in Callbacks : callbacks[j].status = "SCHEDULED" => j = k
      /\ \A c \in Calls : calls[c].status \notin {"REQUESTED", "CONFIRMED"}
  BY Rows DEF UpdateCallback, IInv, CallbackExclusive, Active
<1>2. /\ callbacks'[k] = [status |-> st, time |-> t]
      /\ \A j \in Callbacks : j # k => callbacks'[j] = callbacks[j]
      /\ calls' = calls
  BY Rows DEF UpdateCallback, IInv, TypeOK
<1>3. CASE st = "SCHEDULED"
  <2>1. /\ callbacks'[k].status = "SCHEDULED" /\ callbacks'[k].time = t
        /\ \A j \in Callbacks : callbacks'[j].status = "SCHEDULED" => j = k
        /\ \A c \in Calls : calls'[c].status \notin {"REQUESTED", "CONFIRMED"}
    BY <1>1, <1>2, <1>3
  <2>2. Ahead(calls', callbacks') = {Funnel!Callback(t)}
    BY <2>1, CallbackIsAhead DEF CallbackAhead, Funnel!Callback
  <2>3. Funnel!PlanCallback(t)
    BY <2>2, <1>1, <1>3, MutableInFunnel, Rows DEF UpdateCallback, Funnel!PlanCallback
  <2> QED
    BY <2>3 DEF Funnel!Next
<1>4. CASE st # "SCHEDULED"
  <2>1. Ahead(calls, callbacks) = {CallbackAhead(callbacks[k])}
    BY <1>1, CallbackIsAhead
  <2>2. \E a \in Ahead(calls, callbacks) :
          a.kind = "CALLBACK" /\ Ahead(calls, callbacks) = {a}
    BY <2>1 DEF CallbackAhead
  <2>3. Ahead(calls', callbacks') = {}
    BY <1>1, <1>2, <1>4, NothingAhead
  <2>4. Funnel!EndCallback
    BY <2>2, <2>3, <1>4, MutableInFunnel, Rows DEF UpdateCallback, Funnel!EndCallback,
       Leads
  <2> QED
    BY <2>4 DEF Funnel!Next
<1> QED
  BY <1>3, <1>4

\* A rejected lead has nothing ahead.
LEMMA RejectFollows ==
  ASSUME IInv, NEW m \in Managers, Reject(m)
  PROVE  Funnel!Next
<1> USE Rows DEF Reject
<1>1. Ahead(calls', callbacks') = {}
  BY CloseActiveCallsRows, CancelCallbacksRows, NothingAhead DEF IInv, Active
<1>2. Funnel!Reject
  BY <1>1, MutableInFunnel DEF Funnel!Reject, Leads
<1> QED
  BY <1>2 DEF Funnel!Next

\* A call takes the place of the callback and finds no other call.
LEMMA BookCallFollows ==
  ASSUME IInv, NEW m \in Managers, NEW c \in Calls, NEW e \in Experts, NEW f \in Formats,
         NEW p \in Previews \cup {None},
         BookCall(m, c, e, f, p)
  PROVE  Funnel!Next
<1>1. \A d \in Calls : calls[d].status \notin {"REQUESTED", "CONFIRMED"}
  BY Rows DEF BookCall, NoOpenCall, Active
<1>2. \A a \in Ahead(calls, callbacks) : a.kind = "CALLBACK"
  BY <1>1 DEF Ahead, CallbackAhead
<1>3. /\ calls'[c] = [status |-> "REQUESTED", expert |-> e, format |-> f, invitation |-> p,
                      startPassed |-> FALSE, meeting |-> "NONE"]
      /\ \A d \in Calls : d # c => calls'[d] = calls[d]
      /\ \A k \in Callbacks : callbacks'[k].status # "SCHEDULED"
  BY CancelCallbacksRows DEF BookCall, IInv, TypeOK
<1>4. /\ calls'[c].status = "REQUESTED" /\ calls'[c].expert = e /\ calls'[c].format = f
      /\ \A d \in Calls : calls'[d].status \in {"REQUESTED", "CONFIRMED"} => d = c
  BY <1>1, <1>3
<1>5. Ahead(calls', callbacks') = {CallAhead(calls'[c])}
  BY <1>3, <1>4, CallIsAhead
<1>6. CallAhead(calls'[c]) = Funnel!Call(e, f, FALSE)
  BY <1>4 DEF CallAhead, Funnel!Call
<1>7. Funnel!Book(e, f)
  BY <1>2, <1>5, <1>6, MutableInFunnel, Rows DEF BookCall, Funnel!Book, Funnel!Column, Assign,
     Leads
<1> QED
  BY <1>7 DEF Funnel!Next, Funnel!Formats, Formats

\* The call that moves takes the lead along.
LEMMA UpdateCallFollows ==
  ASSUME IInv, NEW m \in Managers, NEW c \in Calls, NEW e \in Experts,
         UpdateCall(m, c, e)
  PROVE  Funnel!Next
<1>1. PICK f \in Formats : f = calls[c].format
  BY OpenCall, Rows DEF UpdateCall, Active
<1>2. /\ Ahead(calls, callbacks) = {Funnel!Call(lead.expert, f, FALSE)}
      /\ lead.status = Funnel!Column(f)
      /\ \A d \in Calls : calls[d].status \in {"REQUESTED", "CONFIRMED"} => d = c
      /\ \A k \in Callbacks : callbacks[k].status # "SCHEDULED"
  BY <1>1, OpenCall, Rows DEF UpdateCall, Active
<1>3. /\ calls'[c].status = "REQUESTED"
      /\ calls'[c].expert = e
      /\ calls'[c].format = f
      /\ \A d \in Calls : calls'[d].status \in {"REQUESTED", "CONFIRMED"} => d = c
      /\ \A k \in Callbacks : callbacks'[k].status # "SCHEDULED"
  BY <1>1, <1>2, Rows DEF UpdateCall, IInv, TypeOK, CallRows
<1>4. Ahead(calls', callbacks') = {CallAhead(calls'[c])}
  BY <1>3, CallIsAhead
<1>5. Ahead(calls', callbacks') = {Funnel!Call(e, f, FALSE)}
  BY <1>3, <1>4 DEF CallAhead, Funnel!Call
<1>6. /\ lead'.expert = e
      /\ lead'.status = lead.status
      /\ lead'.manager = lead.manager
      /\ lead'.contract = lead.contract
      /\ draft' = draft
  BY Rows DEF UpdateCall, Assign, Leads, IInv, ActiveCallAnswerable, Active
<1>7. Funnel!Move(f, e)
  BY <1>2, <1>5, <1>6 DEF Funnel!Move
<1> QED
  BY <1>7 DEF Funnel!Next, Funnel!Formats, Formats

\* The open call is confirmed by the lead's expert.
LEMMA ConfirmCallFollows ==
  ASSUME IInv, NEW e \in Experts, NEW c \in Calls,
         ConfirmCall(e, c)
  PROVE  Funnel!Next
<1>1. PICK f \in Formats : f = calls[c].format
  BY OpenCall, Rows DEF ConfirmCall, Answerable, Active
<1>2. /\ Ahead(calls, callbacks) = {Funnel!Call(lead.expert, f, FALSE)}
      /\ lead.status = Funnel!Column(f)
      /\ \A d \in Calls : calls[d].status \in {"REQUESTED", "CONFIRMED"} => d = c
      /\ \A k \in Callbacks : callbacks[k].status # "SCHEDULED"
  BY <1>1, OpenCall, Rows DEF ConfirmCall, Answerable, Active
<1>3. /\ calls'[c].status = "CONFIRMED"
      /\ calls'[c].expert = lead.expert
      /\ calls'[c].format = f
      /\ \A d \in Calls : d # c => calls'[d] = calls[d]
      /\ callbacks' = callbacks
  BY <1>1, Rows DEF ConfirmCall, Answerable, IInv, TypeOK, CallRows
<1>4. Ahead(calls', callbacks') = {CallAhead(calls'[c])}
  BY <1>2, <1>3, CallIsAhead
<1>5. Ahead(calls', callbacks') = {Funnel!Call(lead.expert, f, TRUE)}
  BY <1>3, <1>4 DEF CallAhead, Funnel!Call
<1>6. Funnel!Confirm(f)
  BY <1>2, <1>5, Rows DEF ConfirmCall, Answerable, Funnel!Confirm
<1> QED
  BY <1>6 DEF Funnel!Next, Funnel!Formats, Formats

\* A declined call was not confirmed, and nothing else is ahead.
LEMMA DeclineCallFollows ==
  ASSUME IInv, NEW e \in Experts, NEW c \in Calls,
         DeclineCall(e, c)
  PROVE  Funnel!Next
<1>1. PICK f \in Formats : f = calls[c].format
  BY OpenCall, Rows DEF DeclineCall, Answerable, Active
<1>2. /\ Ahead(calls, callbacks) = {Funnel!Call(lead.expert, f, FALSE)}
      /\ lead.status = Funnel!Column(f)
      /\ \A d \in Calls : calls[d].status \in {"REQUESTED", "CONFIRMED"} => d = c
      /\ \A k \in Callbacks : callbacks[k].status # "SCHEDULED"
  BY <1>1, OpenCall, Rows DEF DeclineCall, Answerable, Active
<1>3. /\ calls'[c].status = "DECLINED"
      /\ \A d \in Calls : d # c => calls'[d] = calls[d]
      /\ callbacks' = callbacks
  BY Rows DEF DeclineCall, Answerable, IInv, TypeOK, CallRows
<1>4. Ahead(calls', callbacks') = {}
  BY <1>2, <1>3, NothingAhead
<1>5. PICK st \in {"NEW", "RECALL"} :
        st = IF calls[c].invitation # None THEN "RECALL" ELSE "NEW"
  OBVIOUS
<1>6. Funnel!CallEnds(f, FALSE, st)
  BY <1>2, <1>4, <1>5, Rows DEF DeclineCall, Answerable, Funnel!CallEnds, Leads
<1> QED
  BY <1>6 DEF Funnel!Next, Funnel!Formats, Formats

\* The call whose outcome is recorded is the one ahead.
LEMMA FollowUpFollows ==
  ASSUME IInv, NEW e \in Experts, NEW c \in Calls, NEW outcome \in Outcomes,
         FollowUp(e, c, outcome)
  PROVE  Funnel!Next
<1>1. PICK f \in Formats : f = calls[c].format
  BY OpenCall, Rows DEF FollowUp
<1>2. PICK confirmed \in BOOLEAN : confirmed = (calls[c].status = "CONFIRMED")
  OBVIOUS
<1>3. /\ Ahead(calls, callbacks) = {Funnel!Call(lead.expert, f, confirmed)}
      /\ lead.status = Funnel!Column(f)
      /\ \A d \in Calls : calls[d].status \in {"REQUESTED", "CONFIRMED"} => d = c
      /\ \A k \in Callbacks : callbacks[k].status # "SCHEDULED"
  BY <1>1, <1>2, OpenCall, Rows DEF FollowUp
<1>4. /\ calls'[c].status = "COMPLETED"
      /\ \A d \in Calls : d # c => calls'[d] = calls[d]
      /\ callbacks' = callbacks
  BY Rows DEF FollowUp, IInv, TypeOK, CallRows
<1>5. Ahead(calls', callbacks') = {}
  BY <1>3, <1>4, NothingAhead
<1>6. Funnel!CallEnds(f, confirmed, "RECALL")
  BY <1>3, <1>5, Rows DEF FollowUp, Funnel!CallEnds, Leads
<1> QED
  BY <1>6 DEF Funnel!Next, Funnel!Formats, Formats

\* A contract is prepared with every call answered, and leaves nothing ahead.
LEMMA PrepareFollows ==
  ASSUME IInv, NEW e \in Experts, NEW replace \in BOOLEAN, NEW t \in Terms,
         Prepare(e, replace, t)
  PROVE  Funnel!Next
<1>1. Ahead(calls', callbacks') = {}
  BY CloseActiveCallsRows, CancelCallbacksRows, NothingAhead DEF Prepare, IInv, Active
<1>2. \A a \in Ahead(calls, callbacks) : a.kind = "CALL" => a.confirmed
  BY AheadFromRow DEF Prepare
<1>3. lead.expert # None
  BY NoneIsNull, Rows DEF Prepare
<1>4. /\ lead.status \in Funnel!Consulting \cup {"RECALL", "CONTRACT_PENDING"}
      /\ lead.status = "CONTRACT_PENDING" <=> draft.status # "NONE"
      /\ draft.status # "SIGNED"
  BY Rows DEF Prepare, Replaceable, Consulting, Funnel!Consulting, IInv, ContractingFrozen,
     Contracting
<1>5. Funnel!Prepare(t)
  BY <1>1, <1>2, <1>3, <1>4, Rows DEF Prepare, Funnel!Prepare, Leads
<1> QED
  BY <1>5 DEF Funnel!Next

\* Signing moves nothing but the draft.
LEMMA RecordSignatureFollows ==
  ASSUME IInv, NEW e \in Experts, RecordSignature(e)
  PROVE  Funnel!Next
<1>1. Funnel!Sign
  BY DEF RecordSignature, Funnel!Sign
<1> QED
  BY <1>1 DEF Funnel!Next

\* The conversion finds nothing ahead, by the invariant: it does not look.
LEMMA ConfirmContractFollows ==
  ASSUME IInv, NEW e \in Experts, NEW signedNow \in BOOLEAN,
         ConfirmContract(e, signedNow)
  PROVE  Funnel!Next
<1>1. Ahead(calls, callbacks) = {}
  BY NothingAhead DEF ConfirmContract, IInv, ContractingFrozen, Contracting, Active
<1>2. Funnel!Convert
  BY <1>1, Rows DEF ConfirmContract, Funnel!Convert, Leads
<1> QED
  BY <1>2 DEF Funnel!Next

\* Links, an expert's click, the clock and the worker are not seen from the board.
LEMMA UnseenFromBoard ==
  ASSUME IInv,
         \/ \E m \in Managers, p \in Previews, e \in Experts, f \in Formats : Preview(m, p, e, f)
         \/ \E m \in Managers, p \in Previews : CancelPreview(m, p)
         \/ \E e \in Experts : Start(e)
         \/ BackgroundStep
         \/ UNCHANGED vars
  PROVE  UNCHANGED Funnel!vars
<1>1. /\ lead'.status = lead.status
      /\ lead'.manager = lead.manager
      /\ lead'.expert = lead.expert
      /\ lead'.contract = lead.contract
      /\ draft' = draft
      /\ callbacks' = callbacks
  BY Rows DEF Preview, CancelPreview, Start, BackgroundStep, CallStarts, PreviewExpires,
     ReminderDelivered, vars, Leads
<1>2. \A c \in Calls : /\ calls'[c].status = calls[c].status
                       /\ calls'[c].expert = calls[c].expert
                       /\ calls'[c].format = calls[c].format
  <2>1. CASE calls' = calls
    BY <2>1
  <2>2. CASE \E c \in Calls : CallStarts(c)
    BY <2>2, Rows DEF CallStarts, CallRows, IInv, TypeOK
  <2> QED
    BY <2>1, <2>2 DEF Preview, CancelPreview, Start, BackgroundStep, PreviewExpires,
       ReminderDelivered, vars
<1>3. Ahead(calls', callbacks') = Ahead(calls, callbacks)
  BY <1>1, <1>2, AheadUnmoved
<1> QED
  BY <1>1, <1>3 DEF Funnel!vars

\* Every step of a handler is a step of the funnel or is not seen from the board.
LEMMA StepFollows == IInv /\ [Next]_vars => [Funnel!Next]_(Funnel!vars)
<1> SUFFICES ASSUME IInv, [Next]_vars
             PROVE  Funnel!Next \/ UNCHANGED Funnel!vars
  OBVIOUS
<1>1. CASE SalesStep
  <2>1. PICK m \in Managers :
          \/ Accept(m)
          \/ \E k \in Callbacks, r \in Reminders, t \in Times :
               \/ CreateCallback(m, k, r, t)
               \/ \E st \in {"SCHEDULED", "COMPLETED", "CANCELLED"} :
                    UpdateCallback(m, k, st, t, r)
          \/ Reject(m)
          \/ \E p \in Previews, e \in Experts, f \in Formats : Preview(m, p, e, f)
          \/ \E p \in Previews : CancelPreview(m, p)
          \/ \E c \in Calls, e \in Experts, f \in Formats, p \in Previews \cup {None} :
               BookCall(m, c, e, f, p)
          \/ \E c \in Calls, e \in Experts : UpdateCall(m, c, e)
    BY <1>1 DEF SalesStep
  <2> QED
    BY <2>1, AcceptFollows, CreateCallbackFollows, UpdateCallbackFollows, RejectFollows,
       BookCallFollows, UpdateCallFollows, UnseenFromBoard
<1>2. CASE ExpertStep
  BY <1>2, ConfirmCallFollows, DeclineCallFollows, FollowUpFollows, PrepareFollows,
     RecordSignatureFollows, ConfirmContractFollows, UnseenFromBoard DEF ExpertStep
<1>3. CASE BackgroundStep \/ UNCHANGED vars
  BY <1>3, UnseenFromBoard
<1> QED
  BY <1>1, <1>2, <1>3 DEF Next

\* The handlers implement the funnel (LeadFunnel): each of them, with every row it writes,
\* is one step of it, although decline(), followUp() and updateCallback() write the status
\* without reading what else is open.
THEOREM ImplementsFunnel == Spec => FollowsFunnel
<1> QED
  BY FunnelInit, StepFollows, Invariance, PTL DEF Spec, FollowsFunnel, Funnel!Spec
=============================================================================
