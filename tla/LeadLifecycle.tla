---------------------------- MODULE LeadLifecycle ----------------------------
(***************************************************************************)
(* The CRM life of ONE lead: Sales claims it, schedules callbacks, invites *)
(* it to an expert, the expert answers and records the outcome, and the    *)
(* expert turns it into a contract.                                        *)
(*                                                                         *)
(* Every handler runs inside leadTransaction (Serializable, retried on a   *)
(* conflict) or is one conditional UPDATE, so a handler is one atomic      *)
(* action.  What this module asks is whether the rows the handlers leave   *)
(* behind (lead, expert calls, meetings, callbacks, reminders, invitation  *)
(* previews, contract draft) agree with each other in every order in which *)
(* managers, experts, the reminder worker and the clock can act: several   *)
(* handlers write the lead's status without reading it first, and are      *)
(* right only because of what the others keep true.                        *)
(*                                                                         *)
(* A Sales owner is never replaced once a lead is accepted, so the rows'   *)
(* salesManagerId/userId columns are dropped: each equals lead.manager.    *)
(* Whether a slot is free is BookingTx's question and is left open here;   *)
(* the email intents of a call belong to CallDelivery.                     *)
(***************************************************************************)
EXTENDS Naturals, FiniteSets

CONSTANTS
  Managers,   \* Sales users
  Experts,    \* users with a consultant profile
  Calls,      \* LeadExpertCall rows that may be created
  Callbacks,  \* LeadCallback rows that may be created
  Reminders,  \* LEAD_CALLBACK_REMINDER rows of NotificationLog
  Previews,   \* LeadMeetingInvitation rows that may be created
  Times,      \* callback times on the 15-minute grid
  Terms,      \* commercial terms of a contract draft
  None        \* SQL NULL

ASSUME NoneIsNull ==
  None \notin Managers \cup Experts \cup Calls \cup Callbacks \cup Reminders
                \cup Previews \cup Times \cup Terms

VARIABLES
  lead,       \* the Lead row; started = the expert whose start() set expertStartedAt,
              \* contract = the terms its contract was created with
  calls,      \* LeadExpertCall rows with their Meeting row
  callbacks,  \* LeadCallback rows
  reminders,  \* callback reminders in NotificationLog
  previews,   \* LeadMeetingInvitation rows; expired = its expiresAt has passed
  draft       \* LeadContractDraft

vars == <<lead, calls, callbacks, reminders, previews, draft>>

LeadStatus == {"NEW", "RECALL", "CALL_SCHEDULED", "OFFICE_INVITED", "REJECTED",
               "CONTRACT_PENDING", "CONVERTED"}
Formats == {"ONLINE", "OFFICE"}
MaybeExpert == Experts \cup {None}

Leads == [status : LeadStatus, manager : Managers \cup {None},
          expert : MaybeExpert, started : MaybeExpert,
          contract : Terms \cup {None}]
CallRows == [status : {"FREE", "REQUESTED", "CONFIRMED", "DECLINED", "CANCELLED", "COMPLETED"},
             expert : MaybeExpert, format : Formats, invitation : Previews \cup {None},
             startPassed : BOOLEAN,
             meeting : {"NONE", "SCHEDULED", "CANCELLED", "COMPLETED"}]
CallbackRows == [status : {"FREE", "SCHEDULED", "COMPLETED", "CANCELLED"},
                 time : Times \cup {None}]
ReminderRows == [status : {"FREE", "PENDING", "SENT", "CANCELLED"},
                 callback : Callbacks \cup {None}, time : Times \cup {None}]
PreviewRows == [status : {"FREE", "OPEN", "CANCELLED"}, expert : MaybeExpert,
                format : Formats, expired : BOOLEAN]
Drafts == [status : {"NONE", "UNSIGNED", "SIGNED"}, terms : Terms \cup {None}]

\* A row that does not exist yet.
FreeCall == [status |-> "FREE", expert |-> None, format |-> "ONLINE",
             invitation |-> None, startPassed |-> FALSE, meeting |-> "NONE"]
FreeCallback == [status |-> "FREE", time |-> None]
FreeReminder == [status |-> "FREE", callback |-> None, time |-> None]
FreePreview == [status |-> "FREE", expert |-> None, format |-> "ONLINE", expired |-> FALSE]

Init ==
  /\ lead = [status |-> "NEW", manager |-> None, expert |-> None,
             started |-> None, contract |-> None]
  /\ calls = [c \in Calls |-> FreeCall]
  /\ callbacks = [k \in Callbacks |-> FreeCallback]
  /\ reminders = [r \in Reminders |-> FreeReminder]
  /\ previews = [p \in Previews |-> FreePreview]
  /\ draft = [status |-> "NONE", terms |-> None]

-----------------------------------------------------------------------------
(* What the handlers' queries select and write.                            *)

Consulting == {"CALL_SCHEDULED", "OFFICE_INVITED"}
Contracting == {"CONTRACT_PENDING", "CONVERTED"}

Active(c) == calls[c].status \in {"REQUESTED", "CONFIRMED"}

\* create()'s look for an active expert call of the lead.
NoPendingRequest == \A c \in Calls : calls[c].status # "REQUESTED"   \* bug: misses confirmed ones
NoOpenCall == \A c \in Calls : ~Active(c)

\* Owned by m and not yet in the contract process.
OwnedWithoutContract(m) == lead.manager = m /\ lead.contract = None   \* bug: ignores the status
MutableOwned(m) == lead.manager = m /\ lead.contract = None /\ lead.status \notin Contracting

\* The lead in status st, handed to expert e, who has not started on it.
AssignKeepingStart(st, e) == [lead EXCEPT !.status = st, !.expert = e]   \* bug: no reset
Assign(st, e) == [lead EXCEPT !.status = st, !.expert = e, !.started = None]

\* bug: the meetings stay scheduled
CloseCallsOnly(st) ==
  [c \in Calls |-> IF Active(c) THEN [calls[c] EXCEPT !.status = st] ELSE calls[c]]

\* Active calls get status st; their meetings, where one exists, get meeting status st.
CloseActiveCalls(st) ==
  [c \in Calls |->
     IF Active(c)
     THEN [calls[c] EXCEPT !.status = st,
                           !.meeting = IF @ = "NONE" THEN "NONE" ELSE st]
     ELSE calls[c]]

LeaveCallbacks == callbacks   \* bug: the update is forgotten
CancelCallbacks ==
  [k \in Callbacks |->
     IF callbacks[k].status = "SCHEDULED"
     THEN [callbacks[k] EXCEPT !.status = "CANCELLED"] ELSE callbacks[k]]

CancelReminders ==
  [r \in Reminders |->
     IF reminders[r].status = "PENDING"
     THEN [reminders[r] EXCEPT !.status = "CANCELLED"] ELSE reminders[r]]

\* bug: the reminder of the old time stays pending
RemindAlso(r, k, t) ==
  [reminders EXCEPT ![r] = [status |-> "PENDING", callback |-> k, time |-> t]]

\* The reminder rows after pending ones are cancelled and row r is created for callback k.
RemindInstead(r, k, t) ==
  [CancelReminders EXCEPT ![r] = [status |-> "PENDING", callback |-> k, time |-> t]]

-----------------------------------------------------------------------------
(* Sales                                                                   *)

\* One conditional UPDATE claims the lead; the loser of a race updates no row.
Accept(m) ==
  /\ lead.status = "NEW"
  /\ lead.manager = None
  /\ lead' = [lead EXCEPT !.manager = m]
  /\ UNCHANGED <<calls, callbacks, reminders, previews, draft>>

CreateCallback(m, k, r, t) ==
  /\ MutableOwned(m)
  /\ callbacks[k].status = "FREE"
  /\ reminders[r].status = "FREE"
  /\ calls' = CloseActiveCalls("CANCELLED")
  /\ callbacks' = [CancelCallbacks EXCEPT ![k] = [status |-> "SCHEDULED", time |-> t]]
  /\ reminders' = RemindInstead(r, k, t)
  /\ lead' = [lead EXCEPT !.status = "RECALL"]
  /\ UNCHANGED <<previews, draft>>

\* A scheduled callback keeps its reminder unless its time or its status changes.
UpdateCallback(m, k, st, t, r) ==
  /\ MutableOwned(m)
  /\ callbacks[k].status = "SCHEDULED"
  /\ callbacks' = [callbacks EXCEPT ![k] = [status |-> st, time |-> t]]
  /\ \/ /\ st = "SCHEDULED" /\ t # callbacks[k].time
        /\ reminders[r].status = "FREE"
        /\ reminders' = RemindInstead(r, k, t)
        /\ UNCHANGED lead
     \/ /\ st # "SCHEDULED"
        /\ reminders' = CancelReminders
        /\ lead' = [lead EXCEPT !.status = IF lead.expert # None THEN "RECALL" ELSE "NEW"]
  /\ UNCHANGED <<calls, previews, draft>>

Reject(m) ==
  /\ MutableOwned(m)
  /\ calls' = CloseActiveCalls("CANCELLED")
  /\ callbacks' = CancelCallbacks
  /\ reminders' = CancelReminders
  /\ lead' = [lead EXCEPT !.status = "REJECTED"]
  /\ UNCHANGED <<previews, draft>>

\* A preview reserves nothing: it is an invitation link and the booking it proposes.
\* The lead is read before the insert and outside a transaction: by the time the row
\* appears the lead may have moved on, so only its owner is required here.
Preview(m, p, e, f) ==
  /\ lead.manager = m
  /\ previews[p].status = "FREE"
  /\ previews' = [previews EXCEPT ![p] =
       [status |-> "OPEN", expert |-> e, format |-> f, expired |-> FALSE]]
  /\ UNCHANGED <<lead, calls, callbacks, reminders, draft>>

\* bug: does not look for a booking of the preview
CancelAnyPreview(m, p) ==
  /\ lead.manager = m
  /\ previews[p].status # "FREE"
  /\ previews' = [previews EXCEPT ![p].status = "CANCELLED"]
  /\ UNCHANGED <<lead, calls, callbacks, reminders, draft>>

\* Only an unused preview is cancelled; its lead may be in any state.
CancelPreview(m, p) ==
  /\ lead.manager = m
  /\ previews[p].status # "FREE"
  /\ \A c \in Calls : calls[c].invitation # p
  /\ previews' = [previews EXCEPT ![p].status = "CANCELLED"]
  /\ UNCHANGED <<lead, calls, callbacks, reminders, draft>>

\* create(): with p = None the v1 booking, otherwise savePreview's booking of p.
\* savePreview on a booked preview returns its call and changes nothing.
BookCall(m, c, e, f, p) ==
  /\ MutableOwned(m)
  /\ calls[c].status = "FREE"
  /\ NoOpenCall
  /\ IF p = None
     THEN f = "ONLINE"
     ELSE /\ previews[p] = [status |-> "OPEN", expert |-> e, format |-> f, expired |-> FALSE]
          /\ \A d \in Calls : calls[d].invitation # p
  /\ calls' = [calls EXCEPT ![c] =
       [status |-> "REQUESTED", expert |-> e, format |-> f, invitation |-> p,
        startPassed |-> FALSE, meeting |-> "NONE"]]
  /\ callbacks' = CancelCallbacks
  /\ reminders' = CancelReminders
  /\ lead' = Assign(IF f = "OFFICE" THEN "OFFICE_INVITED" ELSE "CALL_SCHEDULED", e)
  /\ UNCHANGED <<previews, draft>>

\* bug: the lead stays with the expert it had
UpdateCallRowOnly(m, c, e) ==
  /\ lead.manager = m
  /\ calls[c].status = "REQUESTED" /\ calls[c].invitation = None
  /\ calls' = [calls EXCEPT ![c] = [@ EXCEPT !.expert = e, !.startPassed = FALSE]]
  /\ UNCHANGED <<lead, callbacks, reminders, previews, draft>>

\* Moves a v1 request to expert e and a start at least four hours ahead.
UpdateCall(m, c, e) ==
  /\ lead.manager = m
  /\ calls[c].status = "REQUESTED"
  /\ calls[c].invitation = None
  /\ calls' = [calls EXCEPT ![c] = [@ EXCEPT !.expert = e, !.startPassed = FALSE]]
  /\ lead' = IF e # calls[c].expert THEN Assign(lead.status, e) ELSE lead
  /\ UNCHANGED <<callbacks, reminders, previews, draft>>

-----------------------------------------------------------------------------
(* The expert                                                              *)

Answerable(e, c) ==
  calls[c].status = "REQUESTED" /\ calls[c].expert = e /\ lead.expert = e

ConfirmCall(e, c) ==
  /\ Answerable(e, c)
  /\ ~calls[c].startPassed
  /\ calls' = [calls EXCEPT ![c] =
       [@ EXCEPT !.status = "CONFIRMED",
                 !.meeting = IF calls[c].format = "OFFICE" THEN "NONE" ELSE "SCHEDULED"]]
  /\ UNCHANGED <<lead, callbacks, reminders, previews, draft>>

\* bug: a v1 call leaves its lead on the board as scheduled
DeclineSilently(e, c) ==
  /\ Answerable(e, c)
  /\ calls' = [calls EXCEPT ![c].status = "DECLINED"]
  /\ lead' = IF calls[c].invitation # None THEN [lead EXCEPT !.status = "RECALL"] ELSE lead
  /\ UNCHANGED <<callbacks, reminders, previews, draft>>

\* The lead's status is written without being read.
DeclineCall(e, c) ==
  /\ Answerable(e, c)
  /\ calls' = [calls EXCEPT ![c].status = "DECLINED"]
  /\ lead' = [lead EXCEPT !.status = IF calls[c].invitation # None THEN "RECALL" ELSE "NEW"]
  /\ UNCHANGED <<callbacks, reminders, previews, draft>>

Start(e) ==
  /\ lead.expert = e
  /\ lead.started = None
  /\ lead.status \in Consulting
  /\ lead' = [lead EXCEPT !.started = e]
  /\ UNCHANGED <<calls, callbacks, reminders, previews, draft>>

Outcomes == {"FOLLOW_UP", "NO_SHOW", "RESCHEDULED"}

\* The expert's active call is completed and the lead returns to Sales.
FollowUp(e, c, outcome) ==
  /\ lead.expert = e
  /\ lead.contract = None
  /\ lead.status \in Consulting
  /\ Active(c) /\ calls[c].expert = e
  /\ outcome # "RESCHEDULED" => calls[c].startPassed
  /\ outcome = "FOLLOW_UP" => calls[c].status = "CONFIRMED"
  /\ calls' = [calls EXCEPT ![c] =
       [@ EXCEPT !.status = "COMPLETED",
                 !.meeting = IF calls[c].meeting = "NONE" THEN "NONE" ELSE "COMPLETED"]]
  /\ lead' = [lead EXCEPT !.status = "RECALL"]
  /\ UNCHANGED <<callbacks, reminders, previews, draft>>

\* POST finds no draft, PUT may find one that is not signed.
ReplaceableOnPut(replace) == draft.status # "NONE" => replace   \* bug: signed ones, too
Replaceable(replace) ==
  /\ draft.status # "NONE" => replace
  /\ draft.status # "SIGNED"

\* prepare(): POST creates the draft, PUT (replace) may also rewrite an unsigned one.
Prepare(e, replace, t) ==
  /\ lead.expert = e
  /\ lead.contract = None
  /\ Replaceable(replace)
  /\ \/ lead.status \in Consulting \cup {"RECALL"}
     \/ draft.status # "NONE" /\ lead.status = "CONTRACT_PENDING"
  /\ \A c \in Calls : calls[c].status # "REQUESTED"
  /\ draft' = [status |-> "UNSIGNED", terms |-> t]
  /\ calls' = CloseActiveCalls("COMPLETED")
  /\ callbacks' = CancelCallbacks
  /\ reminders' = CancelReminders
  /\ lead' = [lead EXCEPT !.status = "CONTRACT_PENDING"]
  /\ UNCHANGED previews

RecordSignature(e) ==
  /\ lead.expert = e
  /\ lead.status = "CONTRACT_PENDING"
  /\ lead.contract = None
  /\ draft.status # "NONE"
  /\ draft' = [draft EXCEPT !.status = "SIGNED"]
  /\ UNCHANGED <<lead, calls, callbacks, reminders, previews>>

\* First confirmation: the contract, the signature and the conversion commit together.
\* signedNow: the request itself carries a signature date.
ConfirmContract(e, signedNow) ==
  /\ lead.expert = e
  /\ lead.contract = None
  /\ lead.status = "CONTRACT_PENDING"
  /\ draft.status # "NONE"
  /\ signedNow \/ draft.status = "SIGNED"
  /\ draft' = [draft EXCEPT !.status = "SIGNED"]
  /\ lead' = [lead EXCEPT !.status = "CONVERTED", !.contract = draft.terms]
  /\ UNCHANGED <<calls, callbacks, reminders, previews>>

-----------------------------------------------------------------------------
(* Time and the reminder worker                                            *)

\* A call's start time passes.
CallStarts(c) ==
  /\ Active(c) /\ ~calls[c].startPassed
  /\ calls' = [calls EXCEPT ![c].startPassed = TRUE]
  /\ UNCHANGED <<lead, callbacks, reminders, previews, draft>>

\* A preview's expiresAt passes.
PreviewExpires(p) ==
  /\ previews[p].status = "OPEN" /\ ~previews[p].expired
  /\ previews' = [previews EXCEPT ![p].expired = TRUE]
  /\ UNCHANGED <<lead, calls, callbacks, reminders, draft>>

\* The worker's conditional update PENDING -> SENT, at some moment after the reminder is due.
ReminderDelivered(r) ==
  /\ reminders[r].status = "PENDING"
  /\ reminders' = [reminders EXCEPT ![r].status = "SENT"]
  /\ UNCHANGED <<lead, calls, callbacks, previews, draft>>

-----------------------------------------------------------------------------
SalesStep ==
  \E m \in Managers :
    \/ Accept(m)
    \/ \E k \in Callbacks, r \in Reminders, t \in Times :
         \/ CreateCallback(m, k, r, t)
         \/ \E st \in {"SCHEDULED", "COMPLETED", "CANCELLED"} : UpdateCallback(m, k, st, t, r)
    \/ Reject(m)
    \/ \E p \in Previews, e \in Experts, f \in Formats : Preview(m, p, e, f)
    \/ \E p \in Previews : CancelPreview(m, p)
    \/ \E c \in Calls, e \in Experts, f \in Formats, p \in Previews \cup {None} :
         BookCall(m, c, e, f, p)
    \/ \E c \in Calls, e \in Experts : UpdateCall(m, c, e)

ExpertStep ==
  \E e \in Experts :
    \/ \E c \in Calls : ConfirmCall(e, c) \/ DeclineCall(e, c)
    \/ Start(e)
    \/ \E c \in Calls, outcome \in Outcomes : FollowUp(e, c, outcome)
    \/ \E replace \in BOOLEAN, t \in Terms : Prepare(e, replace, t)
    \/ RecordSignature(e)
    \/ \E signedNow \in BOOLEAN : ConfirmContract(e, signedNow)

BackgroundStep ==
  \/ \E c \in Calls : CallStarts(c)
  \/ \E p \in Previews : PreviewExpires(p)
  \/ \E r \in Reminders : ReminderDelivered(r)

Next == SalesStep \/ ExpertStep \/ BackgroundStep

Spec == Init /\ [][Next]_vars

-----------------------------------------------------------------------------
TypeOK ==
  /\ lead \in Leads
  /\ calls \in [Calls -> CallRows]
  /\ callbacks \in [Callbacks -> CallbackRows]
  /\ reminders \in [Reminders -> ReminderRows]
  /\ previews \in [Previews -> PreviewRows]
  /\ draft \in Drafts

\* At most one call of the lead is open, whoever booked, moved or answered it:
\* create()'s "active expert call" check is the only thing that limits it.
OneActiveCall ==
  \A c, d \in Calls : Active(c) /\ Active(d) => c = d

\* The lead's column on the board says what its calls say.  respond() and
\* updateCallback() write the status without comparing it with the calls.
StatusMatchesCall ==
  /\ lead.status \in Consulting <=> \E c \in Calls : Active(c)
  /\ \A c \in Calls :
       Active(c) => (lead.status = "OFFICE_INVITED" <=> calls[c].format = "OFFICE")

\* The expert of an open call is the lead's expert, so the call shows up in that
\* expert's list and can be answered and closed; respond() and followUp() look for both.
ActiveCallAnswerable ==
  \A c \in Calls : Active(c) => calls[c].expert = lead.expert /\ lead.expert # None

\* An expert who is handed the lead has not "started" it through a predecessor's click.
StartedByAssigned ==
  lead.started # None => lead.started = lead.expert

\* A video meeting stands exactly for a confirmed online call: closing the call by
\* any route closes its meeting.
MeetingMatchesCall ==
  \A c \in Calls :
    calls[c].meeting = "SCHEDULED" <=>
      calls[c].status = "CONFIRMED" /\ calls[c].format = "ONLINE"

\* A callback that Sales still owes excludes a second one and excludes a consultation.
CallbackExclusive ==
  \A k \in Callbacks : callbacks[k].status = "SCHEDULED" =>
    /\ lead.status = "RECALL"
    /\ \A j \in Callbacks : callbacks[j].status = "SCHEDULED" => j = k
    /\ \A c \in Calls : ~Active(c)

\* Sales is reminded of what is still scheduled, at the time it is scheduled for,
\* once: no pending reminder of a closed or moved callback, none missing.
ReminderTracksCallback ==
  /\ \A r \in Reminders : reminders[r].status = "PENDING" =>
       \E k \in Callbacks : /\ reminders[r].callback = k
                            /\ callbacks[k].status = "SCHEDULED"
                            /\ callbacks[k].time = reminders[r].time
  /\ \A r, q \in Reminders :
       reminders[r].status = "PENDING" /\ reminders[q].status = "PENDING" => r = q
  /\ \A k \in Callbacks : callbacks[k].status = "SCHEDULED" =>
       \E r \in Reminders : /\ reminders[r].status \in {"PENDING", "SENT"}
                            /\ reminders[r].callback = k
                            /\ reminders[r].time = callbacks[k].time

\* An invitation link the manager cancelled leads to no call, and one link to one call.
PreviewBookedOnce ==
  \A c \in Calls : calls[c].invitation # None =>
    /\ previews[calls[c].invitation].status = "OPEN"
    /\ \A d \in Calls : calls[d].invitation = calls[c].invitation => d = c

\* Contracting starts with nothing of the sales funnel left open, and a contract
\* carries exactly the terms that were signed.
ContractingFrozen ==
  /\ lead.status \in Contracting <=> draft.status # "NONE"
  /\ lead.status \in Contracting =>
       /\ \A c \in Calls : ~Active(c)
       /\ \A k \in Callbacks : callbacks[k].status # "SCHEDULED"
       /\ \A r \in Reminders : reminders[r].status # "PENDING"
  /\ lead.status = "CONVERTED" <=> lead.contract # None
  /\ lead.contract # None => draft.status = "SIGNED" /\ draft.terms = lead.contract

\* What the client signed is never rewritten, by a replaced draft or a conversion.
SignedTermsBinding ==
  [][draft.status = "SIGNED" => draft' = draft]_vars

CallAhead(row) == [kind |-> "CALL", expert |-> row.expert, format |-> row.format,
                   confirmed |-> row.status = "CONFIRMED"]
CallbackAhead(row) == [kind |-> "CALLBACK", time |-> row.time]

\* The appointments ahead in the call rows cs and the callback rows ks.
Ahead(cs, ks) ==
  {CallAhead(cs[c]) : c \in {d \in Calls : cs[d].status \in {"REQUESTED", "CONFIRMED"}}}
    \cup {CallbackAhead(ks[k]) : k \in {j \in Callbacks : ks[j].status = "SCHEDULED"}}

\* Seen from the board the handlers are the steps of the funnel: an appointment replaces
\* the one before it, the column moves with it, and contracting has no way back.
Funnel == INSTANCE LeadFunnel WITH
  stage <- lead.status, owner <- lead.manager, expert <- lead.expert,
  appointment <- Ahead(calls, callbacks), contract <- lead.contract
FollowsFunnel == Funnel!Spec

\* A lead that comes back to NEW after a declined call stays with its Sales owner, and
\* a lead in contracting never goes back to the funnel.
NoWayBack ==
  [][/\ lead.manager # None => lead'.manager = lead.manager
     /\ lead.status \in Contracting => lead'.status \in Contracting]_vars

=============================================================================
