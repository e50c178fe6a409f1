-------------------------- MODULE StudentWork_proofs --------------------------
(***************************************************************************)
(* Proofs about StudentWork.  What a completed task carries and which       *)
(* attempts tasks have depends on the calls in flight: they write what they *)
(* decided earlier, so the inductive invariant says of each waiting call    *)
(* what is still true of the row it read.                                   *)
(***************************************************************************)
EXTENDS StudentWork, TLAPS

\* A call in flight writes a task of the type it read; an attempt about to be linked has
\* a row, and no other call is about to link it; a call about to complete a test task
\* still finds an attempt on it.
CallsInFlight ==
  \A q \in Requests :
    /\ request[q].at \in {"CREATE", "LINK", "MARK"} =>
         request[q].task \in Tasks /\ task[request[q].task].type = "TEST"
    /\ request[q].at = "ANSWER" =>
         request[q].task \in Tasks /\ task[request[q].task].type # "TEST"
    /\ request[q].at = "MARK" => task[request[q].task].attempt # NoAttempt
    /\ request[q].at = "LINK" => request[q].attempt \in Attempts /\ attempt[request[q].attempt].exists
    /\ \A r \in Requests : q # r /\ request[q].at = "LINK" /\ request[r].at = "LINK"
                             => request[q].attempt # request[r].attempt

\* The attempt of a task has a row.
LinkedExists ==
  \A t \in Tasks : task[t].attempt # NoAttempt => attempt[task[t].attempt].exists

\* The inductive invariant.
IInv == TypeOK /\ CompletedWithWork /\ AttemptsApart /\ CallsInFlight /\ LinkedExists

\* What Init leaves of the request is a call row.
LEMMA QuietCall == Quiet \in CallRows /\ Quiet.at = "IDLE"
BY DEF Quiet, CallRows, Waiting, TaskCalls, AttemptCalls, NoTask, NoAttempt, NoStudent

\* No task exists and no call is in flight at first.
LEMMA InitInv == Init => IInv
<1> SUFFICES ASSUME Init PROVE IInv
  OBVIOUS
<1>1. TypeOK
  <2>1. task \in [Tasks -> TaskRows]
    <3> DEFINE Row(ty, st) == [type |-> ty, status |-> "ABSENT", deleted |-> FALSE, student |-> st,
                               answered |-> FALSE, attempt |-> NoAttempt]
    <3>1. \A ty \in Types, st \in Students : Row(ty, st) \in TaskRows
      BY DEF TaskRows, Statuses
    <3>2. task \in [Tasks -> {Row(ty, st) : ty \in Types, st \in Students}]
      BY DEF Init
    <3> HIDE DEF Row
    <3> QED
      BY <3>1, <3>2
  <2>2. attempt \in [Attempts -> AttemptRows]
    BY DEF Init, AttemptRows, NoRow
  <2> QED
    BY <2>1, <2>2, QuietCall DEF Init, TypeOK
<1>2. CompletedWithWork /\ AttemptsApart /\ LinkedExists
  BY QuietCall DEF Init, CompletedWithWork, AttemptsApart, LinkedExists
<1>3. CallsInFlight
  BY QuietCall DEF Init, CallsInFlight
<1> QED
  BY <1>1, <1>2, <1>3 DEF IInv

\* A call that begins or returns has a row of its type.
LEMMA BeginCall ==
  ASSUME TypeOK, NEW q \in Requests, NEW call \in CallRows, Continue(q, call)
  PROVE  /\ request' \in [Requests -> CallRows]
         /\ request'[q] = call
         /\ \A r \in Requests : r # q => request'[r] = request[r]
BY DEF Continue, TypeOK

\* A call that returns waits for nothing.
LEMMA EndCall ==
  ASSUME TypeOK, NEW q \in Requests, Return(q)
  PROVE  /\ request' \in [Requests -> CallRows]
         /\ request'[q].at = "IDLE"
         /\ \A r \in Requests : r # q => request'[r] = request[r]
BY QuietCall DEF Return, TypeOK

\* The rows the checking statements leave.
LEMMA CheckRows ==
  ASSUME NEW t \in Tasks
  PROVE  \A at \in Waiting : [Quiet EXCEPT !.at = at, !.task = t] \in CallRows
BY DEF CallRows, Quiet, NoTask, NoAttempt, NoStudent

\* A new call keeps the invariant if what CallsInFlight says of it is so.
LEMMA CheckStep ==
  ASSUME IInv, NEW q \in Requests, NEW t \in Tasks,
         NEW at \in {"ANSWER", "CREATE", "MARK", "DELETE"},
         Continue(q, [Quiet EXCEPT !.at = at, !.task = t]),
         UNCHANGED <<task, attempt, responses, required>>,
         at \in {"CREATE", "MARK"} => task[t].type = "TEST",
         at = "ANSWER" => task[t].type # "TEST",
         at = "MARK" => task[t].attempt # NoAttempt
  PROVE  IInv'
<1> DEFINE call == [Quiet EXCEPT !.at = at, !.task = t]
<1>1. call \in CallRows
  BY CheckRows DEF Waiting, TaskCalls
<1>2. call.at = at /\ call.task = t
  BY DEF Quiet
<1>3. /\ request' \in [Requests -> CallRows]
      /\ request'[q] = call
      /\ \A r \in Requests : r # q => request'[r] = request[r]
  BY <1>1, BeginCall DEF IInv
<1> HIDE DEF call
<1>4. TypeOK' /\ CompletedWithWork' /\ LinkedExists'
  BY <1>3 DEF IInv, TypeOK, CompletedWithWork, LinkedExists
<1>5. AttemptsApart'
  BY <1>2, <1>3 DEF IInv, AttemptsApart
<1>6. CallsInFlight'
  BY <1>2, <1>3 DEF IInv, CallsInFlight
<1> QED
  BY <1>4, <1>5, <1>6 DEF IInv

\* Writing an answer completes a task that is not a test.
LEMMA WriteAnswerStep ==
  ASSUME IInv, NEW q \in Requests, WriteAnswer(q) PROVE IInv'
<1> DEFINE x == request[q].task
<1>1. x \in Tasks /\ task[x].type # "TEST"
  BY DEF IInv, CallsInFlight, WriteAnswer
<1>2. /\ request' \in [Requests -> CallRows]
      /\ request'[q].at = "IDLE"
      /\ \A r \in Requests : r # q => request'[r] = request[r]
  BY EndCall DEF WriteAnswer, IInv
<1>3. /\ task' = [task EXCEPT ![x].answered = TRUE, ![x].status = "COMPLETED"]
      /\ UNCHANGED <<attempt, responses, required>>
  BY DEF WriteAnswer
<1> HIDE DEF x
<1>4. task' \in [Tasks -> TaskRows] /\ task'[x].answered /\ task'[x].status = "COMPLETED"
  BY <1>1, <1>3 DEF IInv, TypeOK, TaskRows, Statuses
<1>5. \A t \in Tasks : task'[t].type = task[t].type /\ task'[t].attempt = task[t].attempt
  BY <1>1, <1>3 DEF IInv, TypeOK, TaskRows
<1>5a. \A t \in Tasks : t # x => task'[t] = task[t]
  BY <1>1, <1>3 DEF IInv, TypeOK, TaskRows
<1>6. TypeOK' /\ CompletedWithWork' /\ LinkedExists'
  BY <1>1, <1>2, <1>3, <1>4, <1>5, <1>5a DEF IInv, TypeOK, CompletedWithWork, LinkedExists
<1>7. AttemptsApart'
  BY <1>2, <1>5 DEF IInv, AttemptsApart
<1>8. CallsInFlight'
  <2>1. UNCHANGED attempt
    BY <1>3
  <2> QED
    BY <2>1, <1>2, <1>5 DEF IInv, CallsInFlight
<1> QED
  BY <1>6, <1>7, <1>8 DEF IInv

\* A linked attempt is new to every task, and its task stops being completed.
LEMMA LinkAttemptStep ==
  ASSUME IInv, NEW q \in Requests, LinkAttempt(q) PROVE IInv'
<1> DEFINE x == request[q].task
           a == request[q].attempt
<1>1. x \in Tasks /\ task[x].type = "TEST" /\ a \in Attempts /\ attempt[a].exists
  BY DEF IInv, CallsInFlight, LinkAttempt
<1>2. /\ \A t \in Tasks : task[t].attempt # a
      /\ \A r \in Requests : r # q /\ request[r].at = "LINK" => request[r].attempt # a
  BY DEF IInv, AttemptsApart, CallsInFlight, LinkAttempt
<1>3. /\ request' \in [Requests -> CallRows]
      /\ request'[q].at = "IDLE"
      /\ \A r \in Requests : r # q => request'[r] = request[r]
  BY EndCall DEF LinkAttempt, IInv
<1>4. /\ task' = [task EXCEPT ![x].attempt = a, ![x].status = "IN_PROGRESS"]
      /\ UNCHANGED <<attempt, responses, required>>
  BY DEF LinkAttempt
<1>5. a # NoAttempt
  BY <1>1 DEF Attempts, NoAttempt
<1> HIDE DEF x, a
<1>6. task' \in [Tasks -> TaskRows] /\ task'[x].attempt = a /\ task'[x].status = "IN_PROGRESS"
  BY <1>1, <1>4 DEF IInv, TypeOK, TaskRows, Statuses
<1>7. \A t \in Tasks : task'[t].type = task[t].type /\ (t # x => task'[t] = task[t])
  BY <1>1, <1>4 DEF IInv, TypeOK, TaskRows
<1>8. TypeOK' /\ CompletedWithWork' /\ LinkedExists'
  BY <1>1, <1>3, <1>4, <1>6, <1>7 DEF IInv, TypeOK, CompletedWithWork, LinkedExists
<1>9. AttemptsApart'
  BY <1>1, <1>2, <1>3, <1>6, <1>7 DEF IInv, AttemptsApart
<1>10. CallsInFlight'
  BY <1>3, <1>4, <1>5, <1>6, <1>7 DEF IInv, CallsInFlight
<1> QED
  BY <1>8, <1>9, <1>10 DEF IInv

\* completeTest and deleteById write one field of a row.
LEMMA MarkOrDeleteStep ==
  ASSUME IInv, NEW q \in Requests, MarkCompleted(q) \/ SoftDelete(q) PROVE IInv'
<1> DEFINE x == request[q].task
<1>1. /\ request' \in [Requests -> CallRows]
      /\ request'[q].at = "IDLE"
      /\ \A r \in Requests : r # q => request'[r] = request[r]
  BY EndCall DEF MarkCompleted, SoftDelete, IInv
<1>2. /\ task' \in [Tasks -> TaskRows]
      /\ \A t \in Tasks : /\ task'[t].type = task[t].type /\ task'[t].attempt = task[t].attempt
                           /\ task'[t].answered = task[t].answered
      /\ \A t \in Tasks : task'[t].status # task[t].status => task'[t].type = "TEST"
                                                  /\ task'[t].attempt # NoAttempt
  <2>1. CASE MarkCompleted(q)
    <3>1. x \in Tasks /\ task[x].type = "TEST" /\ task[x].attempt # NoAttempt
      BY <2>1 DEF IInv, CallsInFlight, MarkCompleted
    <3>2. task' = [task EXCEPT ![x].status = "COMPLETED"]
      BY <2>1 DEF MarkCompleted
    <3> HIDE DEF x
    <3> QED
      BY <3>1, <3>2 DEF IInv, TypeOK, TaskRows, Statuses
  <2>2. CASE SoftDelete(q)
    <3>1. task' = [task EXCEPT ![x].deleted = TRUE]
      BY <2>2 DEF SoftDelete
    <3> HIDE DEF x
    <3> QED
      BY <3>1 DEF IInv, TypeOK, TaskRows
  <2> QED
    BY <2>1, <2>2
<1>3. UNCHANGED <<attempt, responses, required>>
  BY DEF MarkCompleted, SoftDelete
<1>4. TypeOK' /\ CompletedWithWork' /\ LinkedExists'
  BY <1>1, <1>2, <1>3 DEF IInv, TypeOK, CompletedWithWork, LinkedExists
<1>5. AttemptsApart'
  BY <1>1, <1>2 DEF IInv, AttemptsApart
<1>6. CallsInFlight'
  BY <1>1, <1>2, <1>3 DEF IInv, CallsInFlight
<1> QED
  BY <1>4, <1>5, <1>6 DEF IInv

\* Every statement of a call about a task keeps the invariant.
LEMMA TaskCallStep ==
  ASSUME IInv, NEW q \in Requests, TaskStep(q) PROVE IInv'
<1>1. ASSUME NEW t \in Tasks, CheckAnswer(q, t) PROVE IInv'
  BY <1>1, CheckStep DEF CheckAnswer, Actionable
<1>2. ASSUME NEW t \in Tasks, CheckStart(q, t) PROVE IInv'
  BY <1>2, CheckStep DEF CheckStart, Actionable
<1>3. ASSUME NEW t \in Tasks, CheckComplete(q, t) PROVE IInv'
  BY <1>3, CheckStep DEF CheckComplete, Actionable
<1>4. ASSUME NEW t \in Tasks, CheckDelete(q, t) PROVE IInv'
  BY <1>4, CheckStep DEF CheckDelete
<1>5. ASSUME NEW a \in Attempts, CreateTaskAttempt(q, a) PROVE IInv'
  <2> DEFINE x == request[q].task
  <2>1. x \in Tasks /\ task[x].type = "TEST" /\ task[x].student \in Students
    BY <1>5 DEF IInv, CallsInFlight, CreateTaskAttempt, TypeOK, TaskRows
  <2>2. /\ attempt' = [attempt EXCEPT ![a] = [NoRow EXCEPT !.exists = TRUE,
                                                            !.user = task[x].student]]
        /\ request' = [request EXCEPT ![q].at = "LINK", ![q].attempt = a]
        /\ ~ attempt[a].exists
        /\ UNCHANGED <<task, responses, required>>
    BY <1>5 DEF CreateTaskAttempt
  <2> HIDE DEF x
  <2>3. /\ request' \in [Requests -> CallRows]
        /\ request'[q].at = "LINK" /\ request'[q].attempt = a
        /\ \A r \in Requests : r # q => request'[r] = request[r]
    BY <2>2 DEF IInv, TypeOK, CallRows, Waiting, TaskCalls
  <2>3a. request'[q].task = x
    BY <2>2 DEF IInv, TypeOK, CallRows, x
  <2>4. [NoRow EXCEPT !.exists = TRUE, !.user = task[x].student] \in AttemptRows
    BY <2>1 DEF NoRow, AttemptRows
  <2>5. [NoRow EXCEPT !.exists = TRUE, !.user = task[x].student].exists
    BY DEF NoRow
  <2>6. /\ attempt' \in [Attempts -> AttemptRows]
        /\ attempt'[a].exists
        /\ \A b \in Attempts : b # a => attempt'[b] = attempt[b]
    BY <2>2, <2>4, <2>5 DEF IInv, TypeOK
  <2>7. \A t \in Tasks : task[t].attempt # a
    BY <2>2 DEF IInv, LinkedExists, TypeOK, TaskRows, NoAttempt, Attempts
  <2>8. \A r \in Requests : request[r].at = "LINK" => request[r].attempt # a
    BY <2>2 DEF IInv, CallsInFlight
  <2>9. TypeOK' /\ CompletedWithWork'
    BY <2>2, <2>3, <2>6 DEF IInv, TypeOK, CompletedWithWork
  <2>10. LinkedExists'
    BY <2>2, <2>6 DEF IInv, TypeOK, TaskRows, LinkedExists
  <2>11. AttemptsApart'
    BY <2>2, <2>3, <2>7 DEF IInv, AttemptsApart
  <2>12. CallsInFlight'
    BY <2>1, <2>2, <2>3, <2>3a, <2>6, <2>8 DEF IInv, CallsInFlight
  <2> QED
    BY <2>9, <2>10, <2>11, <2>12 DEF IInv
<1> QED
  BY <1>1, <1>2, <1>3, <1>4, <1>5, WriteAnswerStep, LinkAttemptStep, MarkOrDeleteStep DEF TaskStep

\* The statements about attempts leave the tasks and every call's task alone.
LEMMA AttemptCallStep ==
  ASSUME IInv, NEW q \in Requests, AttemptStep(q) PROVE IInv'
<1>1. /\ request' \in [Requests -> CallRows]
      /\ request'[q].at \in {"IDLE", "CHECK", "SUBMIT", "ASSIGN"}
      /\ \A r \in Requests : r # q => request'[r] = request[r]
  <2>1. ASSUME NEW a \in Attempts, BeginSubmit(q, a) PROVE <1>1!:
    <3> DEFINE call == [Quiet EXCEPT !.at = "CHECK", !.attempt = a, !.needs = required]
    <3>1. call \in CallRows /\ call.at = "CHECK"
      BY DEF CallRows, Quiet, NoTask, NoStudent, Waiting, AttemptCalls, IInv, TypeOK
    <3>2. Continue(q, call)
      BY <2>1 DEF BeginSubmit
    <3> HIDE DEF call
    <3> QED
      BY <3>1, <3>2, BeginCall DEF IInv
  <2>2. ASSUME NEW a \in Attempts, NEW u \in Students \cup {NoStudent}, CheckAssign(q, a, u)
        PROVE <1>1!:
    <3> DEFINE call == [Quiet EXCEPT !.at = "ASSIGN", !.attempt = a, !.user = u]
    <3>1. call \in CallRows /\ call.at = "ASSIGN"
      BY DEF CallRows, Quiet, NoTask, Waiting, AttemptCalls
    <3>2. Continue(q, call)
      BY <2>2 DEF CheckAssign
    <3> HIDE DEF call
    <3> QED
      BY <3>1, <3>2, BeginCall DEF IInv
  <2>3. CASE Return(q)
    BY <2>3, EndCall DEF IInv
  <2>4. CASE CheckResponses(q)
    <3>1. CASE request' = [request EXCEPT ![q].at = "SUBMIT"]
      BY <3>1 DEF IInv, TypeOK, CallRows, Waiting, AttemptCalls
    <3> QED
      BY <2>4, <2>3, <3>1 DEF CheckResponses
  <2> QED
    BY <2>1, <2>2, <2>3, <2>4 DEF AttemptStep, Submit, Assign
<1>2. /\ attempt' \in [Attempts -> AttemptRows]
      /\ \A a \in Attempts : attempt'[a].exists = attempt[a].exists
      /\ UNCHANGED <<task, responses, required>>
  <2>1. CASE UNCHANGED <<task, attempt, responses, required>>
    BY <2>1 DEF IInv, TypeOK
  <2>2. CASE Submit(q)
    BY <2>2 DEF Submit, IInv, TypeOK, AttemptRows
  <2>3. CASE Assign(q)
    <3>1. request[q].user \in Students \cup {NoStudent}
      BY DEF IInv, TypeOK, CallRows
    <3> QED
      BY <2>3, <3>1 DEF Assign, IInv, TypeOK, AttemptRows
  <2> QED
    BY <2>1, <2>2, <2>3 DEF AttemptStep, BeginSubmit, CheckAssign, CheckResponses
<1>3. TypeOK' /\ CompletedWithWork'
  BY <1>1, <1>2 DEF IInv, TypeOK, CompletedWithWork
<1>4. LinkedExists'
  BY <1>2 DEF IInv, TypeOK, TaskRows, LinkedExists
<1>5. AttemptsApart'
  BY <1>1, <1>2 DEF IInv, AttemptsApart
<1>6. CallsInFlight'
  BY <1>1, <1>2 DEF IInv, CallsInFlight
<1> QED
  BY <1>3, <1>4, <1>5, <1>6 DEF IInv

\* A new task is pending and has neither answer nor attempt to account for.
LEMMA CreateTaskStep ==
  ASSUME IInv, NEW x \in Tasks, CreateTask(x) PROVE IInv'
<1>1. /\ task' \in [Tasks -> TaskRows]
      /\ \A t \in Tasks : task'[t].type = task[t].type /\ task'[t].attempt = task[t].attempt
      /\ \A t \in Tasks : task'[t].status = "COMPLETED" => task'[t] = task[t]
  BY DEF CreateTask, IInv, TypeOK, TaskRows, Statuses
<1>2. UNCHANGED <<attempt, responses, required, request>>
  BY DEF CreateTask
<1>3. TypeOK' /\ CompletedWithWork' /\ LinkedExists'
  BY <1>1, <1>2 DEF IInv, TypeOK, CompletedWithWork, LinkedExists
<1>4. AttemptsApart'
  BY <1>1, <1>2 DEF IInv, AttemptsApart
<1>5. CallsInFlight'
  BY <1>1, <1>2 DEF IInv, CallsInFlight
<1> QED
  BY <1>3, <1>4, <1>5 DEF IInv

\* Every step keeps the invariant.
LEMMA NextInv == IInv /\ [Next]_vars => IInv'
<1> SUFFICES ASSUME IInv, [Next]_vars PROVE IInv'
  OBVIOUS
<1>1. ASSUME NEW t \in Tasks, CreateTask(t) PROVE IInv'
  BY <1>1, CreateTaskStep
<1>2. ASSUME NEW q \in Requests, Fail(q) PROVE IInv'
  <2>1. /\ request' \in [Requests -> CallRows]
        /\ request'[q].at = "IDLE"
        /\ \A r \in Requests : r # q => request'[r] = request[r]
        /\ UNCHANGED <<task, attempt, responses, required>>
    BY <1>2, EndCall DEF Fail, IInv
  <2> QED
    BY <2>1 DEF IInv, TypeOK, CompletedWithWork, LinkedExists, AttemptsApart, CallsInFlight
<1>3. ASSUME NEW a \in Attempts, NEW u \in Students \cup {NoStudent}, CreateAttempt(a, u)
      PROVE IInv'
  <2>1. /\ attempt' = [attempt EXCEPT ![a] = [NoRow EXCEPT !.exists = TRUE, !.user = u]]
        /\ UNCHANGED <<task, responses, required, request>>
    BY <1>3 DEF CreateAttempt
  <2>2. /\ attempt' \in [Attempts -> AttemptRows]
        /\ \A b \in Attempts : attempt[b].exists => attempt'[b].exists
    BY <2>1 DEF IInv, TypeOK, AttemptRows, NoRow
  <2>3. LinkedExists'
    BY <2>1, <2>2 DEF IInv, TypeOK, TaskRows, LinkedExists
  <2>4. TypeOK' /\ CompletedWithWork' /\ AttemptsApart'
    BY <2>1, <2>2 DEF IInv, TypeOK, CompletedWithWork, AttemptsApart
  <2>5. CallsInFlight'
    BY <2>1, <2>2 DEF IInv, CallsInFlight
  <2> QED
    BY <2>3, <2>4, <2>5 DEF IInv
<1>4. ASSUME NEW a \in Attempts, NEW x \in Questions, Respond(a, x) PROVE IInv'
  BY <1>4 DEF Respond, IInv, TypeOK, CompletedWithWork, LinkedExists, AttemptsApart, CallsInFlight
<1>5. ASSUME NEW x \in Questions, EditQuestion(x) PROVE IInv'
  BY <1>5 DEF EditQuestion, IInv, TypeOK, CompletedWithWork, LinkedExists, AttemptsApart,
     CallsInFlight
<1>6. CASE UNCHANGED vars
  BY <1>6 DEF vars, IInv, TypeOK, CompletedWithWork, LinkedExists, AttemptsApart, CallsInFlight
<1> QED
  BY <1>1, <1>2, <1>3, <1>4, <1>5, <1>6, TaskCallStep, AttemptCallStep DEF Next

\* The inductive invariant holds of every reachable state.
THEOREM Invariance == Spec => []IInv
BY InitInv, NextInv, PTL DEF Spec

\* Every reachable state of the tasks, attempts and calls has the types of the schema.
THEOREM TypesHold == Spec => []TypeOK
<1>1. IInv => TypeOK
  BY DEF IInv
<1> QED
  BY <1>1, Invariance, PTL

\* However the unguarded calls interleave, a completed task carries what completed it.
THEOREM CompletedTasksCarryWork == Spec => []CompletedWithWork
<1>1. IInv => CompletedWithWork
  BY DEF IInv
<1> QED
  BY <1>1, Invariance, PTL

\* No two tasks ever come to share an attempt.
THEOREM AttemptsNeverShared == Spec => []AttemptsApart
<1>1. IInv => AttemptsApart
  BY DEF IInv
<1> QED
  BY <1>1, Invariance, PTL
=============================================================================
