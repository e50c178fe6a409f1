----------------------------- MODULE StudentWork -----------------------------
(***************************************************************************)
(* The tasks an expert sets a student (task/service/task.service.ts) and    *)
(* the test attempts behind them (attempt/service/attempt.service.ts).      *)
(*                                                                         *)
(* No call here holds a transaction: each reads its row, decides, and       *)
(* writes by id, so what it decided on may have changed.  A request is a    *)
(* process with a step per statement.  All tasks of type TEST use one test; *)
(* comments, titles and the unused Attempt.status are left out.             *)
(***************************************************************************)
EXTENDS Naturals, FiniteSets

CONSTANTS Tasks, Questions, Requests,
          MaxStudents, MaxAttempts   \* users and attempts are numbered; 0 is null

Students == 1..MaxStudents
NoStudent == 0
Attempts == 1..MaxAttempts
NoAttempt == 0

Types == {"FILE_UPLOAD", "TEXT_ANSWER", "TEST"}
Statuses == {"ABSENT", "PENDING", "IN_PROGRESS", "COMPLETED"}

VARIABLES
  task,       \* the Task rows; answered: fileUrl or textAnswer is set
  attempt,    \* the Attempt rows: who took it, and whether submittedAt is set
  responses,  \* per attempt: the questions with a Response row (never deleted)
  required,   \* the questions of the test that must be answered now
  request     \* the calls in progress, each with what it read

vars == <<task, attempt, responses, required, request>>

TaskRows == [type: Types, status: Statuses, deleted: BOOLEAN, student: Students,
             answered: BOOLEAN, attempt: Attempts \cup {NoAttempt}]
AttemptRows == [exists: BOOLEAN, user: Students \cup {NoStudent}, submitted: BOOLEAN]

\* The calls that are more than one statement, and where they are.
TaskCalls == {"ANSWER", "LINK", "MARK", "DELETE"}
AttemptCalls == {"CHECK", "SUBMIT", "ASSIGN"}
Waiting == {"IDLE", "CREATE"} \cup TaskCalls \cup AttemptCalls

NoTask == "NONE"
Quiet == [at |-> "IDLE", task |-> NoTask,
          attempt |-> NoAttempt, user |-> NoStudent, needs |-> {}]

CallRows == [at: Waiting, task: Tasks \cup {NoTask}, attempt: Attempts \cup {NoAttempt},
             user: Students \cup {NoStudent}, needs: SUBSET Questions]

TypeOK ==
  /\ task \in [Tasks -> TaskRows]
  /\ attempt \in [Attempts -> AttemptRows]
  /\ responses \in [Attempts -> SUBSET Questions]
  /\ required \subseteq Questions
  /\ request \in [Requests -> CallRows]

NoRow == [exists |-> FALSE, user |-> NoStudent, submitted |-> FALSE]

Init ==
  /\ task \in [Tasks -> {[type |-> ty, status |-> "ABSENT", deleted |-> FALSE, student |-> st,
                          answered |-> FALSE, attempt |-> NoAttempt] :
                            ty \in Types, st \in Students}]
  /\ attempt = [a \in Attempts |-> NoRow]
  /\ responses = [a \in Attempts |-> {}]
  /\ required = Questions
  /\ request = [q \in Requests |-> Quiet]

Return(q) == request' = [request EXCEPT ![q] = Quiet]

Continue(q, call) == /\ request[q].at = "IDLE"
                     /\ request' = [request EXCEPT ![q] = call]

(* -------------------------------- tasks --------------------------------- *)

\* create(): the assignment of the student to the expert is checked by the caller.
CreateTask(t) ==
  /\ task[t].status = "ABSENT"
  /\ task' = [task EXCEPT ![t].status = "PENDING"]
  /\ UNCHANGED <<attempt, responses, required, request>>

Visible(t) == task[t].status # "ABSENT" /\ ~ task[t].deleted

\* getActionableStudentTask(): the task is the student's, of the type, and not completed.
Actionable(t, types) ==
  Visible(t) /\ task[t].type \in types /\ task[t].status # "COMPLETED"

\* submitFile() has an upload between its read and its write, submitText() nothing.
CheckAnswer(q, t) ==
  /\ Actionable(t, {"FILE_UPLOAD", "TEXT_ANSWER"})
  /\ Continue(q, [Quiet EXCEPT !.at = "ANSWER", !.task = t])
  /\ UNCHANGED <<task, attempt, responses, required>>

WriteAnswer(q) ==
  /\ request[q].at = "ANSWER"
  /\ task' = [task EXCEPT ![request[q].task].answered = TRUE,
                          ![request[q].task].status = "COMPLETED"]
  /\ Return(q)
  /\ UNCHANGED <<attempt, responses, required>>

\* startTestAttempt(): refused when the task it read has an attempt already.
CheckStart(q, t) ==
  /\ Actionable(t, {"TEST"})
  /\ task[t].attempt = NoAttempt
  /\ Continue(q, [Quiet EXCEPT !.at = "CREATE", !.task = t])
  /\ UNCHANGED <<task, attempt, responses, required>>

\* The attempt belongs to the student from the start.
CreateTaskAttempt(q, a) ==
  /\ request[q].at = "CREATE"
  /\ ~ attempt[a].exists
  /\ attempt' = [attempt EXCEPT ![a] = [NoRow EXCEPT !.exists = TRUE,
                                          !.user = task[request[q].task].student]]
  /\ request' = [request EXCEPT ![q].at = "LINK", ![q].attempt = a]
  /\ UNCHANGED <<task, responses, required>>

LinkAttempt(q) ==
  /\ request[q].at = "LINK"
  /\ task' = [task EXCEPT ![request[q].task].attempt = request[q].attempt,
                          ![request[q].task].status = "IN_PROGRESS"]
  /\ Return(q)
  /\ UNCHANGED <<attempt, responses, required>>

\* completeTest(): the attempt has been started; whether it was submitted is not asked.
CheckComplete(q, t) ==
  /\ Actionable(t, {"TEST"})
  /\ task[t].attempt # NoAttempt
  /\ Continue(q, [Quiet EXCEPT !.at = "MARK", !.task = t])
  /\ UNCHANGED <<task, attempt, responses, required>>

MarkCompleted(q) ==
  /\ request[q].at = "MARK"
  /\ task' = [task EXCEPT ![request[q].task].status = "COMPLETED"]
  /\ Return(q)
  /\ UNCHANGED <<attempt, responses, required>>

\* deleteById() reads the row of its own expert and sets deletedAt afterwards.
CheckDelete(q, t) ==
  /\ Visible(t)
  /\ Continue(q, [Quiet EXCEPT !.at = "DELETE", !.task = t])
  /\ UNCHANGED <<task, attempt, responses, required>>

SoftDelete(q) ==
  /\ request[q].at = "DELETE"
  /\ task' = [task EXCEPT ![request[q].task].deleted = TRUE]
  /\ Return(q)
  /\ UNCHANGED <<attempt, responses, required>>

(* ------------------------------- attempts ------------------------------- *)

\* POST tests/:testId/attempt: before a visitor has an account the attempt has no user.
CreateAttempt(a, u) ==
  /\ ~ attempt[a].exists
  /\ attempt' = [attempt EXCEPT ![a] = [NoRow EXCEPT !.exists = TRUE, !.user = u]]
  /\ UNCHANGED <<task, responses, required, request>>

\* One row per attempt and question (upsert); submission does not close an attempt.
Respond(a, x) ==
  /\ attempt[a].exists
  /\ responses' = [responses EXCEPT ![a] = @ \cup {x}]
  /\ UNCHANGED <<task, attempt, required, request>>

EditQuestion(x) ==
  /\ required' = IF x \in required THEN required \ {x} ELSE required \cup {x}
  /\ UNCHANGED <<task, attempt, responses, request>>

Submittable(a) ==
  attempt[a].exists /\ ~ attempt[a].submitted /\ attempt[a].user = NoStudent

\* submit(): reads the attempt and the questions; the responses come next.
BeginSubmit(q, a) ==
  /\ Submittable(a)
  /\ Continue(q, [Quiet EXCEPT !.at = "CHECK", !.attempt = a, !.needs = required])
  /\ UNCHANGED <<task, attempt, responses, required>>

CheckResponses(q) ==
  /\ request[q].at = "CHECK"
  /\ IF request[q].needs \subseteq responses[request[q].attempt]
     THEN request' = [request EXCEPT ![q].at = "SUBMIT"]
     ELSE Return(q)
  /\ UNCHANGED <<task, attempt, responses, required>>

Submit(q) ==
  /\ request[q].at = "SUBMIT"
  /\ attempt' = [attempt EXCEPT ![request[q].attempt].submitted = TRUE]
  /\ Return(q)
  /\ UNCHANGED <<task, responses, required>>

\* assignUser() at sign-up, with the token submit() gave, refuses an attempt that has a
\* user when it is read; so does PATCH, unless it is given no user to write.
CheckAssign(q, a, u) ==
  /\ attempt[a].exists
  /\ u # NoStudent => attempt[a].user = NoStudent
  /\ Continue(q, [Quiet EXCEPT !.at = "ASSIGN", !.attempt = a, !.user = u])
  /\ UNCHANGED <<task, attempt, responses, required>>

Assign(q) ==
  /\ request[q].at = "ASSIGN"
  /\ attempt' = [attempt EXCEPT ![request[q].attempt].user = request[q].user]
  /\ Return(q)
  /\ UNCHANGED <<task, responses, required>>

\* A statement or the upload fails, or the process dies: the call ends where it is.
Fail(q) ==
  /\ request[q].at # "IDLE"
  /\ Return(q)
  /\ UNCHANGED <<task, attempt, responses, required>>

TaskStep(q) ==
  \/ \E t \in Tasks : CheckAnswer(q, t) \/ CheckStart(q, t) \/ CheckComplete(q, t)
                      \/ CheckDelete(q, t)
  \/ WriteAnswer(q) \/ LinkAttempt(q) \/ MarkCompleted(q) \/ SoftDelete(q)
  \/ \E a \in Attempts : CreateTaskAttempt(q, a)

AttemptStep(q) ==
  \/ \E a \in Attempts : BeginSubmit(q, a) \/ (\E u \in Students \cup {NoStudent} : CheckAssign(q, a, u))
  \/ CheckResponses(q) \/ Submit(q) \/ Assign(q)

Next ==
  \/ \E t \in Tasks : CreateTask(t)
  \/ \E q \in Requests : TaskStep(q) \/ AttemptStep(q) \/ Fail(q)
  \/ \E a \in Attempts : \/ \E u \in Students \cup {NoStudent} : CreateAttempt(a, u)
                         \/ \E x \in Questions : Respond(a, x)
  \/ \E x \in Questions : EditQuestion(x)

Spec == Init /\ [][Next]_vars

(* ------------------------------ properties ------------------------------ *)

\* A task that was completed carries what completed it: an answer, or an attempt.
CompletedWithWork ==
  \A t \in Tasks : task[t].status = "COMPLETED" =>
    IF task[t].type = "TEST" THEN task[t].attempt # NoAttempt ELSE task[t].answered

\* Two tasks never share an attempt, and no call is about to make them: the unique
\* constraint on Task.testAttemptId refuses no write of linkAttempt().
AttemptsApart ==
  /\ \A t, u \in Tasks : t # u /\ task[t].attempt # NoAttempt => task[t].attempt # task[u].attempt
  /\ \A q \in Requests, t \in Tasks :
       request[q].at = "LINK" => task[t].attempt # request[q].attempt

\* "A test attempt has already been started for this task" (task.service.ts:197): a
\* task's attempt is never replaced by another.
StartedOnce ==
  [][\A t \in Tasks : task[t].attempt # NoAttempt
                        => task'[t].attempt = task[t].attempt]_vars
=============================================================================
