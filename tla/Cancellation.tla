---------------------------- MODULE Cancellation ----------------------------
(***************************************************************************)
(* Threads that call WorkflowRuntime.cancel or cancel_task while the run   *)
(* thread works on the same run (runtime/workflow.py).  Each caller makes  *)
(* one call; call[c] holds the local variables of it.  As in RunLoop, one  *)
(* action is one call of the store, of the active-request registry or of   *)
(* the executor, and a refused update raises out of cancel().              *)
(***************************************************************************)
EXTENDS RunLoop

CONSTANTS
    Callers,         \* cancelling threads
    CancelReplies    \* CancelReplies[t]: what the executor of t may reply to
                     \* cancel for a live execution; {} without cancellation

CancellationStatus ==
    {"requested", "confirmed", "unsupported", "unconfirmed", "already_terminal"}

ASSUME CancelRepliesType ==
    CancelReplies \in [Tasks -> SUBSET {"requested", "confirmed", "unconfirmed"}]

VARIABLE call

CallSteps ==
    {"idle", "read_run", "request_run", "list", "each", "cancel_listed",
     "read_task", "cancel_pending", "read_attempts", "request_attempt",
     "handle", "lost_attempt", "lost_read_task", "lost_task", "ask_executor",
     "after_attempt", "after_task", "reply_refs", "append_ref",
     "settle_attempt", "settle_task",
     "reread_run", "settle_run", "replied", "raised"}

Unanswered == "none"

Calls ==
    [at: CallSteps, whole: BOOLEAN, task: Tasks, num: Nat,
     run: WorkflowRunStatus \cup {Absent},
     taskRun: TaskRunStatus \cup {Absent},
     attempt: TaskAttemptStatus,
     listed: [Tasks -> TaskRunStatus \cup {Absent}], todo: SUBSET Tasks,
     statuses: SUBSET CancellationStatus,
     answer: CancellationStatus \cup {Unanswered},
     reply: CancellationStatus \cup {Unanswered}]

\* A call without local variables: not begun yet, or over.
NoCall ==
    [at |-> "idle", whole |-> TRUE, task |-> 1, num |-> 0,
     run |-> "PENDING", taskRun |-> "PENDING", attempt |-> "PENDING",
     listed |-> [t \in Tasks |-> Absent], todo |-> {}, statuses |-> {},
     answer |-> Unanswered, reply |-> Unanswered]

InitCancellation == call = [c \in Callers |-> NoCall]

CancellationTypeOK == call \in [Callers -> Calls]

-----------------------------------------------------------------------------

At(c, step) == call[c].at = step

\* What a cancelling thread leaves alone of the run thread.
runThread ==
    <<pc, task, reused, runView, taskView, attemptView, listed, todo, result>>

\* A step of the call that does not touch the store.
Local(c, locals) ==
    /\ call' = [call EXCEPT ![c] = locals]
    /\ UNCHANGED <<store, runThread, executor>>

Goto(c, step) == [call[c] EXCEPT !.at = step]

CallRaises(c) == Local(c, [NoCall EXCEPT !.at = "raised"])

Reply(c, status) ==
    [NoCall EXCEPT !.at = "replied", !.whole = call[c].whole,
                   !.task = call[c].task, !.reply = status]

\* The end of cancel_task: a call of its own, or one turn of cancel's loop.
TaskReply(c, status) ==
    IF call[c].whole
    THEN [call[c] EXCEPT !.at = "each", !.statuses = @ \cup {status}]
    ELSE Reply(c, status)

CallTransitionsRun(c, target, locals) ==
    \/ /\ UpdateWorkflowRun(call[c].run, target)
       /\ call' = [call EXCEPT ![c] = locals]
       /\ UNCHANGED <<runThread, executor>>
    \/ ~ WorkflowUpdateAccepted(call[c].run, target) /\ CallRaises(c)

CallTransitionsTask(c, target, locals) ==
    \/ /\ UpdateTaskRun(call[c].task, call[c].taskRun, target)
       /\ call' = [call EXCEPT ![c] = locals]
       /\ UNCHANGED <<runThread, executor>>
    \/ /\ ~ TaskUpdateAccepted(call[c].task, call[c].taskRun, target)
       /\ CallRaises(c)

CallTransitionsAttempt(c, target, locals) ==
    \/ /\ UpdateTaskAttempt(call[c].task, call[c].num, call[c].attempt, target)
       /\ call' = [call EXCEPT ![c] = locals]
       /\ UNCHANGED <<runThread, executor>>
    \/ /\ ~ AttemptUpdateAccepted(call[c].task, call[c].num,
                                  call[c].attempt, target)
       /\ CallRaises(c)

-----------------------------------------------------------------------------
(* cancel(workflow_run_id).                                                *)

BeginCancel(c) ==
    /\ At(c, "idle")
    /\ workflowRun # Absent
    /\ Local(c, Goto(c, "read_run"))

ReadRun(c) ==
    /\ At(c, "read_run")
    /\ \/ /\ workflowRun \in WorkflowTerminal
          /\ Local(c, Reply(c, "already_terminal"))
       \/ /\ workflowRun = "UNKNOWN_OUTCOME"
          /\ Local(c, Reply(c, "unconfirmed"))
       \/ /\ workflowRun = "CANCELLATION_REQUESTED"
          /\ Local(c, Goto(c, "list"))
       \/ /\ workflowRun \in {"PENDING", "RUNNING"}
          /\ Local(c, [Goto(c, "request_run") EXCEPT !.run = workflowRun])

RequestRun(c) ==
    /\ At(c, "request_run")
    /\ CallTransitionsRun(c, "CANCELLATION_REQUESTED", Goto(c, "list"))

\* The statuses list_task_runs returns decide what the loop does per task.
ListTasks(c) ==
    /\ At(c, "list")
    /\ Local(c, [Goto(c, "each") EXCEPT
                   !.listed = taskRun,
                   !.todo = {t \in Tasks : taskRun[t] \in NotStarted \cup {"RUNNING"}},
                   !.statuses = IF \E t \in Tasks : taskRun[t] = "UNKNOWN_OUTCOME"
                                THEN {"unconfirmed"} ELSE {}])

NextListed(c) ==
    /\ At(c, "each")
    /\ \E t \in call[c].todo :
          LET next == IF call[c].listed[t] = "RUNNING"
                      THEN "read_task" ELSE "cancel_listed"
          IN Local(c, [Goto(c, next) EXCEPT
                         !.task = t, !.taskRun = call[c].listed[t],
                         !.todo = @ \ {t}])

CancelListed(c) ==
    /\ At(c, "cancel_listed")
    /\ CallTransitionsTask(c, "CANCELLED", TaskReply(c, "confirmed"))

\* Mutant: cancel lists the tasks again until no outcome is in doubt.
AllListedInsists(c) ==
    /\ At(c, "each")
    /\ call[c].todo = {}
    /\ Local(c, Goto(c, IF "unconfirmed" \in call[c].statuses
                       THEN "list" ELSE "reread_run"))

AllListed(c) ==
    /\ At(c, "each")
    /\ call[c].todo = {}
    /\ Local(c, Goto(c, "reread_run"))

\* The strongest doubt wins; the run is cancelled when there is none.
WholeReply(statuses) ==
    IF "unconfirmed" \in statuses THEN "unconfirmed"
    ELSE IF "requested" \in statuses THEN "requested"
    ELSE IF "unsupported" \in statuses THEN "unsupported"
    ELSE "confirmed"

RereadRun(c) ==
    /\ At(c, "reread_run")
    /\ LET reply == WholeReply(call[c].statuses) IN
          \/ /\ reply \in {"unconfirmed", "confirmed"}
             /\ workflowRun = "CANCELLATION_REQUESTED"
             /\ Local(c, [Goto(c, "settle_run") EXCEPT
                            !.run = workflowRun, !.answer = reply])
          \/ /\ \/ reply \notin {"unconfirmed", "confirmed"}
                \/ workflowRun # "CANCELLATION_REQUESTED"
             /\ Local(c, Reply(c, reply))

SettleRun(c) ==
    /\ At(c, "settle_run")
    /\ CallTransitionsRun(c,
          IF call[c].answer = "unconfirmed" THEN "UNKNOWN_OUTCOME" ELSE "CANCELLED",
          Reply(c, call[c].answer))

-----------------------------------------------------------------------------
(* cancel_task(task_run_id), on its own or for a task cancel listed as     *)
(* RUNNING.                                                                *)

BeginCancelTask(c) ==
    /\ At(c, "idle")
    /\ \E t \in Tasks :
          /\ taskRun[t] # Absent
          /\ Local(c, [Goto(c, "read_task") EXCEPT !.whole = FALSE, !.task = t])

ReadTask(c) ==
    /\ At(c, "read_task")
    /\ LET status == taskRun[call[c].task] IN
          \/ /\ status \in TaskRunTerminal \ {"REUSED"}
             /\ Local(c, TaskReply(c, "already_terminal"))
          \/ /\ status \in NotStarted
             /\ Local(c, [Goto(c, "cancel_pending") EXCEPT !.taskRun = status])
          \/ /\ status = "UNKNOWN_OUTCOME"
             /\ Local(c, TaskReply(c, "unconfirmed"))
          \/ /\ status \in {"RUNNING", "REUSED"}
             /\ Local(c, [Goto(c, "read_attempts") EXCEPT !.taskRun = status])

CancelPending(c) ==
    /\ At(c, "cancel_pending")
    /\ CallTransitionsTask(c, "CANCELLED", TaskReply(c, "confirmed"))

ReadAttempts(c) ==
    /\ At(c, "read_attempts")
    /\ LET attempts == taskAttempts[call[c].task]
           latest   == attempts[Len(attempts)]
           read     == [call[c] EXCEPT !.num = Len(attempts), !.attempt = latest]
       IN \/ attempts = << >> /\ Local(c, TaskReply(c, "unconfirmed"))
          \/ /\ attempts # << >>
             /\ latest \in TaskAttemptTerminal
             /\ Local(c, TaskReply(c, "already_terminal"))
          \/ /\ attempts # << >>
             /\ latest = "CANCELLATION_REQUESTED"
             /\ Local(c, [read EXCEPT !.at = "handle"])
          \/ /\ attempts # << >>
             /\ latest \notin TaskAttemptTerminal \cup {"CANCELLATION_REQUESTED"}
             /\ Local(c, [read EXCEPT !.at = "request_attempt"])

RequestAttempt(c) ==
    /\ At(c, "request_attempt")
    /\ CallTransitionsAttempt(c, "CANCELLATION_REQUESTED", Goto(c, "handle"))

\* _active_request, then the capability of the executor it names.
LookUpHandle(c) ==
    /\ At(c, "handle")
    /\ \/ /\ <<call[c].task, call[c].num>> \notin active
          /\ Local(c, [Goto(c, "after_attempt") EXCEPT !.answer = Unanswered])
       \/ /\ <<call[c].task, call[c].num>> \in active
          /\ CancelReplies[call[c].task] = {}
          /\ Local(c, [Goto(c, "after_attempt") EXCEPT !.answer = "unsupported"])
       \/ /\ <<call[c].task, call[c].num>> \in active
          /\ CancelReplies[call[c].task] # {}
          /\ Local(c, Goto(c, "ask_executor"))

\* executor.cancel on an execution it no longer, or does not yet, run.
LateReplies(t) ==
    {"already_terminal", "unconfirmed"} \cup (CancelReplies[t] \cap {"requested"})

AskExecutor(c) ==
    /\ At(c, "ask_executor")
    /\ \E reply \in CancelReplies[call[c].task] \cup LateReplies(call[c].task) :
          /\ call' = [call EXCEPT ![c].at = "after_attempt", ![c].answer = reply]
          /\ \/ /\ execution = "executing"
                /\ task = call[c].task
                /\ AttemptNumber = call[c].num
                /\ execution' = IF reply \in {"confirmed", "requested"}
                                THEN "interrupted" ELSE execution
             \/ reply \in LateReplies(call[c].task) /\ UNCHANGED execution
    /\ UNCHANGED <<store, runThread, active>>

ReadAttemptAfter(c) ==
    /\ At(c, "after_attempt")
    /\ LET next == CASE call[c].answer = Unanswered -> "lost_attempt"
                     [] call[c].answer = "unsupported" -> "settle_attempt"
                     [] OTHER -> "after_task"
       IN Local(c, [Goto(c, next) EXCEPT
                      !.attempt = taskAttempts[call[c].task][call[c].num]])

\* No active request: the outcome of the attempt can no longer be known.
LoseAttempt(c) ==
    /\ At(c, "lost_attempt")
    /\ CallTransitionsAttempt(c, "CANCELLATION_UNCONFIRMED",
                              Goto(c, "lost_read_task"))

LostReadTask(c) ==
    /\ At(c, "lost_read_task")
    /\ Local(c, [Goto(c, "lost_task") EXCEPT !.taskRun = taskRun[call[c].task]])

LoseTask(c) ==
    /\ At(c, "lost_task")
    /\ CallTransitionsTask(c, "UNKNOWN_OUTCOME", TaskReply(c, "unconfirmed"))

ReadTaskAfter(c) ==
    /\ At(c, "after_task")
    /\ Local(c, [Goto(c, "reply_refs") EXCEPT !.taskRun = taskRun[call[c].task]])

\* The references the executor's reply names are stored whatever has become of
\* the attempt meanwhile; then its answer is acted on.
AfterReplyRefs(c) ==
    IF call[c].answer = "requested"
    THEN TaskReply(c, "requested") ELSE Goto(c, "settle_attempt")

ListReplyRefs(c) ==
    /\ At(c, "reply_refs")
    /\ \/ Local(c, AfterReplyRefs(c))
       \/ /\ ExternalRunRefAccepted(call[c].task, call[c].num)
          /\ Local(c, Goto(c, "append_ref"))

\* Another thread that stored the same reference since makes it raise.
AppendReplyRef(c) ==
    /\ At(c, "append_ref")
    /\ \/ /\ AppendExternalRunRef(call[c].task, call[c].num)
          /\ call' = [call EXCEPT ![c] = AfterReplyRefs(c)]
          /\ UNCHANGED <<runThread, executor>>
       \/ /\ ~ ExternalRunRefAccepted(call[c].task, call[c].num)
          /\ CallRaises(c)

\* The status of the attempt after the executor's answer: an attempt that it
\* did not cancel goes back to RUNNING.
SettledAs(answer) ==
    CASE answer = "confirmed" -> "CANCELLED"
      [] answer = "unconfirmed" -> "CANCELLATION_UNCONFIRMED"
      [] OTHER -> "RUNNING"

SettleAttempt(c) ==
    /\ At(c, "settle_attempt")
    /\ LET answer == call[c].answer IN
          CallTransitionsAttempt(c, SettledAs(answer),
             IF answer \in {"confirmed", "unconfirmed"}
             THEN Goto(c, "settle_task") ELSE TaskReply(c, answer))

SettleTask(c) ==
    /\ At(c, "settle_task")
    /\ CallTransitionsTask(c,
          IF call[c].answer = "confirmed" THEN "CANCELLED" ELSE "UNKNOWN_OUTCOME",
          TaskReply(c, call[c].answer))

CallStep(c) ==
    \/ ReadRun(c) \/ RequestRun(c) \/ ListTasks(c) \/ NextListed(c)
    \/ CancelListed(c) \/ AllListed(c) \/ RereadRun(c) \/ SettleRun(c)
    \/ ReadTask(c) \/ CancelPending(c) \/ ReadAttempts(c)
    \/ RequestAttempt(c) \/ LookUpHandle(c) \/ AskExecutor(c)
    \/ ReadAttemptAfter(c) \/ LoseAttempt(c) \/ LostReadTask(c) \/ LoseTask(c)
    \/ ReadTaskAfter(c) \/ ListReplyRefs(c) \/ AppendReplyRef(c)
    \/ SettleAttempt(c) \/ SettleTask(c)

CallBegins(c) == BeginCancel(c) \/ BeginCancelTask(c)

=============================================================================
