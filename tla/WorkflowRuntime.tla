-------------------------- MODULE WorkflowRuntime --------------------------
(***************************************************************************)
(* WorkflowRuntime in one process: the run thread of one workflow run and  *)
(* the threads that cancel it, over one metadata store.                    *)
(***************************************************************************)
EXTENDS Cancellation

vars == <<store, runLoopVars, call>>

Init == InitStore /\ InitRunLoop /\ InitCancellation

RunStep == RunThread /\ UNCHANGED call

Ended == pc \in {"returned", "raised"}

\* Nothing is left to do: the program has left run() and every cancel().
Stopped ==
    /\ Ended
    /\ \A c \in Callers : call[c].at \in {"idle", "replied", "raised"}
    /\ UNCHANGED vars

Next ==
    \/ RunStep
    \/ \E c \in Callers : CallBegins(c) \/ CallStep(c)
    \/ Stopped

\* Every thread is scheduled and every executor call returns.  Whether a
\* cancellation is asked for at all is free.
Fairness ==
    /\ WF_vars(RunStep)
    /\ \A c \in Callers : WF_vars(CallStep(c))

Spec == Init /\ [][Next]_vars
FairSpec == Spec /\ Fairness

-----------------------------------------------------------------------------

\* Every variable keeps to the records of runtime/entities.py and to the
\* local variables of run(), cancel() and cancel_task().
TypeOK == StoreTypeOK /\ RunLoopTypeOK /\ CancellationTypeOK

\* Whatever the interleaving of stale copies, the statuses of a stored record
\* only move along the transition tables: a terminal status is never
\* rewritten and no attempt disappears (update_* under _require_status).
DurableStepsLegal ==
    [][/\ WorkflowMovesLegally
       /\ \A t \in Tasks : TaskMovesLegally(t) /\ AttemptsMoveLegally(t)]_vars

\* A retry budget of max_attempts is never exceeded (RetryEvaluator.evaluate
\* with the attempt number of the store).
AttemptsWithinPolicy ==
    \A t \in Tasks : Len(taskAttempts[t]) <= Policy.max_attempts

\* The status of a settled task run is that of its last attempt, whoever
\* settled it: the two are separate updates of two racing threads.
TaskMatchesLastAttempt ==
    \A t \in Tasks :
        /\ taskRun[t] \in {"SUCCEEDED", "FAILED", "TIMED_OUT"} =>
              taskAttempts[t] # << >> /\ LastAttempt(t) = taskRun[t]
        /\ taskRun[t] = "CANCELLED" /\ taskAttempts[t] # << >> =>
              LastAttempt(t) = "CANCELLED"

\* A task with an attempt had its upstream tasks settled and its trigger rule
\* satisfied, and that stays so whatever a cancellation does meanwhile.
DispatchAfterDependencies ==
    \A t \in Tasks : taskAttempts[t] # << >> =>
        /\ Upstream(t) \subseteq TaskRunTerminal
        /\ TriggerAllows(TriggerRule[t], Upstream(t))

\* A run that ended otherwise than by cancellation has no task left open, and
\* its tasks justify its status (_assert_terminal_task_runs, fail-fast).
SettledRunHasSettledTasks ==
    LET statuses == {taskRun[t] : t \in Tasks} IN
    /\ workflowRun \in {"SUCCEEDED", "FAILED", "TIMED_OUT"} =>
          statuses \subseteq TaskRunTerminal
    /\ workflowRun = "SUCCEEDED" => statuses \subseteq {"SUCCEEDED", "SKIPPED", "REUSED"}
    /\ workflowRun \in {"FAILED", "TIMED_OUT"} => workflowRun \in statuses

\* A run that returned leaves no attempt in flight behind, nor one whose
\* cancellation is still pending: each ended or waits for reconciliation.
ReturnedRunHasNoLiveAttempt ==
    pc = "returned" =>
        \A t \in Tasks : taskAttempts[t] # << >> =>
            LastAttempt(t) \in TaskAttemptTerminal
                \cup {"UNKNOWN_OUTCOME", "REQUIRES_RECONCILIATION"}

\* run() returns no result for a run that is still open.
ReturnedRunIsSettled ==
    pc = "returned" => workflowRun \in WorkflowTerminal \cup {"UNKNOWN_OUTCOME"}

\* The executor gave a cancelled failure for an attempt that nobody cancelled:
\* RUNNING does not go to CANCELLED, and the records stay as they are.
StrandedByItsExecutor ==
    /\ result.failure.category = "cancelled"
    /\ workflowRun = "RUNNING"
    /\ taskRun[task] = "RUNNING"
    /\ taskAttempts[task] # << >>
    /\ LastAttempt(task) = "RUNNING"

\* Nobody having cancelled, an executor that reports a cancellation of its own
\* is all that makes run() raise.
RaisesOnlyStranded == pc = "raised" => StrandedByItsExecutor

\* Left alone, run() settles every task and the run, unless the executor
\* reports a cancellation (WorkflowRuntime.run without a cancellation).
UndisturbedRunSettles ==
    RaisesOnlyStranded /\ ReturnedRunIsSettled /\ SettledRunHasSettledTasks

\* A task that cancel_task reports as cancelled is cancelled for good.
ConfirmedTaskIsCancelled ==
    \A c \in Callers :
        At(c, "replied") /\ ~ call[c].whole /\ call[c].reply = "confirmed" =>
            taskRun[call[c].task] = "CANCELLED"

\* No cancelling thread records an attempt as cancelled whose executor cannot
\* cancel: the executor's own result said so, and the run was left at that.
CancelledOnExecutorsWord ==
    \A t \in Tasks : CancelReplies[t] = {} =>
        \A n \in 1 .. Len(taskAttempts[t]) : taskAttempts[t][n] = "CANCELLED" =>
            /\ result.failure.category = "cancelled"
            /\ execution = "idle"

\* What a cancelling thread is told, and what it records, is what the executor
\* did or said (cancel_task, whoever else cancels the same task).
CancellationsAreHonest == ConfirmedTaskIsCancelled /\ CancelledOnExecutorsWord

\* run() always ends, by returning or by raising.
RunEnds == <>Ended

\* Every cancel() and cancel_task() call ends as well.
CallsEnd ==
    \A c \in Callers : ~ At(c, "idle") ~> call[c].at \in {"replied", "raised"}

-----------------------------------------------------------------------------
(* Refinement: the ledger of RunLedger is read off the stored records.    *)

Verdict(status, terminal) == IF status \in terminal THEN status ELSE "open"

\* How the last attempt of a task stands.
LastEnd(t) ==
    IF taskAttempts[t] = << >> THEN "nothing"
    ELSE IF LastAttempt(t) \in TaskAttemptTerminal THEN LastAttempt(t) ELSE "live"

Ledger ==
    INSTANCE RunLedger WITH
        run <- Verdict(workflowRun, WorkflowTerminal),
        tasks <- [t \in Tasks |-> Verdict(taskRun[t], TaskRunTerminal)],
        last <- [t \in Tasks |-> LastEnd(t)],
        outputs <- checkpoints

\* Every step of every thread is a step of the ledger or none: no verdict is
\* given twice or without the attempts that justify it, no task is tried again
\* after anything but a failure, and no run is closed against its tasks
\* (runtime/workflow.py, over the compare-and-set of persistence/memory.py).
ImplementsLedger == Ledger!Spec

=============================================================================
