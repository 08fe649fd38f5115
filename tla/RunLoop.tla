------------------------------ MODULE RunLoop ------------------------------
(***************************************************************************)
(* The thread that calls WorkflowRuntime.run or resume_run                 *)
(* (runtime/workflow.py).  It creates the records of the run, visits the   *)
(* tasks in plan order, drives one attempt at a time through the executor, *)
(* retries by policy and settles the run.                                  *)
(*                                                                         *)
(* One action is one call of the metadata store, of the registry of active *)
(* requests or of the executor: what other threads do falls between two    *)
(* actions.  runView, taskView and attemptView are the thread's own copies *)
(* of its records, the expected statuses of its next updates.  An update   *)
(* that the store or the state machine refuses raises out of run().        *)
(* The wait before a retry is the time between two actions.                *)
(*                                                                         *)
(* The definition's failure policy is FAIL_FAST and an executor returns a  *)
(* TaskExecutionResult: run() raises on anything else.  An exception of    *)
(* the executor is one of the Outcomes, a failure of category internal.    *)
(* What an attempt names as external is one external run, the same in its  *)
(* result and in the reply to a cancellation.                              *)
(***************************************************************************)
EXTENDS MetadataStore, RetryPolicy

CONSTANTS
    Dependencies,    \* Dependencies[t]: the tasks that t depends on
    TriggerRule,     \* TriggerRule[t]
    Policy,          \* the RetryPolicy of every task
    Outcomes,        \* what the executor may return for an attempt
    ReusedChoices,   \* the reused_keys this run may start with
    ElapsedChoices   \* the ages a running task may have, in seconds

TriggerRules ==
    {"always", "all_success", "all_done", "any_success", "any_failed",
     "none_failed"}

\* The part of a TaskExecutionResult the runtime acts on: its failure, whether
\* the output has a portable form, whether it names an external run.
Results ==
    [failure: FailureEvidence \cup {NoFailure}, portable: BOOLEAN,
     external: BOOLEAN]

ASSUME DependenciesPrecede ==
    Dependencies \in [Tasks -> SUBSET Tasks]
    /\ \A t \in Tasks : \A d \in Dependencies[t] : d < t
ASSUME TriggerRuleType == TriggerRule \in [Tasks -> TriggerRules]
ASSUME PolicyType == Policy \in RetryPolicies
ASSUME OutcomesType == Outcomes \in SUBSET Results /\ Outcomes # {}
ASSUME ReusedChoicesType == ReusedChoices \in SUBSET (SUBSET Tasks)
ASSUME ElapsedChoicesType == ElapsedChoices \in SUBSET Nat

VARIABLES
    pc,              \* the next call of the run thread
    task,            \* the plan entry it is working on
    runView, taskView, attemptView,
    listed,          \* the statuses its last list_task_runs returned
    todo,            \* the listed tasks it still has to cancel
    result,          \* the executor's last TaskExecutionResult
    reused,          \* reused_keys
    active,          \* attempts in _active_requests
    execution        \* the executor: idle, executing or interrupted

cursor == <<task, reused>>
views == <<runView, taskView, attemptView>>
scan == <<listed, todo>>
executor == <<active, execution>>
runLoopVars ==
    <<pc, task, runView, taskView, attemptView, listed, todo, result, reused,
      active, execution>>

Steps ==
    {"create_run", "create_task", "reuse", "reuse_checkpoint", "start",
     "next_task", "skip", "ready", "run", "append", "starting", "running",
     "remember", "execute", "executing", "forget", "reload_attempt",
     "reload_task", "reload_run", "persist_refs", "append_ref",
     "cancel_task", "cancel_scan", "cancel_each", "cancel_run", "succeed_attempt",
     "succeed_task", "checkpoint", "recheck_run", "evaluate", "unknown_task",
     "unknown_run", "fail_task",
     "fail_fast", "fail_fast_skip", "fail_run", "assert_terminal",
     "succeed_run", "returned", "raised"}

InitRunLoop ==
    /\ pc = "create_run"
    /\ task = 1
    /\ runView = "PENDING" /\ taskView = "PENDING" /\ attemptView = "PENDING"
    /\ listed = [t \in Tasks |-> Absent]
    /\ todo = {}
    /\ result = [failure |-> NoFailure, portable |-> FALSE, external |-> FALSE]
    /\ reused \in ReusedChoices
    /\ active = {}
    /\ execution = "idle"

RunLoopTypeOK ==
    /\ pc \in Steps
    /\ task \in Tasks
    /\ runView \in WorkflowRunStatus \cup {Absent}
    /\ taskView \in TaskRunStatus \cup {Absent}
    /\ attemptView \in TaskAttemptStatus
    /\ listed \in [Tasks -> TaskRunStatus \cup {Absent}]
    /\ todo \subseteq Tasks
    /\ result \in Results
    /\ reused \subseteq Tasks
    /\ active \subseteq Tasks \X Nat
    /\ execution \in {"idle", "executing", "interrupted"}

-----------------------------------------------------------------------------
(* The updates of _transition_workflow, _transition_task and               *)
(* _transition_attempt on the thread's own copies.                         *)

AttemptNumber == Len(taskAttempts[task])

Raise == pc' = "raised" /\ UNCHANGED <<store, views>>

TransitionWorkflow(target, next) ==
    \/ /\ UpdateWorkflowRun(runView, target)
       /\ runView' = target
       /\ pc' = next
       /\ UNCHANGED <<taskView, attemptView>>
    \/ ~ WorkflowUpdateAccepted(runView, target) /\ Raise

TransitionTask(t, target, next) ==
    \/ /\ UpdateTaskRun(t, taskView, target)
       /\ taskView' = target
       /\ pc' = next
       /\ UNCHANGED <<runView, attemptView>>
    \/ ~ TaskUpdateAccepted(t, taskView, target) /\ Raise

TransitionAttempt(target, next) ==
    \/ /\ UpdateTaskAttempt(task, AttemptNumber, attemptView, target)
       /\ attemptView' = target
       /\ pc' = next
       /\ UNCHANGED <<runView, taskView>>
    \/ /\ ~ AttemptUpdateAccepted(task, AttemptNumber, attemptView, target)
       /\ Raise

OnTask(step, target, next) ==
    /\ pc = step
    /\ TransitionTask(task, target, next)
    /\ UNCHANGED <<cursor, scan, result, executor>>

OnAttempt(step, target, next) ==
    /\ pc = step
    /\ TransitionAttempt(target, next)
    /\ UNCHANGED <<cursor, scan, result, executor>>

OnWorkflow(step, target, next) ==
    /\ pc = step
    /\ TransitionWorkflow(target, next)
    /\ UNCHANGED <<cursor, scan, result, executor>>

-----------------------------------------------------------------------------
(* run / resume_run: the records of the run.                               *)

CreateRun ==
    /\ pc = "create_run"
    /\ CreateWorkflowRun
    /\ pc' = "create_task"
    /\ UNCHANGED <<cursor, views, scan, result, executor>>

NextToCreate(t) ==
    /\ task' = IF t = TaskCount THEN 1 ELSE t + 1
    /\ pc' = IF t = TaskCount THEN "start" ELSE "create_task"

CreateTask ==
    /\ pc = "create_task"
    /\ CreateTaskRun(task)
    /\ taskView' = "PENDING"
    /\ \/ task \in reused /\ pc' = "reuse" /\ UNCHANGED task
       \/ task \notin reused /\ NextToCreate(task)
    /\ UNCHANGED <<reused, runView, attemptView, scan, result, executor>>

ReuseTask == OnTask("reuse", "REUSED", "reuse_checkpoint")

\* The guard of the checkpoint update holds here and after SucceedTask: both
\* follow the thread's own update to a terminal status.
ReuseCheckpoint ==
    /\ pc = "reuse_checkpoint"
    /\ SetTaskOutputCheckpoint(task)
    /\ NextToCreate(task)
    /\ UNCHANGED <<reused, views, scan, result, executor>>

StartRun == OnWorkflow("start", "RUNNING", "next_task")

-----------------------------------------------------------------------------
(* Readiness of a plan entry.                                              *)

TriggerAllows(rule, upstream) ==
    CASE rule \in {"always", "all_done"} -> TRUE
      [] rule = "all_success" -> upstream \subseteq {"SUCCEEDED", "REUSED"}
      [] rule = "any_success" -> upstream \cap {"SUCCEEDED", "REUSED"} # {}
      [] rule = "any_failed" -> upstream \cap {"FAILED", "TIMED_OUT"} # {}
      [] rule = "none_failed" -> upstream \cap {"FAILED", "TIMED_OUT"} = {}

Upstream(t) == {taskRun[d] : d \in Dependencies[t]}

\* Mutant: the readiness decision ignores the trigger rule.
AfterReadinessAnyRule(t) == "ready"

AfterReadiness(t) ==
    IF TriggerAllows(TriggerRule[t], Upstream(t)) THEN "ready" ELSE "skip"

\* The end of one iteration over plan.tasks.
NextEntry ==
    \/ task = TaskCount /\ pc' = "assert_terminal" /\ UNCHANGED task
    \/ task < TaskCount /\ pc' = "next_task" /\ task' = task + 1

\* Mutant: a reused entry is skipped without moving to the next one.
SkipReusedTaskStays ==
    /\ pc = "next_task"
    /\ task \in reused
    /\ UNCHANGED <<store, runLoopVars>>

SkipReusedTask ==
    /\ pc = "next_task"
    /\ task \in reused
    /\ NextEntry
    /\ UNCHANGED <<store, views, scan, result, reused, executor>>

EvaluateReadiness ==
    /\ pc = "next_task"
    /\ task \notin reused
    /\ taskView' = taskRun[task]
    /\ \/ /\ ~ (Upstream(task) \subseteq TaskRunTerminal)
          /\ pc' = "raised"
       \/ /\ Upstream(task) \subseteq TaskRunTerminal
          /\ pc' = AfterReadiness(task)
    /\ UNCHANGED <<store, cursor, runView, attemptView, scan, result, executor>>

SkipTask ==
    /\ pc = "skip"
    /\ \/ /\ UpdateTaskRun(task, taskView, "SKIPPED")
          /\ taskView' = "SKIPPED"
          /\ NextEntry
          /\ UNCHANGED <<runView, attemptView>>
       \/ /\ ~ TaskUpdateAccepted(task, taskView, "SKIPPED")
          /\ Raise
          /\ UNCHANGED task
    /\ UNCHANGED <<reused, scan, result, executor>>

ReadyTask == OnTask("ready", "READY", "run")
RunTask == OnTask("run", "RUNNING", "append")

-----------------------------------------------------------------------------
(* One attempt.                                                            *)

\* next_task_attempt: the rules for a fresh attempt.
NextAttemptAllowed(t) ==
    /\ taskView \in {"READY", "RUNNING"}
    /\ taskAttempts[t] # << >> => LastAttempt(t) \in {"FAILED", "TIMED_OUT"}

\* list_task_attempts, next_task_attempt and append_task_attempt.  The run
\* thread alone appends, and the last attempt it lists is terminal or makes
\* it raise, so that the three are one step.
AppendAttempt ==
    /\ pc = "append"
    /\ \/ /\ NextAttemptAllowed(task)
          /\ AppendTaskAttempt(task)
          /\ attemptView' = "PENDING"
          /\ pc' = "starting"
          /\ UNCHANGED <<runView, taskView>>
       \/ ~ NextAttemptAllowed(task) /\ Raise
    /\ UNCHANGED <<cursor, scan, result, executor>>

StartAttempt == OnAttempt("starting", "STARTING", "running")
RunAttempt == OnAttempt("running", "RUNNING", "remember")

RememberActiveRequest ==
    /\ pc = "remember"
    /\ active' = active \cup {<<task, AttemptNumber>>}
    /\ pc' = "execute"
    /\ UNCHANGED <<store, cursor, views, scan, result, execution>>

BeginExecute ==
    /\ pc = "execute"
    /\ execution' = "executing"
    /\ pc' = "executing"
    /\ UNCHANGED <<store, cursor, views, scan, result, active>>

\* The executor's result is its own: an interrupted execution may have
\* finished first, and a handler that raises a cancellation of its own gives
\* a cancelled failure that nobody asked for.
EndExecute ==
    /\ pc = "executing"
    /\ result' \in Outcomes
    /\ execution' = "idle"
    /\ pc' = "forget"
    /\ UNCHANGED <<store, cursor, views, scan, active>>

ForgetActiveRequest ==
    /\ pc = "forget"
    /\ active' = active \ {<<task, AttemptNumber>>}
    /\ pc' = "reload_attempt"
    /\ UNCHANGED <<store, cursor, views, scan, result, execution>>

ReloadAttempt ==
    /\ pc = "reload_attempt"
    /\ attemptView' = LastAttempt(task)
    /\ pc' = "reload_task"
    /\ UNCHANGED <<store, cursor, runView, taskView, scan, result, executor>>

ReloadTask ==
    /\ pc = "reload_task"
    /\ taskView' = taskRun[task]
    /\ pc' = "reload_run"
    /\ UNCHANGED <<store, cursor, runView, attemptView, scan, result, executor>>

AfterReload ==
    CASE attemptView = "CANCELLED" ->
            IF taskView = "CANCELLED" THEN "cancel_scan" ELSE "cancel_task"
      [] attemptView # "CANCELLED" /\ result.failure = NoFailure -> "succeed_attempt"
      [] OTHER -> "evaluate"

ReloadRun ==
    /\ pc = "reload_run"
    /\ runView' = workflowRun
    /\ pc' = "persist_refs"
    /\ UNCHANGED <<store, cursor, taskView, attemptView, scan, result, executor>>

\* _append_external_run_refs: one listing of the references of the attempt,
\* then an append of what it lacked.
PersistExternalRunRefs ==
    /\ pc = "persist_refs"
    /\ pc' = IF result.external /\ ExternalRunRefAccepted(task, AttemptNumber)
             THEN "append_ref" ELSE AfterReload
    /\ UNCHANGED <<store, cursor, views, scan, result, executor>>

\* A cancelling thread that stored the same reference since makes it raise.
AppendExternalRef ==
    /\ pc = "append_ref"
    /\ \/ /\ AppendExternalRunRef(task, AttemptNumber)
          /\ pc' = AfterReload
          /\ UNCHANGED views
       \/ ~ ExternalRunRefAccepted(task, AttemptNumber) /\ Raise
    /\ UNCHANGED <<cursor, scan, result, executor>>

-----------------------------------------------------------------------------
(* The attempt came back CANCELLED, or a cancellation is pending.          *)

NotStarted == {"PENDING", "READY", "BLOCKED"}

CancelTaskRun == OnTask("cancel_task", "CANCELLED", "cancel_scan")

\* _cancel_not_started_tasks: one listing, then one update per task of it.
ListNotStarted ==
    /\ pc = "cancel_scan"
    /\ listed' = taskRun
    /\ todo' = {t \in Tasks : taskRun[t] \in NotStarted}
    /\ pc' = "cancel_each"
    /\ UNCHANGED <<store, cursor, views, result, executor>>

CancelNotStarted ==
    /\ pc = "cancel_each"
    /\ \E t \in todo :
          \/ /\ UpdateTaskRun(t, listed[t], "CANCELLED")
             /\ todo' = todo \ {t}
             /\ UNCHANGED <<pc, views, listed>>
          \/ /\ ~ TaskUpdateAccepted(t, listed[t], "CANCELLED")
             /\ Raise
             /\ UNCHANGED scan
    /\ UNCHANGED <<cursor, result, executor>>

NotStartedCancelled ==
    /\ pc = "cancel_each"
    /\ todo = {}
    /\ pc' = IF runView \in {"RUNNING", "CANCELLATION_REQUESTED"}
             THEN "cancel_run" ELSE "returned"
    /\ UNCHANGED <<store, cursor, views, scan, result, executor>>

CancelRun == OnWorkflow("cancel_run", "CANCELLED", "returned")

-----------------------------------------------------------------------------
(* The attempt succeeded.                                                  *)

SucceedAttempt == OnAttempt("succeed_attempt", "SUCCEEDED", "succeed_task")
SucceedTask == OnTask("succeed_task", "SUCCEEDED", "checkpoint")

\* _persist_output_checkpoint: an output without a portable form stays local.
PersistOutputCheckpoint ==
    /\ pc = "checkpoint"
    /\ \/ result.portable /\ SetTaskOutputCheckpoint(task)
       \/ ~ result.portable /\ UNCHANGED store
    /\ pc' = "recheck_run"
    /\ UNCHANGED <<cursor, views, scan, result, executor>>

RecheckRun ==
    /\ pc = "recheck_run"
    /\ runView' = workflowRun
    /\ \/ /\ workflowRun = "CANCELLATION_REQUESTED"
          /\ pc' = "cancel_scan"
          /\ UNCHANGED task
       \/ workflowRun # "CANCELLATION_REQUESTED" /\ NextEntry
    /\ UNCHANGED <<store, reused, taskView, attemptView, scan, result, executor>>

-----------------------------------------------------------------------------
(* The attempt failed.                                                     *)

\* The terminal status that stands for a failure, of an attempt, of a task
\* run and of the workflow run alike.
TerminalFor(failure) ==
    CASE failure.category = "timeout" -> "TIMED_OUT"
      [] failure.category = "cancelled" -> "CANCELLED"
      [] OTHER -> "FAILED"

AttemptStatusFor(decision, failure) ==
    CASE decision = "reconcile" -> "REQUIRES_RECONCILIATION"
      [] decision = "escalate" -> "UNKNOWN_OUTCOME"
      [] OTHER -> TerminalFor(failure)

AfterDecision(decision) ==
    CASE decision \in {"reconcile", "escalate"} -> "unknown_task"
      [] decision = "retry" -> "append"
      [] OTHER -> "fail_task"

EvaluateFailure ==
    /\ pc = "evaluate"
    /\ \E elapsed \in ElapsedChoices :
       \E evaluation \in
             Evaluations(Policy, result.failure, AttemptNumber, elapsed) :
          \/ evaluation.decision = "raises" /\ Raise
          \/ /\ evaluation.decision # "raises"
             /\ TransitionAttempt(
                   AttemptStatusFor(evaluation.decision, result.failure),
                   AfterDecision(evaluation.decision))
    /\ UNCHANGED <<cursor, scan, result, executor>>

UnknownTask == OnTask("unknown_task", "UNKNOWN_OUTCOME", "unknown_run")
UnknownRun == OnWorkflow("unknown_run", "UNKNOWN_OUTCOME", "returned")

FailTask == OnTask("fail_task", TerminalFor(result.failure), "fail_fast")

\* Mutant: fail-fast overlooks the entries that are still pending.
FailFastSkipsReady == {"READY"}

FailFastSkips == {"PENDING", "READY"}

\* _apply_fail_fast visits the entries after the failed one in plan order.
FailFast ==
    /\ pc = "fail_fast"
    /\ \/ /\ task = TaskCount
          /\ pc' = "fail_run"
          /\ UNCHANGED <<task, taskView>>
       \/ /\ task < TaskCount
          /\ task' = task + 1
          /\ taskView' = taskRun[task + 1]
          /\ pc' = IF taskRun[task + 1] \in FailFastSkips
                   THEN "fail_fast_skip" ELSE "fail_fast"
    /\ UNCHANGED <<store, reused, runView, attemptView, scan, result, executor>>

FailFastSkip == OnTask("fail_fast_skip", "SKIPPED", "fail_fast")

FailRun == OnWorkflow("fail_run", TerminalFor(result.failure), "returned")

-----------------------------------------------------------------------------
(* Every entry has been visited.                                           *)

AssertTerminalTaskRuns ==
    /\ pc = "assert_terminal"
    /\ pc' = IF \A t \in Tasks : taskRun[t] \in TaskRunTerminal \ {"FAILED", "TIMED_OUT"}
             THEN "succeed_run" ELSE "raised"
    /\ UNCHANGED <<store, cursor, views, scan, result, executor>>

SucceedRun == OnWorkflow("succeed_run", "SUCCEEDED", "returned")

RunThread ==
    \/ CreateRun \/ CreateTask \/ ReuseTask \/ ReuseCheckpoint \/ StartRun
    \/ SkipReusedTask \/ EvaluateReadiness \/ SkipTask \/ ReadyTask \/ RunTask
    \/ AppendAttempt \/ StartAttempt \/ RunAttempt \/ RememberActiveRequest
    \/ BeginExecute \/ EndExecute \/ ForgetActiveRequest
    \/ ReloadAttempt \/ ReloadTask \/ ReloadRun \/ PersistExternalRunRefs
    \/ AppendExternalRef \/ CancelTaskRun \/ ListNotStarted \/ CancelNotStarted
    \/ NotStartedCancelled \/ CancelRun
    \/ SucceedAttempt \/ SucceedTask \/ PersistOutputCheckpoint \/ RecheckRun
    \/ EvaluateFailure \/ UnknownTask \/ UnknownRun \/ FailTask
    \/ FailFast \/ FailFastSkip \/ FailRun
    \/ AssertTerminalTaskRuns \/ SucceedRun

=============================================================================
