--------------------------- MODULE MetadataStore ---------------------------
(***************************************************************************)
(* The V2 metadata store as one workflow run sees it                       *)
(* (persistence/memory.py; the SQLite and PostgreSQL stores follow the     *)
(* same contract).  Every operator below is one critical section of the    *)
(* store's lock.  An update is a compare-and-set on the status: it needs   *)
(* the state machine to accept the caller's expected status -> target, and *)
(* the store to still hold the expected status; otherwise the caller gets  *)
(* an exception and the store does not change.                             *)
(***************************************************************************)
EXTENDS Naturals, Sequences, RunStates

CONSTANT TaskCount   \* tasks of the execution plan, numbered in plan order

ASSUME TaskCountIsPositive == TaskCount \in Nat \ {0}

Tasks == 1 .. TaskCount

Absent == "absent"   \* a record the store does not hold yet

VARIABLES
    workflowRun,     \* status of the workflow run
    taskRun,         \* status of the task run of each task
    taskAttempts,    \* statuses of the attempts of each task, by number
    externalRefs,    \* <<task, attempt number>> that name an external run
    checkpoints      \* tasks with a persisted output

store == <<workflowRun, taskRun, taskAttempts, externalRefs, checkpoints>>

LastAttempt(t) == taskAttempts[t][Len(taskAttempts[t])]

InitStore ==
    /\ workflowRun = Absent
    /\ taskRun = [t \in Tasks |-> Absent]
    /\ taskAttempts = [t \in Tasks |-> << >>]
    /\ externalRefs = {}
    /\ checkpoints = {}

StoreTypeOK ==
    /\ workflowRun \in WorkflowRunStatus \cup {Absent}
    /\ taskRun \in [Tasks -> TaskRunStatus \cup {Absent}]
    /\ taskAttempts \in [Tasks -> Seq(TaskAttemptStatus)]
    /\ externalRefs \subseteq Tasks \X Nat
    /\ checkpoints \subseteq Tasks

-----------------------------------------------------------------------------

CreateWorkflowRun ==
    /\ workflowRun = Absent
    /\ workflowRun' = "PENDING"
    /\ UNCHANGED <<taskRun, taskAttempts, externalRefs, checkpoints>>

CreateTaskRun(t) ==
    /\ workflowRun # Absent
    /\ taskRun[t] = Absent
    /\ taskRun' = [taskRun EXCEPT ![t] = "PENDING"]
    /\ UNCHANGED <<workflowRun, taskAttempts, externalRefs, checkpoints>>

\* append_task_attempt numbers attempts from one without gaps: the sequence.
AppendTaskAttempt(t) ==
    /\ taskRun[t] # Absent
    /\ taskAttempts' = [taskAttempts EXCEPT ![t] = Append(@, "PENDING")]
    /\ UNCHANGED <<workflowRun, taskRun, externalRefs, checkpoints>>

\* Mutant: the store forgets to compare the expected status.
WorkflowUpdateAcceptedAnyStatus(expected, target) ==
    target \in WorkflowTransitions[expected]

WorkflowUpdateAccepted(expected, target) ==
    /\ expected # Absent
    /\ target \in WorkflowTransitions[expected]
    /\ workflowRun = expected

UpdateWorkflowRun(expected, target) ==
    /\ WorkflowUpdateAccepted(expected, target)
    /\ workflowRun' = target
    /\ UNCHANGED <<taskRun, taskAttempts, externalRefs, checkpoints>>

\* Mutant: the store forgets to compare the expected status.
TaskUpdateAcceptedAnyStatus(t, expected, target) ==
    target \in TaskRunTransitions[expected]

TaskUpdateAccepted(t, expected, target) ==
    /\ expected # Absent
    /\ target \in TaskRunTransitions[expected]
    /\ taskRun[t] = expected

UpdateTaskRun(t, expected, target) ==
    /\ TaskUpdateAccepted(t, expected, target)
    /\ taskRun' = [taskRun EXCEPT ![t] = target]
    /\ UNCHANGED <<workflowRun, taskAttempts, externalRefs, checkpoints>>

\* Mutant: the store forgets to compare the expected status.
AttemptUpdateAcceptedAnyStatus(t, n, expected, target) ==
    target \in TaskAttemptTransitions[expected]

AttemptUpdateAccepted(t, n, expected, target) ==
    /\ target \in TaskAttemptTransitions[expected]
    /\ n \in DOMAIN taskAttempts[t]
    /\ taskAttempts[t][n] = expected

UpdateTaskAttempt(t, n, expected, target) ==
    /\ AttemptUpdateAccepted(t, n, expected, target)
    /\ taskAttempts' = [taskAttempts EXCEPT ![t][n] = target]
    /\ UNCHANGED <<workflowRun, taskRun, externalRefs, checkpoints>>

\* append_external_run_ref refuses a key it holds and asks for no status: the
\* reference of an attempt that ended long ago is stored all the same.
ExternalRunRefAccepted(t, n) == <<t, n>> \notin externalRefs

AppendExternalRunRef(t, n) ==
    /\ ExternalRunRefAccepted(t, n)
    /\ externalRefs' = externalRefs \cup {<<t, n>>}
    /\ UNCHANGED <<workflowRun, taskRun, taskAttempts, checkpoints>>

SetTaskOutputCheckpoint(t) ==
    /\ taskRun[t] \in {"SUCCEEDED", "REUSED"}
    /\ checkpoints' = checkpoints \cup {t}
    /\ UNCHANGED <<workflowRun, taskRun, taskAttempts, externalRefs>>

-----------------------------------------------------------------------------
(* What every user of the store relies on, on the records and on a step.   *)

\* A status keeps to its value or moves along the transition table; no record
\* and no attempt disappears.
WorkflowMovesLegally ==
    \/ workflowRun' = workflowRun
    \/ workflowRun = Absent /\ workflowRun' = "PENDING"
    \/ workflowRun' \in WorkflowTransitions[workflowRun]

TaskMovesLegally(t) ==
    \/ taskRun'[t] = taskRun[t]
    \/ taskRun[t] = Absent /\ taskRun'[t] = "PENDING"
    \/ taskRun'[t] \in TaskRunTransitions[taskRun[t]]

AttemptsMoveLegally(t) ==
    /\ Len(taskAttempts'[t]) \in {Len(taskAttempts[t]), Len(taskAttempts[t]) + 1}
    /\ \A n \in 1 .. Len(taskAttempts[t]) :
          \/ taskAttempts'[t][n] = taskAttempts[t][n]
          \/ taskAttempts'[t][n] \in TaskAttemptTransitions[taskAttempts[t][n]]

\* An attempt that another one follows ended in a known failure: no attempt
\* is made after a success, a cancellation or an outcome still unknown
\* (next_task_attempt and the retry decision).
AttemptSequence ==
    \A t \in Tasks : \A n \in 1 .. Len(taskAttempts[t]) :
        n < Len(taskAttempts[t]) => taskAttempts[t][n] \in {"FAILED", "TIMED_OUT"}

\* Only the output of a task that succeeded, here or in the parent run, is
\* ever checkpointed: resume_run takes a checkpoint for a result.
CheckpointOnlySucceeded ==
    \A t \in checkpoints : taskRun[t] \in {"SUCCEEDED", "REUSED"}

=============================================================================
