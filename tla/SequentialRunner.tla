-------------------------- MODULE SequentialRunner --------------------------
(***************************************************************************)
(* The V1 sequential Runner over one durable store (application/runner.py, *)
(* adapters/metadata/sqlalchemy/store.py).  Process 1 calls run(); it may  *)
(* die, or only be slow, at any point.  Every other process calls          *)
(* resume_run() on the same run: recovery assessment, reconciliation with  *)
(* the external providers (application/recovery.py, reconciliation.py),    *)
(* then Runner.resume().  Nothing keeps two processes apart but the store: *)
(* saves are unconditional, while the sequence number of an event and the  *)
(* number of an attempt must be new.                                       *)
(*                                                                         *)
(* Every read transaction and every unit of work is one step.              *)
(***************************************************************************)
EXTENDS LegacyStates, Naturals, Sequences, FiniteSets

CONSTANTS
    TaskCount,       \* tasks in plan order
    Upstream,        \* direct upstream tasks of each task
    AttemptBound,    \* max_attempts of the retry policy of each task
    ExternalTasks,   \* tasks whose handler may start an external job
    Processes        \* 1 calls run(), the others resume_run()

Tasks == 1 .. TaskCount

ASSUME PlanIsNotEmpty == TaskCount \in Nat \ {0}

ASSUME ProcessesAreNumbered == Processes \subseteq Nat /\ 1 \in Processes

ASSUME PlanRespectsDependencies ==
    \A t \in Tasks : Upstream[t] \subseteq 1 .. t - 1

VARIABLES
    run, task,       \* statuses of the stored WorkflowRun and TaskRuns; the
                     \* run is absent until run() has stored all of them
    attempts,        \* of each task, the stored attempts in number order
    checkpoints,     \* tasks with a stored output checkpoint
    sequence,        \* sequence number of the last stored event
    endings,         \* how many events that end the run are stored
    closed,          \* the last stored event is one of them
    external,        \* the external job behind a task, as its provider sees it
    process          \* local variables of each call

durable == <<run, task, attempts, checkpoints, sequence, endings, closed>>
sequentialVars == <<durable, external, process>>

\* "RETRY" is a FAILED attempt that carries retry_eligible_at.
StoredAttempt == TaskAttemptStatus \cup {"RETRY"}

ExternalState == {"none", "running", "succeeded", "failed", "cancelled"}

\* The dispositions of a task in a ReconciliationReport; "none" when the
\* report does not mention it.
Disposition ==
    {"none", "CONFIRMED_SUCCEEDED", "CONFIRMED_FAILED", "CONFIRMED_CANCELLED",
     "STILL_RUNNING", "MANUAL_REQUIRED"}

ProcessStep ==
    {"idle", "prepare", "create", "begin",
     "scan_tasks", "scan", "load_run", "load_tasks", "load_events",
     "check", "apply", "preflight", "next", "attempts", "mark", "start", "load_siblings",
     "execute", "succeed", "retry", "again", "fail", "conclude",
     "returned", "raised", "dead"}

NoViewOf == [t \in Tasks |-> "PENDING"]
NoReport == [t \in Tasks |-> "none"]
NoSeen == [t \in Tasks |-> 0]

NewProcess ==
    [at |-> "idle", task |-> 1, num |-> 0, next |-> 1, waited |-> FALSE,
     outputs |-> {}, selected |-> {}, view |-> NoViewOf, report |-> NoReport,
     seen |-> NoSeen]

ProcessRecords ==
    [at: ProcessStep, task: 1 .. TaskCount + 1, num: Nat, next: Nat,
     waited: BOOLEAN, outputs: SUBSET Tasks, selected: SUBSET Tasks,
     view: [Tasks -> TaskRunStatus],
     report: [Tasks -> Disposition], seen: [Tasks -> Nat]]

Absent == "absent"

\* Process 1 has called run(); nothing is stored.
SequentialInit ==
    /\ run = Absent
    /\ task = [t \in Tasks |-> "PENDING"]
    /\ attempts = [t \in Tasks |-> << >>]
    /\ checkpoints = {} /\ sequence = 0 /\ endings = 0 /\ closed = FALSE
    /\ external = [t \in Tasks |-> "none"]
    /\ process = [p \in Processes |->
                    IF p = 1 THEN [NewProcess EXCEPT !.at = "prepare", !.next = 1]
                    ELSE NewProcess]

Gone == {"returned", "raised", "dead"}

At(p, step) == process[p].at = step

Becomes(p, locals) == process' = [process EXCEPT ![p] = locals]

Then(p, step) == [process[p] EXCEPT !.at = step]

\* Nothing of a call that is over is kept.
Over(p, step) == [NewProcess EXCEPT !.at = step]

Raises(p) == Becomes(p, Over(p, "raised")) /\ UNCHANGED <<durable, external>>

Reads(p, locals) == Becomes(p, locals) /\ UNCHANGED <<durable, external>>

-----------------------------------------------------------------------------
(* The store.                                                              *)

\* Mutant: any event is accepted.
EventAcceptedAlways(p) == TRUE

\* add_event: the sequence number of a stored event is larger than all
\* before; otherwise nothing of the unit of work is stored.
EventAccepted(p) == process[p].next > sequence

StoresEvents(p, count) == sequence' = process[p].next + count - 1

StoresEnding == endings' = endings + 1 /\ closed' = TRUE

\* The same unit of work, with count events, in process p that goes on with
\* the given local variables.
Commits(p, count, locals) ==
    /\ EventAccepted(p)
    /\ StoresEvents(p, count)
    /\ Becomes(p, [locals EXCEPT !.next = process[p].next + count])
    /\ closed' = FALSE
    /\ UNCHANGED external

Fenced(p) == ~ EventAccepted(p) /\ Raises(p)

SavesTask(t, status) == task' = [task EXCEPT ![t] = status]

SavesAttempt(t, n, status) == attempts' = [attempts EXCEPT ![t][n] = status]

\* add_task_attempt: the numbers of the attempts of a task differ.
AttemptIsNew(t, n) == n > Len(attempts[t])

AddsAttempt(t, n) ==
    attempts' = [attempts EXCEPT ![t] =
                   IF n > Len(@) THEN Append(@, "RUNNING") ELSE [@ EXCEPT ![n] = "RUNNING"]]

\* pending_retry_attempt.
WaitsForRetry(t) ==
    attempts[t] # << >> /\ attempts[t][Len(attempts[t])] = "RETRY"

RunningAttempts(t) == {n \in 1 .. Len(attempts[t]) : attempts[t][n] = "RUNNING"}

\* The RUNNING attempt that a report names; 0 when there is none.
RunningAttempt(t) == IF RunningAttempts(t) = {} THEN 0 ELSE Len(attempts[t])

-----------------------------------------------------------------------------
(* run(), up to its first task.                                            *)

\* The definition, the parameters, the handlers and the timeouts of all tasks
\* are checked before anything is stored.
Prepare(p) ==
    /\ At(p, "prepare")
    /\ \/ Reads(p, [Then(p, "create") EXCEPT !.selected = Tasks])
       \/ Raises(p)

\* One unit of work stores the run and its tasks, all PENDING, and no event.
CreateRun(p) ==
    /\ At(p, "create")
    /\ run' = "PENDING"
    /\ Becomes(p, Then(p, "begin"))
    /\ UNCHANGED <<task, attempts, checkpoints, sequence, endings, closed, external>>

BeginRun(p) ==
    /\ At(p, "begin")
    /\ Commits(p, 1, Then(p, "next"))
    /\ run' = "RUNNING"
    /\ UNCHANGED <<task, attempts, checkpoints, endings>>

-----------------------------------------------------------------------------
(* One task after the other: run() and, from "preflight" on, resume().     *)

Current(p) == process[p].task

NextTask(p) ==
    [Then(p, "next") EXCEPT !.task = @ + 1,
                            !.outputs = @ \cup {Current(p)},
                            !.view = NoViewOf]

\* run() compares its task with the stored ones and goes on with its copy.
RunTakesTask(p) ==
    /\ At(p, "next") /\ p = 1 /\ Current(p) \in Tasks
    /\ LET t == Current(p) IN
          IF /\ task[t] = "PENDING"
             /\ \A u \in Upstream[t] : task[u] = "SUCCEEDED"
          THEN Reads(p, [Then(p, "mark") EXCEPT !.num = 1])
          ELSE Raises(p)

\* The tasks that resume() expects to execute: their handlers and timeouts are
\* checked, and it keeps no other handler.
Executable ==
    {t \in Tasks : \/ task[t] \in {"PENDING", "READY"}
                   \/ task[t] = "RUNNING" /\ WaitsForRetry(t)}

Preflight(p) ==
    /\ At(p, "preflight")
    /\ \/ Reads(p, [Then(p, "next") EXCEPT !.selected = Executable])
       \/ Executable # {} /\ Raises(p)

\* Mutant: the loop does not go past a task that has succeeded.
SkipSucceededStays(p) == process[p]

SkipSucceeded(p) == [process[p] EXCEPT !.task = @ + 1]

ResumeTakesTask(p) ==
    /\ At(p, "next") /\ p # 1 /\ Current(p) \in Tasks
    /\ Reads(p, IF task[Current(p)] = "SUCCEEDED" THEN SkipSucceeded(p)
                ELSE [Then(p, "attempts") EXCEPT !.view = task])

\* _dependency_outputs_for_resume: from this call, or from a checkpoint.
OutputsAtHand(p) ==
    \A u \in Upstream[Current(p)] :
        \/ u \in process[p].outputs
        \/ process[p].view[u] = "SUCCEEDED" /\ u \in checkpoints

NextAttemptNumber(t) == Len(attempts[t]) + 1

\* A retry that is not due, a task that is neither waiting nor undispatched,
\* an upstream task that has not succeeded or whose output is lost: resume()
\* raises.  A retry scheduled since the assessment may not be due yet.
ResumeChecksTask(p) ==
    /\ At(p, "attempts")
    /\ LET t == Current(p)
           status == process[p].view[t]
           waits == status = "RUNNING" /\ WaitsForRetry(t)
           Prepared == [process[p] EXCEPT !.waited = waits, !.num = NextAttemptNumber(t)]
       IN \/ /\ status \in {"PENDING", "READY"} \/ waits
             /\ ~ waits => \A u \in Upstream[t] : process[p].view[u] = "SUCCEEDED"
             /\ OutputsAtHand(p)
             /\ Reads(p, [Prepared EXCEPT
                            !.at = IF status = "PENDING" THEN "mark" ELSE "start"])
          \/ /\ \/ waits
                \/ status \notin {"PENDING", "READY"}
                \/ \E u \in Upstream[t] : process[p].view[u] # "SUCCEEDED"
                \/ ~ OutputsAtHand(p)
             /\ Raises(p)

MarkReady(p) ==
    /\ At(p, "mark")
    /\ \/ /\ Commits(p, 1, Then(p, "start"))
          /\ SavesTask(Current(p), "READY")
          /\ UNCHANGED <<run, attempts, checkpoints, endings>>
       \/ Fenced(p)

StartTask(p) ==
    /\ At(p, "start")
    /\ LET t == Current(p)
           n == process[p].num IN
          \/ /\ AttemptIsNew(t, n)
             /\ Commits(p, 1, Then(p, "load_siblings"))
             /\ SavesTask(t, "RUNNING")
             /\ AddsAttempt(t, n)
             /\ UNCHANGED <<run, checkpoints, endings>>
          \/ (~ AttemptIsNew(t, n) \/ ~ EventAccepted(p)) /\ Raises(p)

\* The task runs that a later failure decides over.  run() decides over its
\* own copies; where they differ from the stored ones, an event was stored
\* since and its unit of work is refused.
LoadSiblings(p) ==
    /\ At(p, "load_siblings")
    /\ Reads(p, [Then(p, "execute") EXCEPT !.view = task])

\* The handler ends.  It may have started an external job that is on record.
ExecuteTask(p) ==
    /\ At(p, "execute")
    /\ \/ Reads(p, Then(p, "succeed"))
       \/ process[p].num < AttemptBound /\ Reads(p, Then(p, "retry"))
       \/ Reads(p, Then(p, "fail"))

\* The output is checkpointed if it is portable.
SucceedTask(p) ==
    /\ At(p, "succeed")
    /\ LET t == Current(p) IN
          \/ /\ Commits(p, 1, NextTask(p))
             /\ SavesAttempt(t, process[p].num, "SUCCEEDED")
             /\ SavesTask(t, "SUCCEEDED")
             /\ checkpoints' \in {checkpoints, checkpoints \cup {t}}
             /\ UNCHANGED <<run, endings>>
          \/ Fenced(p)

ScheduleRetry(p) ==
    /\ At(p, "retry")
    /\ \/ /\ Commits(p, 1, Then(p, "again"))
          /\ SavesAttempt(Current(p), process[p].num, "RETRY")
          /\ UNCHANGED <<run, task, checkpoints, endings>>
       \/ Fenced(p)

\* After the backoff: the new attempt is stored without an event.
TryAgain(p) ==
    /\ At(p, "again")
    /\ LET t == Current(p)
           n == process[p].num + 1 IN
          \/ /\ AttemptIsNew(t, n)
             /\ AddsAttempt(t, n)
             /\ Becomes(p, [Then(p, "execute") EXCEPT !.num = n])
             /\ UNCHANGED <<run, task, checkpoints, sequence, endings, closed, external>>
          \/ ~ AttemptIsNew(t, n) /\ Raises(p)

\* Mutant: only a READY task is skipped.
UndispatchedReady(view) == {t \in Tasks : view[t] = "READY"}

Undispatched(view) == {t \in Tasks : view[t] \in {"PENDING", "READY"}}

\* _persist_terminal_failure, after which the error is raised again.
FailTask(p) ==
    /\ At(p, "fail")
    /\ LET t == Current(p)
           skipped == Undispatched(process[p].view) \ {t} IN
          \/ /\ EventAccepted(p)
             /\ StoresEvents(p, 2 + Cardinality(skipped))
             /\ SavesAttempt(t, process[p].num, "FAILED")
             /\ task' = [u \in Tasks |-> IF u = t THEN "FAILED"
                                         ELSE IF u \in skipped THEN "SKIPPED"
                                         ELSE task[u]]
             /\ run' = "FAILED" /\ StoresEnding
             /\ Becomes(p, Over(p, "raised"))
             /\ UNCHANGED <<checkpoints, external>>
          \/ Fenced(p)

\* The plan is exhausted; resume() looks at the stored tasks once more.
PlanExhausted(p) ==
    /\ At(p, "next") /\ Current(p) \notin Tasks
    /\ IF p = 1 \/ \A t \in Tasks : task[t] = "SUCCEEDED"
       THEN Reads(p, Then(p, "conclude"))
       ELSE Raises(p)

SucceedRun(p) ==
    /\ At(p, "conclude")
    /\ \/ /\ EventAccepted(p)
          /\ StoresEvents(p, 1)
          /\ run' = "SUCCEEDED" /\ StoresEnding
          /\ Becomes(p, Over(p, "returned"))
          /\ UNCHANGED <<task, attempts, checkpoints, external>>
       \/ Fenced(p)

-----------------------------------------------------------------------------
(* resume_run(): assessment and reconciliation only read, then resume()    *)
(* applies the report.                                                     *)

\* A run looks stale when no evidence is recent; a handler that runs long
\* leaves none either, so that any run that is not over may look stale.
AssessRun(p) ==
    /\ At(p, "idle") /\ p # 1
    /\ IF run \in WorkflowTerminal \cup {Absent} THEN Raises(p) ELSE Reads(p, Then(p, "scan_tasks"))

ScanTasks(p) ==
    /\ At(p, "scan_tasks")
    /\ Reads(p, [Then(p, "scan") EXCEPT !.view = task])

\* What the providers say of the reference of a task.
Confirmed(state) ==
    CASE state = "running" -> "STILL_RUNNING"
      [] state = "succeeded" -> "CONFIRMED_SUCCEEDED"
      [] state = "failed" -> "CONFIRMED_FAILED"
      [] state = "cancelled" -> "CONFIRMED_CANCELLED"

\* reconcile() for one task, whose status was read before.  A provider may
\* not answer; work without a reference cannot be judged.
DispositionOf(t, status) ==
    IF status \in TaskTerminal THEN {"none"}
    ELSE IF external[t] # "none" THEN {Confirmed(external[t]), "MANUAL_REQUIRED"}
    ELSE IF status # "RUNNING" THEN {"none"}
    ELSE IF RunningAttempts(t) = {} /\ WaitsForRetry(t) THEN {"none"}
    ELSE {"MANUAL_REQUIRED"}

ScanTask(p) ==
    /\ At(p, "scan")
    /\ LET t == Current(p) IN
          \E disposition \in DispositionOf(t, process[p].view[t]) :
             Reads(p, [process[p] EXCEPT
                         !.report[t] = disposition,
                         !.seen[t] = IF disposition = "none" THEN 0 ELSE RunningAttempt(t),
                         !.task = IF t = TaskCount THEN 1 ELSE t + 1,
                         !.at = IF t = TaskCount THEN "load_run" ELSE "scan"])

Reported(p, disposition) == {t \in Tasks : process[p].report[t] = disposition}

\* resume() rejects a run that is over and a report that is not conclusive.
LoadRun(p) ==
    /\ At(p, "load_run")
    /\ IF run = "RUNNING" /\ Reported(p, "MANUAL_REQUIRED") = {}
          /\ Reported(p, "STILL_RUNNING") = {}
       THEN Reads(p, Then(p, "load_tasks"))
       ELSE Raises(p)

LoadTasks(p) ==
    /\ At(p, "load_tasks")
    /\ Reads(p, [Then(p, "load_events") EXCEPT !.view = task])

LoadEvents(p) ==
    /\ At(p, "load_events")
    /\ Reads(p, [Then(p, IF Reported(p, "none") = Tasks THEN "preflight" ELSE "check")
                   EXCEPT !.next = sequence + 1])

\* Each task of the report was RUNNING, and its RUNNING attempt is still the
\* one that the report names.
CheckReport(p) ==
    /\ At(p, "check")
    /\ IF /\ Reported(p, "CONFIRMED_FAILED") = {} \/ Reported(p, "CONFIRMED_CANCELLED") = {}
          /\ \A t \in Tasks \ Reported(p, "none") :
                /\ process[p].view[t] = "RUNNING"
                /\ RunningAttempt(t) # 0 /\ RunningAttempt(t) = process[p].seen[t]
       THEN Reads(p, Then(p, "apply"))
       ELSE Raises(p)

\* _apply_resume_reconciliation: the attempts and tasks of the report, and,
\* after a failure or a cancellation, the rest of the run.
ApplyReport(p) ==
    /\ At(p, "apply")
    /\ LET succeeded == Reported(p, "CONFIRMED_SUCCEEDED")
           lost      == Reported(p, "CONFIRMED_FAILED")
           cancelled == Reported(p, "CONFIRMED_CANCELLED")
           ends      == lost \cup cancelled # {}
           rest      == IF ends THEN Undispatched(process[p].view) ELSE {}
           \* A cancelled task has no event of its own.
           count     == Cardinality(succeeded \cup lost)
                        + IF lost # {} THEN Cardinality(rest) + 1
                          ELSE IF ends THEN 1 ELSE 0
           Outcome(t) == IF t \in succeeded THEN "SUCCEEDED"
                         ELSE IF t \in lost THEN "FAILED" ELSE "CANCELLED"
       IN \/ /\ EventAccepted(p)
             /\ StoresEvents(p, count)
             /\ attempts' = [t \in Tasks |->
                   IF t \in succeeded \cup lost \cup cancelled
                   THEN [attempts[t] EXCEPT ![Len(attempts[t])] = Outcome(t)]
                   ELSE attempts[t]]
             /\ task' = [t \in Tasks |->
                   IF t \in succeeded \cup lost \cup cancelled THEN Outcome(t)
                   ELSE IF t \in rest THEN (IF lost # {} THEN "SKIPPED" ELSE "CANCELLED")
                   ELSE task[t]]
             /\ IF ends
                THEN /\ run' = (IF lost # {} THEN "FAILED" ELSE "CANCELLED")
                     /\ StoresEnding
                     /\ Becomes(p, Over(p, "returned"))
                ELSE /\ Becomes(p, [Then(p, "preflight") EXCEPT
                                      !.next = process[p].next + count, !.report = NoReport, !.seen = NoSeen])
                     /\ closed' = FALSE
                     /\ UNCHANGED <<run, endings>>
             /\ UNCHANGED <<checkpoints, external>>
          \/ Fenced(p)

-----------------------------------------------------------------------------

\* The application records an external job while a handler runs, and the job
\* ends by itself.
ExternalJobStarts(t) ==
    /\ external[t] = "none" /\ t \in ExternalTasks
    /\ \E p \in Processes : At(p, "execute") /\ Current(p) = t
    /\ external' = [external EXCEPT ![t] = "running"]
    /\ UNCHANGED <<durable, process>>

ExternalJobEnds(t) ==
    /\ external[t] = "running"
    /\ \E state \in {"succeeded", "failed", "cancelled"} :
          external' = [external EXCEPT ![t] = state]
    /\ UNCHANGED <<durable, process>>

Crash(p) ==
    /\ process[p].at \notin Gone
    /\ Becomes(p, Over(p, "dead"))
    /\ UNCHANGED <<durable, external>>

Step(p) ==
    \/ Prepare(p) \/ CreateRun(p) \/ BeginRun(p) \/ Preflight(p)
    \/ RunTakesTask(p) \/ ResumeTakesTask(p) \/ ResumeChecksTask(p)
    \/ MarkReady(p) \/ StartTask(p) \/ LoadSiblings(p) \/ ExecuteTask(p)
    \/ SucceedTask(p) \/ ScheduleRetry(p) \/ TryAgain(p) \/ FailTask(p)
    \/ PlanExhausted(p) \/ SucceedRun(p)
    \/ ScanTasks(p) \/ ScanTask(p) \/ LoadRun(p) \/ LoadTasks(p)
    \/ LoadEvents(p) \/ CheckReport(p) \/ ApplyReport(p)

AllGone ==
    /\ \A p \in Processes : process[p].at \in Gone
    /\ UNCHANGED sequentialVars

SequentialNext ==
    \/ \E p \in Processes : AssessRun(p) \/ Step(p) \/ Crash(p)
    \/ \E t \in Tasks : ExternalJobStarts(t) \/ ExternalJobEnds(t)
    \/ AllGone

\* A process that does not die goes on; every handler ends.
SequentialFairness == \A p \in Processes : WF_sequentialVars(Step(p))

SequentialSpec == SequentialInit /\ [][SequentialNext]_sequentialVars
SequentialFairSpec == SequentialSpec /\ SequentialFairness

-----------------------------------------------------------------------------

\* Every variable keeps to the entities of domain/runtime.py and to the local
\* variables of run() and resume().
SequentialTypeOK ==
    /\ run \in WorkflowRunStatus \cup {Absent}
    /\ task \in [Tasks -> TaskRunStatus]
    /\ attempts \in [Tasks -> Seq(StoredAttempt)]
    /\ checkpoints \subseteq Tasks /\ sequence \in Nat /\ endings \in Nat
    /\ closed \in BOOLEAN
    /\ external \in [Tasks -> ExternalState]
    /\ process \in [Processes -> ProcessRecords]

\* However many processes believe the run to be theirs, no task is executed
\* by two of them at once.
OneExecutionPerTask ==
    \A p, q \in Processes :
        /\ At(p, "execute") /\ At(q, "execute")
        /\ Current(p) = Current(q)
        => p = q

\* What resume() found executable before its loop is what it executes, though
\* it looks at the stored tasks again for each of them: no start is stored of a
\* task for which it has no handler (handlers[task_id], read after the start).
ExecutedTasksAreSelected ==
    \A p \in Processes :
        process[p].at \in {"load_siblings", "execute", "succeed", "retry", "again", "fail"}
        => Current(p) \in process[p].selected

\* A process executes a task only if it alone does and had chosen to, although
\* nothing but the stored statuses keeps two resumes apart
\* (application/runner.py resume).
ExecutionIsClaimed == OneExecutionPerTask /\ ExecutedTasksAreSelected

\* Every call returns, raises or dies with its process.
ResumeEnds ==
    \A p \in Processes : process[p].at # "idle" ~> process[p].at \in Gone

=============================================================================
