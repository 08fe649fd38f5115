---------------------------- MODULE RunRecovery ----------------------------
(***************************************************************************)
(* The process of WorkflowRuntime may die between any two store updates;   *)
(* what it had stored stays.  ReconciliationService.reconcile then reads   *)
(* the stored records and the external providers and repairs the run       *)
(* (runtime/reconciliation.py).  Each member of Reconcilers is a thread    *)
(* that makes one reconcile_run call; it may die as well.  Of its report   *)
(* the dispositions of the tasks are kept, not the read-only assessment of *)
(* RecoveryInspector that comes first.                                     *)
(***************************************************************************)
EXTENDS WorkflowRuntime

CONSTANTS
    Reconcilers,     \* threads that reconcile the run after the crash
    Observations     \* what an external run verifier may answer

ExternalRunStatus ==
    {"running", "succeeded", "failed", "cancelled", "not_found", "unknown"}

ASSUME ObservationsType == Observations \in SUBSET ExternalRunStatus

ReconciliationDisposition ==
    {"NO_ACTION", "RESOLVED_SUCCEEDED", "RESOLVED_FAILED", "RESOLVED_CANCELLED",
     "RESOLVED_TIMED_OUT", "STILL_RUNNING", "MANUAL_REQUIRED"}

VARIABLES
    process,         \* "alive", or "dead" after the crash
    recon            \* local variables of each reconcile call

recoveryVars == <<vars, process, recon>>

ReconSteps ==
    {"idle", "read_run", "list", "next_task", "read_task", "read_attempts",
     "observe", "repair_task", "resolve_attempt", "reread_task",
     "resolve_task", "reread_run", "list_again", "settle_run",
     "done", "raised", "dead"}

NoRecon ==
    [at |-> "idle", todo |-> {}, task |-> 1, num |-> 0, run |-> "PENDING",
     taskRun |-> "PENDING", attempt |-> "PENDING", target |-> "FAILED",
     report |-> {}]

Recons ==
    [at: ReconSteps, todo: SUBSET Tasks, task: Tasks, num: Nat,
     run: WorkflowRunStatus \cup {Absent},
     taskRun: TaskRunStatus \cup {Absent}, attempt: TaskAttemptStatus,
     target: WorkflowRunStatus,
     report: SUBSET (Tasks \X ReconciliationDisposition)]

RecoveryInit ==
    /\ Init
    /\ process = "alive"
    /\ recon = [r \in Reconcilers |-> NoRecon]

-----------------------------------------------------------------------------

AliveStep == process = "alive" /\ Next /\ UNCHANGED <<process, recon>>

\* The process dies: run() and the cancel() calls are gone for good.
Crash ==
    /\ process = "alive"
    /\ workflowRun # Absent
    /\ process' = "dead"
    /\ UNCHANGED <<vars, recon>>

\* A reconciler dies in the middle of its call.
ReconcilerDies(r) ==
    /\ recon[r].at \notin {"idle", "done", "raised", "dead"}
    /\ recon' = [recon EXCEPT ![r] = [NoRecon EXCEPT !.at = "dead"]]
    /\ UNCHANGED <<vars, process>>

-----------------------------------------------------------------------------

Doing(r, step) == recon[r].at = step

Records(r, locals) ==
    /\ recon' = [recon EXCEPT ![r] = locals]
    /\ UNCHANGED <<runLoopVars, call, process>>

Reads(r, locals) == Records(r, locals) /\ UNCHANGED store

Then(r, step) == [recon[r] EXCEPT !.at = step]

ReconRaises(r) == Reads(r, [NoRecon EXCEPT !.at = "raised"])

\* The local variables of a call that returns its report.
Finished(r) == [NoRecon EXCEPT !.at = "done", !.report = recon[r].report]

ReconDone(r) == Reads(r, Finished(r))

\* The report of the task is filled in, and the next one is taken up.
Reported(r, disposition) ==
    [Then(r, "next_task") EXCEPT !.report = @ \cup {<<recon[r].task, disposition>>}]

\* ReconciliationReport.fully_resolved.
FullyResolved(r) ==
    \A item \in recon[r].report : item[2] \notin {"STILL_RUNNING", "MANUAL_REQUIRED"}

ReconTransitionsTask(r, target, locals) ==
    \/ /\ UpdateTaskRun(recon[r].task, recon[r].taskRun, target)
       /\ Records(r, locals)
    \/ /\ ~ TaskUpdateAccepted(recon[r].task, recon[r].taskRun, target)
       /\ ReconRaises(r)

BeginReconcile(r) ==
    /\ Doing(r, "idle")
    /\ process = "dead" \/ Ended
    /\ Reads(r, Then(r, "read_run"))

ReadRunBefore(r) ==
    /\ Doing(r, "read_run")
    /\ \/ workflowRun \in WorkflowTerminal /\ ReconDone(r)
       \/ workflowRun \notin WorkflowTerminal /\ Reads(r, Then(r, "list"))

ListOpenTasks(r) ==
    /\ Doing(r, "list")
    /\ Reads(r, [Then(r, "next_task") EXCEPT
                   !.todo = {t \in Tasks :
                               taskRun[t] \notin TaskRunTerminal \cup {Absent}}])

NextOpenTask(r) ==
    /\ Doing(r, "next_task")
    /\ \E t \in recon[r].todo :
          Reads(r, [Then(r, "read_task") EXCEPT !.task = t, !.todo = @ \ {t}])

ReadOpenTask(r) ==
    /\ Doing(r, "read_task")
    /\ Reads(r, [Then(r, "read_attempts") EXCEPT
                   !.taskRun = taskRun[recon[r].task]])

ReadLatestAttempt(r) ==
    /\ Doing(r, "read_attempts")
    /\ LET attempts == taskAttempts[recon[r].task]
           latest   == attempts[Len(attempts)]
           read     == [recon[r] EXCEPT !.num = Len(attempts), !.attempt = latest]
       IN \/ attempts = << >> /\ Reads(r, Reported(r, "NO_ACTION"))
          \/ /\ attempts # << >>
             /\ latest \in TaskAttemptTerminal
             /\ Reads(r, [read EXCEPT !.at = "repair_task"])
          \/ /\ attempts # << >>
             /\ latest \notin TaskAttemptTerminal
             /\ Reads(r, [read EXCEPT !.at = "observe"])

\* The mapping of _repair_task_from_terminal_attempt.
RepairedStatus(attempt) == attempt

ResolvedAs(status) ==
    CASE status = "SUCCEEDED" -> "RESOLVED_SUCCEEDED"
      [] status = "FAILED" -> "RESOLVED_FAILED"
      [] status = "CANCELLED" -> "RESOLVED_CANCELLED"
      [] status = "TIMED_OUT" -> "RESOLVED_TIMED_OUT"

RepairTask(r) ==
    /\ Doing(r, "repair_task")
    /\ ReconTransitionsTask(r, RepairedStatus(recon[r].attempt),
                            Reported(r, ResolvedAs(recon[r].attempt)))

\* The status that a conclusive observation resolves the attempt to.
Resolution(observed) ==
    CASE observed = "succeeded" -> "SUCCEEDED"
      [] observed = "failed" -> "FAILED"
      [] observed = "cancelled" -> "CANCELLED"

\* Mutant: reconcile polls until the provider is conclusive.
UnresolvedPolls(r, observed) == [Reported(r, "STILL_RUNNING") EXCEPT !.at = "read_task"]

\* Mutant: an execution the provider does not know is taken as dealt with.
UnresolvedUnlessRunning(r, observed) ==
    Reported(r, IF observed = "running" THEN "STILL_RUNNING" ELSE "NO_ACTION")

\* Without a conclusive observation the task is left to a later call or to an
\* operator.
Unresolved(r, observed) ==
    Reported(r, IF observed = "running" THEN "STILL_RUNNING" ELSE "MANUAL_REQUIRED")

\* The provider of an external reference is asked; without a reference, or
\* without a verifier that answers, nothing is known.
Observe(r) ==
    /\ Doing(r, "observe")
    /\ \/ /\ <<recon[r].task, recon[r].num>> \notin externalRefs
          /\ Reads(r, Unresolved(r, "unknown"))
       \/ /\ <<recon[r].task, recon[r].num>> \in externalRefs
          /\ \E observed \in Observations :
                \/ /\ observed \in {"running", "unknown", "not_found"}
                   /\ Reads(r, Unresolved(r, observed))
                \/ /\ observed \in {"succeeded", "failed", "cancelled"}
                   /\ Reads(r, [Then(r, "resolve_attempt") EXCEPT
                                  !.target = Resolution(observed)])

ResolveAttempt(r) ==
    /\ Doing(r, "resolve_attempt")
    /\ LET Accepted == AttemptUpdateAccepted(recon[r].task, recon[r].num,
                          recon[r].attempt, recon[r].target)
       IN \/ /\ UpdateTaskAttempt(recon[r].task, recon[r].num,
                                  recon[r].attempt, recon[r].target)
             /\ Records(r, Then(r, "reread_task"))
          \/ ~ Accepted /\ ReconRaises(r)

RereadTask(r) ==
    /\ Doing(r, "reread_task")
    /\ LET status == taskRun[recon[r].task] IN
          \/ /\ status = recon[r].target
             /\ Reads(r, Reported(r, ResolvedAs(recon[r].target)))
          \/ /\ status # recon[r].target
             /\ Reads(r, [Then(r, "resolve_task") EXCEPT !.taskRun = status])

ResolveTask(r) ==
    /\ Doing(r, "resolve_task")
    /\ ReconTransitionsTask(r, recon[r].target,
                            Reported(r, ResolvedAs(recon[r].target)))

TasksVisited(r) ==
    /\ Doing(r, "next_task")
    /\ recon[r].todo = {}
    /\ \/ ~ FullyResolved(r) /\ ReconDone(r)
       \/ FullyResolved(r) /\ Reads(r, Then(r, "reread_run"))

RereadOpenRun(r) ==
    /\ Doing(r, "reread_run")
    /\ \/ workflowRun \in WorkflowTerminal /\ ReconDone(r)
       \/ /\ workflowRun \notin WorkflowTerminal
          /\ Reads(r, [Then(r, "list_again") EXCEPT !.run = workflowRun])

\* Mutant: a run with unfinished tasks counts as succeeded.
RunTargetForgetsOpenTasks(statuses, run) ==
    IF "UNKNOWN_OUTCOME" \in statuses THEN run
    ELSE IF "FAILED" \in statuses THEN "FAILED"
    ELSE IF "TIMED_OUT" \in statuses THEN "TIMED_OUT"
    ELSE IF "CANCELLED" \in statuses THEN "CANCELLED"
    ELSE "SUCCEEDED"

\* The status _reconcile_workflow moves the run to; the run's own status when
\* it leaves the run alone.
RunTarget(statuses, run) ==
    IF "UNKNOWN_OUTCOME" \in statuses THEN run
    ELSE IF "FAILED" \in statuses THEN "FAILED"
    ELSE IF "TIMED_OUT" \in statuses THEN "TIMED_OUT"
    ELSE IF "CANCELLED" \in statuses THEN "CANCELLED"
    ELSE IF statuses # {} /\ statuses \subseteq TaskRunTerminal THEN "SUCCEEDED"
    ELSE IF run = "UNKNOWN_OUTCOME" THEN "RUNNING"
    ELSE run

ListTasksAgain(r) ==
    /\ Doing(r, "list_again")
    /\ LET statuses == {taskRun[t] : t \in Tasks} \ {Absent}
           target == RunTarget(statuses, recon[r].run)
       IN \/ target = recon[r].run /\ ReconDone(r)
          \/ /\ target # recon[r].run
             /\ Reads(r, [Then(r, "settle_run") EXCEPT !.target = target])

SettleRecoveredRun(r) ==
    /\ Doing(r, "settle_run")
    /\ \/ /\ UpdateWorkflowRun(recon[r].run, recon[r].target)
          /\ Records(r, Finished(r))
       \/ /\ ~ WorkflowUpdateAccepted(recon[r].run, recon[r].target)
          /\ ReconRaises(r)

ReconcileStep(r) ==
    \/ ReadRunBefore(r) \/ ListOpenTasks(r) \/ NextOpenTask(r)
    \/ ReadOpenTask(r) \/ ReadLatestAttempt(r) \/ RepairTask(r) \/ Observe(r)
    \/ ResolveAttempt(r) \/ RereadTask(r) \/ ResolveTask(r) \/ TasksVisited(r)
    \/ RereadOpenRun(r) \/ ListTasksAgain(r) \/ SettleRecoveredRun(r)

AllStopped ==
    /\ process = "dead"
    /\ \A r \in Reconcilers : recon[r].at \in {"done", "raised", "dead"}
    /\ UNCHANGED recoveryVars

RecoveryNext ==
    \/ AliveStep
    \/ Crash
    \/ \E r \in Reconcilers :
          BeginReconcile(r) \/ ReconcileStep(r) \/ ReconcilerDies(r)
    \/ AllStopped

\* A reconciler that does not die goes on.
RecoveryFairness == \A r \in Reconcilers : WF_recoveryVars(ReconcileStep(r))

RecoverySpec == RecoveryInit /\ [][RecoveryNext]_recoveryVars
RecoveryFairSpec == RecoverySpec /\ RecoveryFairness

-----------------------------------------------------------------------------

\* The variables of the runtime and the local variables of reconcile.
RecoveryTypeOK ==
    /\ TypeOK
    /\ process \in {"alive", "dead"}
    /\ recon \in [Reconcilers -> Recons]

\* A run that ended, in the process that ran it or by reconciliation, leaves
\* no attempt whose outcome is open behind it, and a run that succeeded has
\* no task that did not.
RecoveredRunIsJustified ==
    /\ workflowRun \in {"SUCCEEDED", "FAILED", "TIMED_OUT"} =>
          \A t \in Tasks : taskAttempts[t] # << >> =>
              LastAttempt(t) \in TaskAttemptTerminal
    /\ workflowRun = "SUCCEEDED" =>
          \A t \in Tasks : taskRun[t] \in {"SUCCEEDED", "SKIPPED", "REUSED"}
    /\ workflowRun \in {"FAILED", "TIMED_OUT"} =>
          \E t \in Tasks : taskRun[t] = workflowRun

\* A task that a report calls resolved has the status it was resolved to.
ReportedVerdictsLast ==
    \A r \in Reconcilers : recon[r].at = "done" =>
        \A t \in Tasks, status \in TaskAttemptTerminal :
            <<t, ResolvedAs(status)>> \in recon[r].report => taskRun[t] = status

\* Once a report is fully resolved, the run has ended, unless one of its tasks
\* never started.
ResolvedRunHasEnded ==
    \A r \in Reconcilers : recon[r].at = "done" /\ FullyResolved(r) =>
        \/ workflowRun \in WorkflowTerminal
        \/ \E t \in Tasks : taskRun[t] \notin TaskRunTerminal /\ taskAttempts[t] = << >>

\* A report may be relied on, whatever else writes to the run: what it calls
\* resolved is so for good, and if it says fully_resolved no work is left but
\* what never began.
FullyResolvedReportIsTrue == ReportedVerdictsLast /\ ResolvedRunHasEnded

\* Every reconcile_run call ends.
ReconcileEnds ==
    \A r \in Reconcilers :
        recon[r].at \notin {"idle"} ~> recon[r].at \in {"done", "raised", "dead"}

=============================================================================
