-------------------------- MODULE SelectiveResume --------------------------
(***************************************************************************)
(* WorkflowRuntime.run and resume_run of one workflow over a store that    *)
(* another process prunes (runtime/workflow.py, runtime/_resume.py).       *)
(*                                                                         *)
(* A resume reads the parent run, then its task runs, then one checkpoint  *)
(* after the other, and creates the new run from what it read: the parent  *)
(* may be pruned between any two of these calls.  Somebody else may cancel *)
(* a run from its creation on: cancel() makes it CANCELLED while the call  *)
(* that fills or executes it is still under way, and from then on the run  *)
(* may be resumed and pruned although that call goes on with it, until the *)
(* store refuses something.                                                *)
(*                                                                         *)
(* RunLoop and Cancellation have the attempts of a task call by call; here *)
(* all the attempts of a task are the step "work".  A run that ends with   *)
(* UNKNOWN_OUTCOME is neither resumed nor pruned before it is reconciled   *)
(* (RunRecovery), and is left out.                                         *)
(***************************************************************************)
EXTENDS RunHistory

CONSTANTS
    Callers,         \* the threads that run and resume, one call at a time
    Upstream,        \* Upstream[t]: the tasks that t depends on
    Deterministic,   \* the tasks with is_deterministic
    ForcedChoices,   \* the force_recompute_tasks a resume may be given
    CancelBound      \* bound: the stored runs that somebody has cancelled

ASSUME UpstreamPrecedes ==
    Upstream \in [Tasks -> SUBSET Tasks]
    /\ \A t \in Tasks : \A d \in Upstream[t] : d < t
ASSUME ChoicesType ==
    /\ Deterministic \in SUBSET Tasks /\ ForcedChoices \in SUBSET (SUBSET Tasks)
    /\ CancelBound \in Nat

VARIABLES
    call             \* call[c]: the call c is in

resumeVars == <<historyVars, call>>

\* The part of a call that makes the records of its run, the part that executes
\* it, and every step of a call.
Creating == {"create_tasks", "reuse", "copy", "start_run"}
Executing == {"execute", "append", "work", "checkpoint", "stop", "fail_fast", "finish"}
CallSteps == {"idle", "list", "classify", "create_run"} \cup Creating \cup Executing

\* What a call holds.  parent: the run to resume; run: the run created; task: the plan entry;
\* listed: the task runs read from the parent; forced: force_recompute_tasks;
\* reused: reused_keys; outputs: the outputs the call holds.
CallRecords ==
    [at : CallSteps, parent : Runs \cup {NoRun}, run : Runs \cup {NoRun}, task : Tasks,
     listed : [Tasks -> TaskRunStatus \cup {Absent}], forced : SUBSET Tasks,
     reused : SUBSET Tasks, outputs : [Tasks -> Outputs \cup {NoOutput}]]

NoCall ==
    [at |-> "idle", parent |-> NoRun, run |-> NoRun, task |-> 1,
     listed |-> [t \in Tasks |-> Absent], forced |-> {}, reused |-> {},
     outputs |-> [t \in Tasks |-> NoOutput]]

Init ==
    /\ InitHistory
    /\ call = [c \in Callers |-> NoCall]

-----------------------------------------------------------------------------
(* The parent.                                                             *)

Resumable == {"FAILED", "CANCELLED", "TIMED_OUT"}

\* run(): there is nothing to read.
BeginRun(c) ==
    /\ call[c].at = "idle"
    /\ created < RunBound
    /\ call' = [call EXCEPT ![c] = [NoCall EXCEPT !.at = "create_run"]]
    /\ UNCHANGED historyVars

\* resume_run: get_workflow_run and the check of the status.  A run that is
\* missing or not resumable is refused and changes nothing.
BeginResume(c) ==
    /\ call[c].at = "idle"
    /\ created < RunBound
    /\ \E r \in Stored, forced \in ForcedChoices :
          /\ runs[r] \in Resumable
          /\ call' = [call EXCEPT ![c] =
                        [NoCall EXCEPT !.at = "list", !.parent = r,
                                       !.forced = forced]]
    /\ UNCHANGED historyVars

ListParentTasks(c) ==
    /\ call[c].at = "list"
    /\ call' = [call EXCEPT ![c].at = "classify",
                            ![c].listed = taskRuns[call[c].parent]]
    /\ UNCHANGED historyVars

-----------------------------------------------------------------------------
(* classify_tasks_for_resume: one plan entry, one checkpoint read.         *)

\* Mutant: a task is reused although an upstream task is not.
ReusableIgnoringUpstream(k, t) ==
    /\ t \in Deterministic \ k.forced
    /\ k.listed[t] \in {"SUCCEEDED", "REUSED"}

Reusable(k, t) ==
    /\ t \in Deterministic \ k.forced
    /\ k.listed[t] \in {"SUCCEEDED", "REUSED"}
    /\ Upstream[t] \subseteq k.reused

NextEntryOr(k, at) ==
    IF k.task = TaskCount THEN [k EXCEPT !.task = 1, !.at = at]
                          ELSE [k EXCEPT !.task = k.task + 1]

Classify(c) ==
    LET k == call[c]
        checkpoint == checkpoints[k.parent][k.task]
        found == Reusable(k, k.task) /\ checkpoint # NoOutput
    IN  /\ k.at = "classify"
        /\ \/ found /\ call' = [call EXCEPT ![c] =
                 NextEntryOr([k EXCEPT !.reused = @ \cup {k.task},
                                       !.outputs[k.task] = checkpoint],
                             "create_run")]
           \/ ~ found /\ call' = [call EXCEPT ![c] = NextEntryOr(k, "create_run")]
        /\ UNCHANGED historyVars

-----------------------------------------------------------------------------
(* What the store accepts.                                                 *)

\* Whether the store accepts the next call that k makes about its run: the
\* record is there, and it has the status that k last knew or needs.
Accepts(k) ==
    LET run == runs[k.run]
        task == taskRuns[k.run][k.task]
    IN  CASE k.at \in {"create_tasks", "stop", "fail_fast"} -> run # Absent
          [] k.at \in {"append", "work"} -> task # Absent
          [] k.at \in {"reuse", "execute"} -> task = "PENDING"
          [] k.at = "copy" -> task = "REUSED"
          [] k.at = "checkpoint" -> task = "SUCCEEDED"
          [] k.at = "start_run" -> run = "PENDING"
          [] k.at = "finish" -> run = "RUNNING"
          [] OTHER -> TRUE

\* The loop over the plan goes past a reused task without asking the store.
PassesReused(k) == k.at = "execute" /\ k.task \in k.reused

\* MetadataNotFoundError, MetadataConflictError or an illegal transition leaves
\* run() and resume_run: what was cancelled or pruned stays as it is.
Raise(c) ==
    /\ call[c].at \in Creating \cup Executing
    /\ ~ PassesReused(call[c])
    /\ ~ Accepts(call[c])
    /\ call' = [call EXCEPT ![c] = NoCall]
    /\ UNCHANGED historyVars

-----------------------------------------------------------------------------
(* The records of the new run.                                             *)

CreateRun(c) ==
    LET r == created + 1
    IN  /\ call[c].at = "create_run"
        /\ created < RunBound
        /\ created' = r
        /\ runs' = [runs EXCEPT ![r] = "PENDING"]
        /\ call' = [call EXCEPT ![c].at = "create_tasks", ![c].run = r]
        /\ UNCHANGED <<backend, taskRuns, attempted, checkpoints, pruneVars>>

\* One store call that gives the current task run of k a status.
SetTaskRun(k, status) ==
    /\ taskRuns' = [taskRuns EXCEPT ![k.run][k.task] = status]
    /\ UNCHANGED <<backend, runs, attempted, checkpoints, created, pruneVars>>

NextCreation(k) == NextEntryOr([k EXCEPT !.at = "create_tasks"], "start_run")

\* create_task_run: the run must be there, whatever its status.
CreateTask(c) ==
    LET k == call[c]
    IN  /\ k.at = "create_tasks"
        /\ Accepts(k)
        /\ SetTaskRun(k, "PENDING")
        /\ call' = [call EXCEPT ![c] = IF k.task \in k.reused THEN [k EXCEPT !.at = "reuse"]
                                                              ELSE NextCreation(k)]

MarkReused(c) ==
    /\ call[c].at = "reuse"
    /\ Accepts(call[c])
    /\ SetTaskRun(call[c], "REUSED")
    /\ call' = [call EXCEPT ![c].at = "copy"]

\* What a reused task run gets: the output that was read from the parent.
CopiedOutput(k) == k.outputs[k.task]

CopyCheckpoint(c) ==
    LET k == call[c]
    IN  /\ k.at = "copy"
        /\ Accepts(k)
        /\ checkpoints' = [checkpoints EXCEPT ![k.run][k.task] = CopiedOutput(k)]
        /\ call' = [call EXCEPT ![c] = NextCreation(k)]
        /\ UNCHANGED <<backend, runs, taskRuns, attempted, created, pruneVars>>

StartRun(c) ==
    /\ call[c].at = "start_run"
    /\ Accepts(call[c])
    /\ runs' = [runs EXCEPT ![call[c].run] = "RUNNING"]
    /\ call' = [call EXCEPT ![c].at = "execute"]
    /\ UNCHANGED <<backend, taskRuns, attempted, checkpoints, created, pruneVars>>

-----------------------------------------------------------------------------
(* _execute_plan_tasks.                                                    *)

NextExecution(k) == NextEntryOr([k EXCEPT !.at = "execute"], "finish")

SkipReused(c) ==
    /\ PassesReused(call[c])
    /\ call' = [call EXCEPT ![c] = NextExecution(call[c])]
    /\ UNCHANGED historyVars

\* READY, then RUNNING.
StartTask(c) ==
    /\ call[c].at = "execute"
    /\ ~ PassesReused(call[c])
    /\ Accepts(call[c])
    /\ SetTaskRun(call[c], "RUNNING")
    /\ call' = [call EXCEPT ![c].at = "append"]

\* The first attempt is appended and works; append_task_attempt asks for the
\* task run and not for its status.
AppendAttempt(c) ==
    LET k == call[c]
    IN  /\ k.at = "append"
        /\ Accepts(k)
        /\ attempted' = [attempted EXCEPT ![k.run] = @ \cup {k.task}]
        /\ call' = [call EXCEPT ![c].at = "work"]
        /\ UNCHANGED <<backend, runs, taskRuns, checkpoints, created, pruneVars>>

\* The output of the current task: dependency_outputs are the outputs the call
\* holds for the upstream tasks.
Computed(k) ==
    [by |-> k.run,
     from |-> [d \in Tasks |-> IF d \in Upstream[k.task] THEN k.outputs[d].by
                                                         ELSE NoRun]]

AtWork(k) == k.at = "work" /\ taskRuns[k.run][k.task] = "RUNNING"

\* An attempt succeeds, also in a run that is cancelled already: cancel() found
\* an attempt that was over, and left the task run to the retry or to the result.
SucceedTask(c) ==
    LET k == call[c]
    IN  /\ AtWork(k)
        /\ SetTaskRun(k, "SUCCEEDED")
        /\ call' = [call EXCEPT ![c] = [k EXCEPT !.at = "checkpoint",
                                                 !.outputs[k.task] = Computed(k)]]

\* _persist_output_checkpoint, none for an output without a portable form, and
\* the look at the run after it.
Checkpoint(c) ==
    LET k == call[c]
    IN  /\ k.at = "checkpoint"
        /\ Accepts(k)
        /\ \/ checkpoints' = [checkpoints EXCEPT ![k.run][k.task] = k.outputs[k.task]]
           \/ UNCHANGED checkpoints
        /\ call' = [call EXCEPT ![c] =
                      IF runs[k.run] = "CANCELLATION_REQUESTED"
                      THEN [k EXCEPT !.at = "stop"] ELSE NextExecution(k)]
        /\ UNCHANGED <<backend, runs, taskRuns, attempted, created, pruneVars>>

\* The last attempt fails or times out, or reports the cancellation that was
\* requested of its run.
FailTask(c) ==
    LET k == call[c]
    IN  /\ AtWork(k)
        /\ \/ \E end \in {"FAILED", "TIMED_OUT"} : SetTaskRun(k, end)
           \/ runs[k.run] = "CANCELLATION_REQUESTED" /\ SetTaskRun(k, "CANCELLED")
        /\ call' = [call EXCEPT ![c].at = "fail_fast"]

\* The call ends; its task runs of these statuses take another one, and its run
\* the status end if the transition table has the step (otherwise it raises).
EndCall(c, open, status, end) ==
    LET r == call[c].run
    IN  /\ taskRuns' = [taskRuns EXCEPT ![r] =
              [t \in Tasks |-> IF @[t] \in open THEN status ELSE @[t]]]
        /\ runs' = [runs EXCEPT ![r] = IF end \in WorkflowTransitions[@] THEN end ELSE @]
        /\ call' = [call EXCEPT ![c] = NoCall]
        /\ UNCHANGED <<backend, attempted, checkpoints, created, pruneVars>>

\* _apply_fail_fast, and the end of the run.
FailRun(c) ==
    LET k == call[c]
    IN  /\ k.at = "fail_fast"
        /\ Accepts(k)
        /\ EndCall(c, {"PENDING"}, "SKIPPED", taskRuns[k.run][k.task])

\* The call learns that its run is being cancelled, from the run after a task
\* that succeeded or from its attempt; a task run that cancel() has not settled
\* yet is settled here.
StopCancelled(c) ==
    LET k == call[c]
    IN  /\ \/ k.at = "stop"
           \/ k.at = "work" /\ taskRuns[k.run][k.task] = "CANCELLED"
           \/ AtWork(k) /\ runs[k.run] \in {"CANCELLATION_REQUESTED", "CANCELLED"}
        /\ Accepts(k)
        /\ EndCall(c, {"PENDING", "RUNNING"}, "CANCELLED", "CANCELLED")

SucceedRun(c) ==
    /\ call[c].at = "finish"
    /\ Accepts(call[c])
    /\ EndCall(c, {}, "SUCCEEDED", "SUCCEEDED")

CallStep(c) ==
    \/ ListParentTasks(c) \/ Classify(c) \/ CreateRun(c) \/ Raise(c)
    \/ CreateTask(c) \/ MarkReused(c) \/ CopyCheckpoint(c) \/ StartRun(c)
    \/ SkipReused(c) \/ StartTask(c) \/ AppendAttempt(c) \/ SucceedTask(c)
    \/ Checkpoint(c) \/ FailTask(c) \/ FailRun(c) \/ StopCancelled(c)
    \/ SucceedRun(c)

-----------------------------------------------------------------------------
(* cancel(), by anybody who knows the run.                                 *)

CancelledRuns == {r \in Runs : runs[r] \in {"CANCELLATION_REQUESTED", "CANCELLED"}}

RequestCancellation(r) ==
    /\ runs[r] \in {"PENDING", "RUNNING"}
    /\ Cardinality(CancelledRuns) < CancelBound
    /\ runs' = [runs EXCEPT ![r] = "CANCELLATION_REQUESTED"]
    /\ UNCHANGED <<backend, taskRuns, attempted, checkpoints, created, pruneVars>>

\* The loop over the task runs takes those that have not started; the loop may
\* outlast the run.
CancelNotStarted(r) ==
    /\ runs[r] \in {"CANCELLATION_REQUESTED", "CANCELLED"}
    /\ \E t \in Tasks :
          /\ taskRuns[r][t] = "PENDING"
          /\ taskRuns' = [taskRuns EXCEPT ![r][t] = "CANCELLED"]
    /\ UNCHANGED <<backend, runs, attempted, checkpoints, created, pruneVars>>

\* Nothing listed is open any more.  A running task is cancelled by its executor
\* or had an attempt that was over (and is left RUNNING); one without an attempt
\* is UNCONFIRMED.  What is still PENDING was created after cancel() listed the
\* task runs, or belongs to a call that has raised.
ConfirmCancellation(r) ==
    /\ runs[r] = "CANCELLATION_REQUESTED"
    /\ \A t \in Tasks :
          /\ taskRuns[r][t] = "RUNNING" => t \in attempted[r]
          /\ taskRuns[r][t] = "PENDING" =>
                \A c \in Callers : call[c].run = r => call[c].at \in Creating
    /\ runs' = [runs EXCEPT ![r] = "CANCELLED"]
    /\ \/ UNCHANGED taskRuns
       \/ taskRuns' = [taskRuns EXCEPT ![r] =
              [t \in Tasks |-> IF @[t] = "RUNNING" THEN "CANCELLED" ELSE @[t]]]
    /\ UNCHANGED <<backend, attempted, checkpoints, created, pruneVars>>

Cancel ==
    \E r \in Runs :
        RequestCancellation(r) \/ CancelNotStarted(r) \/ ConfirmCancellation(r)

Next ==
    \/ \E c \in Callers : BeginRun(c) \/ BeginResume(c) \/ CallStep(c)
    \/ (Cancel \/ Prune) /\ UNCHANGED call

ResumeSpec == Init /\ [][Next]_resumeVars

-----------------------------------------------------------------------------
(* Properties.                                                             *)

\* The type invariant of the calls and of the history they share.
ResumeTypeOK ==
    /\ HistoryTypeOK
    /\ call \in [Callers -> CallRecords]

\* cancel() ended the run before anything of it was executed.
CancelledUnexecuted(r) == runs[r] = "CANCELLED" /\ attempted[r] = {}

\* Whatever chain of resumes, forced recomputations, cancellations and prunings
\* led to a run, the outputs it holds fit together: each was computed from the
\* very outputs this run holds for the upstream tasks, or was computed by this
\* run itself from an output that has no checkpoint (_resume.py:52, "all dep
\* reused").  Only a run that was cancelled while its records were still being
\* made may have lost, to a batch that spares runs without attempts, an output
\* that a later copied one was computed from.
OutputsFitTogether ==
    \A r \in Runs, t \in Tasks : checkpoints[r][t] # NoOutput =>
        \A d \in Upstream[t] :
            IF checkpoints[r][d] # NoOutput
            THEN checkpoints[r][t].from[d] = checkpoints[r][d].by
            ELSE checkpoints[r][t].from[d] = r \/ CancelledUnexecuted(r)

\* A run that somebody is executing, and that nobody has cancelled, is whole:
\* each of its task runs is stored, and every reused task has a checkpoint of
\* its own, so that pruning the parent, at any moment of the resume or later,
\* takes nothing from it.
ExecutedRunStandsAlone ==
    \A c \in Callers :
        LET r == call[c].run
        IN  call[c].at \in Executing /\ runs[r] \notin {"CANCELLED", Absent} =>
            /\ runs[r] \in {"RUNNING", "CANCELLATION_REQUESTED"}
            /\ \A t \in Tasks : taskRuns[r][t] # Absent
            /\ \A t \in call[c].reused :
                  /\ taskRuns[r][t] = "REUSED"
                  /\ checkpoints[r][t] # NoOutput
                  /\ checkpoints[r][t] = call[c].outputs[t]

\* Pruning leaves no record of a run it deleted, under any interleaving of its
\* batches with the runs being created and executed: a call that goes on with a
\* run that was cancelled and pruned can add nothing to it (prune_runs of both
\* stores; memory.py:170, 254, 422).
NothingOutlivesItsRun ==
    \A r \in Runs : runs[r] = Absent =>
        /\ attempted[r] = {}
        /\ \A t \in Tasks : taskRuns[r][t] = Absent /\ checkpoints[r][t] = NoOutput

\* Of the runs that somebody is filling or executing, only a cancelled one is
\* deleted.
OnlyCancelledIsTaken ==
    \A c \in Callers :
        LET r == call[c].run
        IN  call[c].at \in Creating \cup Executing /\ runs'[r] = Absent =>
                runs[r] \in {"CANCELLED", Absent}

\* Pruning takes a run whole or not at all, and never from under a call that
\* fills or executes it, except after somebody cancelled that run under the
\* call (persistence/retention.py against workflow.py:768-834 and 421-609).
PruningIsClean ==
    /\ [](ExecutedRunStandsAlone /\ NothingOutlivesItsRun)
    /\ [][OnlyCancelledIsTaken]_resumeVars

=============================================================================
