-------------------------- MODULE ConcurrentRunner --------------------------
(***************************************************************************)
(* One call of the V1 ConcurrentRunner.run (application/concurrent_        *)
(* runner.py): a coordinator thread that dispatches ready tasks and due    *)
(* retries under capacity leases, an executor whose workers report through *)
(* one completion queue (application/completion.py), timeouts that settle  *)
(* an attempt while its worker may go on, and a cancellation that another  *)
(* thread may request at any time.                                         *)
(*                                                                         *)
(* An execution is the pair of its task and its attempt number; handle,    *)
(* attempt identifier and lease all stand for it.  Every unit of work of   *)
(* the coordinator is one step.  A submission that the executor refuses    *)
(* ends run() with an exception behind an attempt already stored; Ctrl-C   *)
(* may come anywhere in the loop, between two units of work or inside one. *)
(***************************************************************************)
EXTENDS CapacityManager, LegacyStates, Sequences

CONSTANTS
    Tasks,           \* numbered in the order of their identifiers
    AttemptBound,    \* the largest max_attempts of any task
    Executor,        \* the key of the one executor the runner drives
    Definitions      \* the workflows and executors considered

ASSUME TasksAreNumbered == Tasks \subseteq Nat

ASSUME AttemptsAreNumbered ==
    AttemptBound \in Nat \ {0} /\ Attempts = Tasks \X (1 .. AttemptBound)

ASSUME ExecutorIsRegistered == Executor \in ExecutorKeys

\* What run() is given: the upstream tasks of each task, its retry policy and
\* timeout mode, what the executor can do about a running handle, the tasks
\* whose handler or context it may refuse (not picklable, wrong arity, no new
\* process), and whether the program may be interrupted from the keyboard.
ASSUME DefinitionsType ==
    Definitions \subseteq
        [upstream: [Tasks -> SUBSET Tasks],
         maxAttempts: [Tasks -> 1 .. AttemptBound],
         timeoutMode: [Tasks -> {"NONE", "SOFT", "HARD"}],
         cancellation: {"NONE", "COOPERATIVE", "HARD"},
         refuses: SUBSET Tasks,
         interrupts: BOOLEAN]

\* The workflow has been validated and planned: each task has a position
\* behind those of its upstream tasks (planner.build_plan).
ASSUME PlansAreOrdered ==
    /\ IsFiniteSet(Tasks)
    /\ \A d \in Definitions : \E position \in [Tasks -> 1 .. Cardinality(Tasks)] :
          \A t \in Tasks : \A u \in d.upstream[t] : position[u] < position[t]

VARIABLES
    definition,      \* fixed for the run
    run,             \* status of the WorkflowRun
    task,            \* status of each TaskRun
    attempt,         \* status of each TaskAttempt, Absent before it starts
    outputs,         \* keys of outputs_by_task_id
    lastEvent,       \* kind of the last RuntimeEvent stored
    active,          \* executions the coordinator waits for
    timedOut,        \* those of them that were declared timed out
    pending,         \* next attempt number of each pending retry, 0 if none
    eligible,        \* pending retries whose backoff is over
    failed,          \* workflow_failed
    stopped,         \* executor_cancelled_handle_ids
    pc, todo, visit, \* position of the coordinator and of its loops
    worker,          \* what the executor does with each execution
    queue,           \* the completion queue
    cancelRequested, \* the CancellationController
    interrupted      \* a KeyboardInterrupt was raised, and where

records == <<run, task, attempt, outputs, lastEvent>>
loops == <<pc, todo, visit>>
locals == <<active, timedOut, pending, eligible, failed, stopped>>
environment == <<worker, queue, cancelRequested, interrupted>>
runnerVars == <<definition, records, loops, locals, environment, capacityVars>>

Absent == "absent"
Outcome == {"succeeds", "fails", "breaks"}
EventKind == {"none", "started", "task", "ended"}

\* At most one KeyboardInterrupt is considered: a second one escapes from
\* run().  It comes between two units of work, or within one.
Interruption == {"no", "between", "within"}

CoordinatorStep ==
    {"top", "retries", "dispatch", "recheck", "wait", "expire", "finish",
     "stop", "drain", "returned", "raised"}

Ended == pc \in {"returned", "raised"}

Pending == {t \in Tasks : pending[t] # 0}

TaskOf(h) == h[1]

RunnerInit ==
    /\ definition \in Definitions
    /\ run = "RUNNING" /\ lastEvent = "started"
    /\ task = [t \in Tasks |-> "PENDING"]
    /\ attempt = [h \in Attempts |-> Absent]
    /\ outputs = {} /\ active = {} /\ timedOut = {} /\ stopped = {}
    /\ pending = [t \in Tasks |-> 0] /\ eligible = {}
    /\ failed = FALSE /\ cancelRequested = FALSE /\ interrupted = "no"
    /\ pc = "top" /\ todo = {} /\ visit = {}
    /\ worker = [h \in Attempts |-> "idle"] /\ queue = << >>
    /\ InitCapacity

-----------------------------------------------------------------------------
(* The executor, the clock and the canceller.                              *)

\* The worker is done and has given up its slot.
WorkerFreesSlot(h) ==
    /\ worker[h] = "running"
    /\ worker' = [worker EXCEPT ![h] = "freed"]
    /\ UNCHANGED <<definition, records, loops, locals, queue, cancelRequested,
                   interrupted, capacityVars>>

\* The handler's outcome reaches the completion queue.  A worker that was
\* terminated or cancelled may still have had its own outcome.
WorkerReports(h) ==
    /\ worker[h] = "freed"
    /\ \E outcome \in Outcome :
          queue' = Append(queue, [handle |-> h, outcome |-> outcome])
    /\ worker' = [worker EXCEPT ![h] = "reported"]
    /\ UNCHANGED <<definition, records, loops, locals, cancelRequested,
                   interrupted, capacityVars>>

BackoffEnds(t) ==
    /\ t \in Pending \ eligible
    /\ eligible' = eligible \cup {t}
    /\ UNCHANGED <<definition, records, loops, active, timedOut, pending, failed,
                   stopped, environment, capacityVars>>

\* The first request is kept, later ones change nothing.
RequestCancellation ==
    /\ ~ cancelRequested /\ ~ Ended
    /\ cancelRequested' = TRUE
    /\ UNCHANGED <<definition, records, loops, locals, worker, queue, interrupted,
                   capacityVars>>

OccupiedSlots == {h \in Attempts : worker[h] = "running"}

-----------------------------------------------------------------------------
(* What the coordinator decides with.                                      *)

TaskMovable(t, target) == task[t] \in TaskAllowedFrom(target)

NotDispatched == {t \in Tasks : task[t] \in {"PENDING", "READY"}}

\* ReadyTaskResolver.is_ready.
IsReady(t) ==
    /\ task[t] = "PENDING"
    /\ \A u \in definition.upstream[t] : task[u] = "SUCCEEDED"

\* RetryEngine.decide: "breaks" stands for an error that is not a
\* TaskExecutionError or whose category the policy excludes.
ShouldRetry(t, n, outcome) ==
    n < definition.maxAttempts[t] /\ outcome = "fails"

FirstOf(S) == CHOOSE t \in S : \A u \in S : t <= u

\* Mutant: a handle that was declared timed out no longer blocks its task.
HasExecutionInTime(t) == \E h \in active \ timedOut : TaskOf(h) = t

\* active_task_ids: the task still has an execution, timed out or not.
HasExecution(t) == \E h \in active : TaskOf(h) = t

Goes(step) == pc' = step /\ UNCHANGED <<todo, visit>>

-----------------------------------------------------------------------------
(* The head of the loop, and the dispatch of retries and of ready tasks.   *)

TopMarksReady ==
    /\ pc = "top"
    /\ failed \/ ~ cancelRequested
    /\ LET ready == {t \in Tasks : IsReady(t) /\ ~ failed} IN
          /\ task' = [t \in Tasks |-> IF t \in ready THEN "READY" ELSE task[t]]
          /\ lastEvent' = IF ready = {} THEN lastEvent ELSE "task"
    /\ pc' = "retries" /\ todo' = Pending /\ UNCHANGED visit
    /\ UNCHANGED <<definition, run, attempt, outputs, locals, environment,
                   capacityVars>>

\* What storing and submitting an attempt checks: its number is new, the
\* outputs of the upstream tasks are at hand, the executor has a free slot.
SubmitAccepted(h) ==
    /\ attempt[h] = Absent
    /\ definition.upstream[TaskOf(h)] \subseteq outputs
    /\ Cardinality(OccupiedSlots) < MaxConcurrency[Executor]

\* What executor.submit refuses is refused after the attempt was stored and
\* its lease taken: run() raises, and neither is taken back.
Submits(h) ==
    \/ /\ SubmitAccepted(h)
       /\ active' = active \cup {h}
       /\ worker' = [worker EXCEPT ![h] = "running"]
       /\ UNCHANGED pc
    \/ /\ ~ SubmitAccepted(h) \/ TaskOf(h) \in definition.refuses
       /\ pc' = "raised" /\ UNCHANGED <<active, worker>>

RetryOf(t) == <<t, pending[t]>>

DispatchRetry ==
    /\ pc = "retries" /\ todo # {} /\ ~ cancelRequested
    /\ LET t == FirstOf(todo)
           h == RetryOf(t) IN
          /\ t \in eligible /\ ~ HasExecution(t)
          /\ Acquire(h, Executor)
          /\ attempt' = [attempt EXCEPT ![h] = "RUNNING"]
          /\ pending' = [pending EXCEPT ![t] = 0]
          /\ eligible' = eligible \ {t}
          /\ todo' = todo \ {t}
          /\ Submits(h)
    /\ UNCHANGED <<definition, run, task, outputs, lastEvent, visit, timedOut,
                   failed, stopped, queue, cancelRequested, interrupted>>

PassOverRetry ==
    /\ pc = "retries" /\ todo # {} /\ ~ cancelRequested
    /\ LET t == FirstOf(todo) IN
          /\ \/ t \notin eligible
             \/ HasExecution(t)
             \/ ~ CapacityAvailable(Executor)
          /\ todo' = todo \ {t}
    /\ UNCHANGED <<definition, records, pc, visit, locals, environment,
                   capacityVars>>

RetryPassEnds ==
    /\ pc = "retries"
    /\ todo = {} \/ cancelRequested
    /\ pc' = "dispatch"
    /\ todo' = IF failed THEN {} ELSE {t \in Tasks : task[t] = "READY"}
    /\ UNCHANGED <<definition, records, visit, locals, environment, capacityVars>>

DispatchReady ==
    /\ pc = "dispatch" /\ todo # {} /\ ~ cancelRequested
    /\ LET t == FirstOf(todo)
           h == <<t, 1>> IN
          /\ Acquire(h, Executor)
          /\ task' = [task EXCEPT ![t] = "RUNNING"]
          /\ attempt' = [attempt EXCEPT ![h] = "RUNNING"]
          /\ lastEvent' = "task"
          /\ todo' = todo \ {t}
          /\ Submits(h)
    /\ UNCHANGED <<definition, run, outputs, visit, timedOut, pending, eligible,
                   failed, stopped, queue, cancelRequested, interrupted>>

PassOverReady ==
    /\ pc = "dispatch" /\ todo # {} /\ ~ cancelRequested
    /\ ~ CapacityAvailable(Executor)
    /\ todo' = todo \ {FirstOf(todo)}
    /\ UNCHANGED <<definition, records, pc, visit, locals, environment,
                   capacityVars>>

DispatchPassEnds ==
    /\ pc = "dispatch"
    /\ todo = {} \/ cancelRequested
    /\ pc' = "recheck" /\ todo' = {} /\ UNCHANGED visit
    /\ UNCHANGED <<definition, records, locals, environment, capacityVars>>

\* Mutant: a pending retry is no reason to wait.
RecheckForgetsRetries ==
    /\ pc = "recheck"
    /\ Goes(IF cancelRequested /\ ~ failed THEN "top"
            ELSE IF active # {} THEN "wait" ELSE "finish")
    /\ UNCHANGED <<definition, records, locals, environment, capacityVars>>

Recheck ==
    /\ pc = "recheck"
    /\ Goes(IF cancelRequested /\ ~ failed THEN "top"
            ELSE IF active # {} \/ Pending # {} THEN "wait"
            ELSE "finish")
    /\ UNCHANGED <<definition, records, locals, environment, capacityVars>>

-----------------------------------------------------------------------------
(* Waiting for a completion.                                               *)

\* The wait of _completion_wait_timeout is bounded; otherwise get() blocks.
WaitIsBounded ==
    \/ Pending # {}
    \/ definition.cancellation # "NONE"
    \/ \E h \in active \ timedOut : definition.timeoutMode[TaskOf(h)] # "NONE"

Settles(h, status) ==
    /\ attempt' = [attempt EXCEPT ![h] = status]
    /\ task' = [task EXCEPT ![TaskOf(h)] = status]

SchedulesRetry(h) ==
    /\ attempt' = [attempt EXCEPT ![h] = "FAILED"]
    /\ pending' = [pending EXCEPT ![TaskOf(h)] = h[2] + 1]
    /\ lastEvent' = "task"
    /\ UNCHANGED <<run, task, outputs>>

\* Mutant: the tasks already marked READY are not skipped.
FailsWorkflowLeavingReady(h) ==
    /\ attempt' = [attempt EXCEPT ![h] = "FAILED"]
    /\ task' = [t \in Tasks |-> IF t = TaskOf(h) THEN "FAILED"
                                ELSE IF task[t] = "PENDING" THEN "SKIPPED"
                                ELSE task[t]]
    /\ run' = "FAILED" /\ lastEvent' = "ended"
    /\ UNCHANGED <<outputs, pending>>

\* _persist_terminal_failure: the fail-fast propagation and the end of the
\* run are one unit of work with the failed attempt.
FailsWorkflow(h) ==
    /\ attempt' = [attempt EXCEPT ![h] = "FAILED"]
    /\ task' = [t \in Tasks |-> IF t = TaskOf(h) THEN "FAILED"
                                ELSE IF t \in NotDispatched THEN "SKIPPED"
                                ELSE task[t]]
    /\ run' = "FAILED" /\ lastEvent' = "ended"
    /\ UNCHANGED <<outputs, pending>>

\* A task that fails or succeeds without deciding the run.
SettlesSibling(h, status) ==
    /\ Settles(h, status)
    /\ lastEvent' = "task"
    /\ UNCHANGED <<run, outputs, pending>>

Succeeds(h) ==
    /\ Settles(h, "SUCCEEDED")
    /\ outputs' = outputs \cup {TaskOf(h)}
    /\ lastEvent' = "task"
    /\ UNCHANGED <<run, pending>>

\* What a failed attempt leads to, in a completion and in a timeout alike.
\* The run has failed before, or in this very pass over the deadlines.
FailsOrRetries(h, outcome) ==
    IF run = "FAILED" THEN SettlesSibling(h, "FAILED")
    ELSE IF ShouldRetry(TaskOf(h), h[2], outcome) THEN SchedulesRetry(h)
    ELSE FailsWorkflow(h)

\* Mutant: the outcome is applied although the attempt was declared timed out.
AppliesLateCompletion(h, outcome) ==
    IF outcome = "succeeds" THEN Succeeds(h) ELSE FailsOrRetries(h, outcome)

\* The completion of an execution that the coordinator has just let go.
AppliesCompletion(h, outcome) ==
    IF h \in timedOut
    THEN UNCHANGED <<run, task, attempt, outputs, lastEvent, pending>>
    ELSE IF cancelRequested /\ ~ failed
    THEN SettlesSibling(h, IF outcome = "succeeds" THEN "SUCCEEDED" ELSE "FAILED")
    ELSE IF outcome = "succeeds" THEN Succeeds(h)
    ELSE FailsOrRetries(h, outcome)

\* The transitions of a completion are legal; if not, run() raises.
CompletionLegal(h) ==
    \/ h \in timedOut
    \/ /\ attempt[h] \in AttemptAllowedFrom("FAILED")
       /\ TaskMovable(TaskOf(h), "FAILED")

LetsGo(h) ==
    /\ active' = active \ {h}
    /\ queue' = Tail(queue)
    /\ Release(h, Executor)

\* A completion of an execution that is not this run's, or that may not
\* settle any more, makes run() raise.
TakeCompletion ==
    /\ pc = "wait" /\ queue # << >>
    /\ LET h == Head(queue).handle IN
          IF h \in active /\ CompletionLegal(h)
          THEN /\ LetsGo(h)
               /\ timedOut' = timedOut \ {h}
               /\ AppliesCompletion(h, Head(queue).outcome)
               /\ failed' = (run' = "FAILED")
               /\ Goes("top")
          ELSE /\ Goes("raised")
               /\ UNCHANGED <<records, active, timedOut, pending, failed, queue,
                              capacityVars>>
    /\ UNCHANGED <<definition, eligible, stopped, worker, cancelRequested,
                   interrupted>>

\* Deadlines are free: any executions with a timeout may be due.
WaitTimesOut ==
    /\ pc = "wait" /\ queue = << >> /\ WaitIsBounded
    /\ \E due \in SUBSET {h \in active \ timedOut :
                             definition.timeoutMode[TaskOf(h)] # "NONE"} :
          visit' = due
    /\ pc' = "expire" /\ UNCHANGED todo
    /\ UNCHANGED <<definition, records, locals, environment, capacityVars>>

\* Mutant: a timeout gives the lease back although the worker goes on.
ExpireReleases(h) ==
    /\ pc = "expire" /\ h \in visit
    /\ active' = active \ {h} /\ Release(h, Executor)
    /\ FailsOrRetries(h, "fails")
    /\ visit' = visit \ {h} /\ UNCHANGED <<pc, todo>>
    /\ UNCHANGED <<definition, timedOut, eligible, failed, stopped, environment>>

\* One execution past its deadline, in the order of the handle identifiers,
\* which say nothing about tasks.  A HARD timeout also terminates the worker;
\* the answer is not used, and its outcome is discarded when it comes.
Expire(h) ==
    /\ pc = "expire" /\ h \in visit
    /\ timedOut' = timedOut \cup {h}
    /\ FailsOrRetries(h, "fails")
    /\ visit' = visit \ {h} /\ UNCHANGED <<pc, todo>>
    /\ UNCHANGED <<definition, active, eligible, failed, stopped, environment,
                   capacityVars>>

\* _expire_due_timeouts tells run() that the run has failed when it returns.
ExpirePassEnds ==
    /\ pc = "expire" /\ visit = {}
    /\ failed' = (run = "FAILED")
    /\ Goes("top")
    /\ UNCHANGED <<definition, records, active, timedOut, pending, eligible, stopped,
                   environment, capacityVars>>

-----------------------------------------------------------------------------
(* The end of the run.                                                     *)

\* _finish_cancellation: what no worker is busy with is cancelled at once.
CancelledAtOnce ==
    NotDispatched \cup
        {t \in Pending : ~ \E h \in active \ timedOut : TaskOf(h) = t}

BeginCancellation ==
    /\ pc = "top" /\ cancelRequested /\ ~ failed
    /\ task' = [t \in Tasks |-> IF t \in CancelledAtOnce THEN "CANCELLED" ELSE task[t]]
    /\ pending' = [t \in Tasks |-> 0] /\ eligible' = {}
    /\ IF definition.cancellation = "NONE"
       THEN Goes("drain")
       ELSE pc' = "stop" /\ visit' = active /\ UNCHANGED todo
    /\ UNCHANGED <<definition, run, attempt, outputs, lastEvent, active, timedOut,
                   failed, stopped, environment, capacityVars>>

\* terminate(handle) or cancel(handle), in any order.  It answers True only
\* for an execution that is not over; a worker about to end may answer either.
StopExecution(h) ==
    /\ pc = "stop" /\ h \in visit
    /\ visit' = visit \ {h}
    /\ \E answer \in BOOLEAN :
          /\ answer => worker[h] = "running"
          /\ stopped' = IF answer /\ h \notin timedOut THEN stopped \cup {h} ELSE stopped
    /\ UNCHANGED <<definition, records, pc, todo, active, timedOut, pending,
                   eligible, failed, environment, capacityVars>>

StopPassEnds ==
    /\ pc = "stop" /\ visit = {}
    /\ Goes("drain")
    /\ UNCHANGED <<definition, records, locals, environment, capacityVars>>

DrainedStatus(h, outcome) ==
    IF h \in stopped THEN "CANCELLED"
    ELSE IF outcome = "succeeds" THEN "SUCCEEDED" ELSE "FAILED"

\* The next completion of an execution that is left, and how it settles.
DrainsNext ==
    /\ pc = "drain" /\ queue # << >> /\ active # {}
    /\ LET h == Head(queue).handle
           status == DrainedStatus(h, Head(queue).outcome) IN
          IF h \in active /\ CompletionLegal(h)
          THEN /\ LetsGo(h)
               /\ timedOut' = timedOut \ {h}
               /\ IF h \in timedOut THEN UNCHANGED <<task, attempt, lastEvent>>
                  ELSE /\ Settles(h, status)
                       /\ lastEvent' = IF status = "CANCELLED" THEN lastEvent ELSE "task"
               /\ UNCHANGED pc
          ELSE /\ pc' = "raised"
               /\ UNCHANGED <<task, attempt, lastEvent, active, timedOut, queue,
                              capacityVars>>
    /\ UNCHANGED <<definition, run, outputs, todo, visit, pending, eligible,
                   failed, stopped, worker, cancelRequested, interrupted>>

\* _finish_cancellation waits for every worker.  No retry is scheduled any
\* more, and an attempt that the executor cancelled stores no event.
DrainCancelled == ~ failed /\ DrainsNext

\* After an interrupt of a run that has failed, the workers still going are
\* waited for as well; none was asked to stop (stopped is empty).
DrainTerminal == failed /\ DrainsNext

DrainEnds ==
    /\ pc = "drain" /\ active = {}
    /\ IF failed THEN Goes("returned") /\ UNCHANGED <<run, lastEvent>>
       ELSE IF run # "RUNNING" \/ \E t \in Tasks : task[t] = "RUNNING"
       THEN Goes("raised") /\ UNCHANGED <<run, lastEvent>>
       ELSE Goes("returned") /\ run' = "CANCELLED" /\ lastEvent' = "ended"
    /\ UNCHANGED <<definition, task, attempt, outputs, locals, environment,
                   capacityVars>>

Finish ==
    /\ pc = "finish"
    /\ IF failed THEN Goes("returned") /\ UNCHANGED <<run, lastEvent>>
       ELSE IF \A t \in Tasks : task[t] \in TaskTerminal \ {"FAILED"}
       THEN Goes("returned") /\ run' = "SUCCEEDED" /\ lastEvent' = "ended"
       ELSE Goes("raised") /\ UNCHANGED <<run, lastEvent>>
    /\ UNCHANGED <<definition, task, attempt, outputs, locals, environment,
                   capacityVars>>

-----------------------------------------------------------------------------
(* Ctrl-C: an exception of the coordinator's thread, wherever it is.       *)

\* The except clause of run() cancels the run, as the head of the loop does,
\* or waits for the workers of a run that it knows to have failed.
HandlesInterrupt(where) ==
    /\ definition.interrupts /\ interrupted = "no" /\ ~ Ended
    /\ interrupted' = where
    /\ cancelRequested' = (cancelRequested \/ ~ failed)
    /\ pc' = (IF failed THEN "drain" ELSE "top")
    /\ todo' = {} /\ visit' = {} /\ stopped' = {}
    /\ UNCHANGED <<definition, failed>>

\* Between two units of work.  In a pass over the deadlines that has failed
\* the run, run() does not know of it yet.
InterruptBetween ==
    /\ HandlesInterrupt(IF run = "FAILED" /\ ~ failed THEN "within" ELSE "between")
    /\ UNCHANGED <<records, active, timedOut, pending, eligible, worker, queue,
                   capacityVars>>

\* The attempt that a dispatch pass has come to.
NextDispatch ==
    IF pc = "retries" THEN RetryOf(FirstOf(todo)) ELSE <<FirstOf(todo), 1>>

\* After the attempt was stored, before it was submitted or before its handle
\* was kept in active.  A stored retry may still be pending.
InterruptInDispatch ==
    /\ pc \in {"retries", "dispatch"} /\ todo # {} /\ ~ cancelRequested
    /\ pc = "retries" => FirstOf(todo) \in eligible /\ ~ HasExecution(FirstOf(todo))
    /\ LET h == NextDispatch IN
          /\ Acquire(h, Executor)
          /\ attempt' = [attempt EXCEPT ![h] = "RUNNING"]
          /\ task' = [task EXCEPT ![TaskOf(h)] = "RUNNING"]
          /\ \/ UNCHANGED <<pending, eligible, worker>>
             \/ /\ pending' = [pending EXCEPT ![TaskOf(h)] = 0]
                /\ eligible' = eligible \ {TaskOf(h)}
                /\ \/ UNCHANGED worker
                   \/ SubmitAccepted(h) /\ worker' = [worker EXCEPT ![h] = "running"]
    /\ HandlesInterrupt("within")
    /\ UNCHANGED <<run, outputs, lastEvent, active, timedOut, queue>>

\* After an execution was marked as timed out, before its failure was stored.
InterruptInTimeout(h) ==
    /\ pc = "expire" /\ h \in visit
    /\ timedOut' = timedOut \cup {h}
    /\ HandlesInterrupt("within")
    /\ UNCHANGED <<records, active, pending, eligible, worker, queue, capacityVars>>

\* After a completion was taken from the queue: its execution may still be in
\* active, or be gone from it with or without its lease and not be settled.
InterruptInCompletion ==
    /\ pc \in {"wait", "drain"} /\ queue # << >> /\ active # {}
    /\ LET h == Head(queue).handle IN
          /\ h \in active
          /\ \/ UNCHANGED <<active, capacityVars>>
             \/ active' = active \ {h} /\ UNCHANGED capacityVars
             \/ active' = active \ {h} /\ Release(h, Executor)
          /\ timedOut' = timedOut \cap active'
    /\ queue' = Tail(queue)
    /\ HandlesInterrupt("within")
    /\ UNCHANGED <<records, pending, eligible, worker>>

\* After a completion failed the run, before run() knows of it.
InterruptAfterFailure ==
    /\ pc = "wait" /\ queue # << >> /\ ~ cancelRequested /\ ~ failed
    /\ LET h == Head(queue).handle
           outcome == Head(queue).outcome IN
          /\ h \in active \ timedOut /\ outcome # "succeeds"
          /\ ~ ShouldRetry(TaskOf(h), h[2], outcome)
          /\ LetsGo(h)
          /\ FailsWorkflow(h)
    /\ HandlesInterrupt("within")
    /\ UNCHANGED <<timedOut, eligible, worker>>

\* After the end of the run was stored, before run() returned.
InterruptAfterEnd ==
    /\ ~ failed
    /\ \/ /\ pc = "finish" /\ \A t \in Tasks : task[t] \in TaskTerminal \ {"FAILED"}
          /\ run' = "SUCCEEDED"
       \/ /\ pc = "drain" /\ active = {} /\ \A t \in Tasks : task[t] # "RUNNING"
          /\ run' = "CANCELLED"
    /\ lastEvent' = "ended"
    /\ HandlesInterrupt("within")
    /\ UNCHANGED <<task, attempt, outputs, active, timedOut, pending, eligible,
                   worker, queue, capacityVars>>

InterruptWithin ==
    \/ InterruptInDispatch
    \/ \E h \in Attempts : InterruptInTimeout(h)
    \/ InterruptInCompletion \/ InterruptAfterFailure \/ InterruptAfterEnd

-----------------------------------------------------------------------------

Coordinator ==
    \/ TopMarksReady \/ DispatchRetry \/ PassOverRetry \/ RetryPassEnds
    \/ DispatchReady \/ PassOverReady \/ DispatchPassEnds \/ Recheck
    \/ TakeCompletion \/ WaitTimesOut
    \/ (\E h \in Attempts : Expire(h)) \/ ExpirePassEnds
    \/ BeginCancellation \/ (\E h \in Attempts : StopExecution(h)) \/ StopPassEnds
    \/ DrainCancelled \/ DrainTerminal \/ DrainEnds \/ Finish

Worker(h) == WorkerFreesSlot(h) \/ WorkerReports(h)

\* Behind an interrupt within a unit of work run() may wait for ever.
RunEnded == (Ended \/ interrupted = "within") /\ UNCHANGED runnerVars

RunnerNext ==
    \/ Coordinator
    \/ \E h \in Attempts : Worker(h)
    \/ \E t \in Tasks : BackoffEnds(t)
    \/ RequestCancellation
    \/ InterruptBetween
    \/ InterruptWithin
    \/ RunEnded

\* The coordinator thread is scheduled, every handler ends (or its process is
\* terminated) and reports, and time passes.  Nobody has to cancel.
RunnerFairness ==
    /\ WF_runnerVars(Coordinator)
    /\ \A h \in Attempts : WF_runnerVars(Worker(h))
    /\ \A t \in Tasks : WF_runnerVars(BackoffEnds(t))

RunnerSpec == RunnerInit /\ [][RunnerNext]_runnerVars
RunnerFairSpec == RunnerSpec /\ RunnerFairness

-----------------------------------------------------------------------------

\* Every variable keeps to the entities of domain/runtime.py and to the local
\* variables of run().
RunnerTypeOK ==
    /\ definition \in Definitions
    /\ run \in WorkflowRunStatus
    /\ task \in [Tasks -> TaskRunStatus]
    /\ attempt \in [Attempts -> TaskAttemptStatus \cup {Absent}]
    /\ outputs \subseteq Tasks /\ lastEvent \in EventKind
    /\ active \subseteq Attempts /\ timedOut \subseteq active
    /\ pending \in [Tasks -> 0 .. AttemptBound] /\ eligible \subseteq Pending
    /\ failed \in BOOLEAN /\ stopped \subseteq Attempts
    /\ pc \in CoordinatorStep /\ todo \subseteq Tasks /\ visit \subseteq active
    /\ worker \in [Attempts -> {"idle", "running", "freed", "reported"}]
    /\ queue \in Seq([handle: Attempts, outcome: Outcome])
    /\ cancelRequested \in BOOLEAN /\ interrupted \in Interruption
    /\ CapacityTypeOK

Queued(h) == \E i \in 1 .. Len(queue) : queue[i].handle = h

\* A submission that was refused: its attempt stays RUNNING and leased, and
\* nothing works on it.
RefusedSubmission(h) ==
    /\ TaskOf(h) \in definition.refuses
    /\ h \in Leased \ active
    /\ attempt[h] = "RUNNING" /\ task[TaskOf(h)] = "RUNNING" /\ worker[h] = "idle"

\* The executions that the coordinator waits for are exactly those that hold
\* a lease and those whose worker has not ended or whose completion has not
\* been taken: a lease is released once, with the one completion of its
\* attempt, also after a timeout, a failure of the run or a cancellation.
\* When run() has raised, the lease of the refused submission is left as well.
EveryExecutionIsOwned ==
    /\ Leased = active \cup {h \in Attempts : RefusedSubmission(h)}
    /\ pc # "raised" =>
          active = {h \in Attempts : worker[h] \in {"running", "freed"} \/ Queued(h)}

\* No task ever runs twice at once: a retry waits until the worker of the
\* attempt that timed out has ended (active_task_ids of
\* _dispatch_pending_retries).
OneLiveWorkerPerTask ==
    \A g, h \in Attempts :
        /\ worker[g] = "running" /\ worker[h] = "running"
        /\ TaskOf(g) = TaskOf(h)
        => g = h

\* The workers and the coordinator never lose sight of each other
\* (_active_executions against the executor and the capacity manager), except
\* behind an interrupt that tore a unit of work apart; and even then no task
\* runs twice at once.
WorkersAreAccountedFor ==
    /\ interrupted # "within" => EveryExecutionIsOwned
    /\ OneLiveWorkerPerTask

\* run() raises for a refused submission only, of which it leaves exactly one
\* record behind.  None of its invariant errors is raised: every completion is
\* of an execution that may still settle, the executor has a place whenever the
\* capacity manager has one, a cancellation drains every RUNNING task, and the
\* loop never ends without progress.
RaisesOnlyWhenRefused ==
    pc = "raised" =>
        /\ \E h \in Attempts : RefusedSubmission(h)
        /\ \A g, h \in Attempts : RefusedSubmission(g) /\ RefusedSubmission(h) => g = h

\* A run that returned has settled: no execution is left, the status of the
\* run follows from its tasks, and no task is left open, except behind an
\* interrupt that hits a run already failed (a sibling's retry stays RUNNING).
ReturnedRunLeavesNothing ==
    pc = "returned" =>
        /\ active = {} /\ queue = << >> /\ run \in WorkflowTerminal
        /\ ~ (failed /\ interrupted = "between") =>
              \A t \in Tasks : task[t] \in TaskTerminal
        /\ run = "SUCCEEDED" => \A t \in Tasks : task[t] = "SUCCEEDED"
        /\ run = "FAILED" => \E t \in Tasks : task[t] = "FAILED"

\* The task follows the attempts it is made of: it succeeded with its last
\* one, failed with its last one, and an outcome that came after the timeout
\* of its attempt is never counted.
TaskFollowsAttempts ==
    \A t \in Tasks, n \in 1 .. AttemptBound :
        /\ attempt[<<t, n>>] # Absent
        /\ n < AttemptBound => attempt[<<t, n + 1>>] = Absent
        /\ task[t] \in {"SUCCEEDED", "FAILED"}
        => attempt[<<t, n>>] = task[t]

\* The records tell what the attempts came to, to the end of the run, whatever
\* timeouts, failures, refusals and cancellations meet (application/
\* concurrent_runner.py).  Behind an interrupt within a unit of work tasks may
\* stay RUNNING; what has succeeded or failed is still told truthfully.
RecordsFollowWork ==
    /\ TaskFollowsAttempts
    /\ interrupted # "within" => RaisesOnlyWhenRefused /\ ReturnedRunLeavesNothing

\* A cancellation that is requested while a sibling of the failed task waits
\* for its retry: the retry is never dispatched and never dropped.
RetryIsStranded == failed /\ cancelRequested /\ Pending # {}

\* run() returns, unless a retry is stranded, a submission is refused or an
\* interrupt tears a unit of work apart.
RunnerReturns ==
    <>(\/ pc = "returned"
       \/ RetryIsStranded
       \/ \E h \in Attempts : RefusedSubmission(h)
       \/ interrupted = "within")

=============================================================================
