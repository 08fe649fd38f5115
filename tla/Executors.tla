------------------------------ MODULE Executors ------------------------------
(***************************************************************************)
(* The V2 executors under one specification: the same callers, deadlines   *)
(* and properties for each of them.                                        *)
(***************************************************************************)
EXTENDS ThreadExecutor, AsyncExecutor, ProcessExecutor, SubprocessExecutor

executorVars == <<callVars, asyncVars>>

ExecutorsInit == CallsInit /\ AsyncInit

\* InlineExecutor runs the workload in its caller.  It has no deadline, no
\* cancel() and no shutdown().
RunsInline(a) ==
    /\ executor = "inline"
    /\ \/ Rejects(a)
       \/ /\ At(a, "new")
          /\ Goes(a, "waiting") /\ Becomes(a, "running")
          /\ UNCHANGED <<executor, outcome, active, completed, cancelRequested,
                         answer, closing>>

\* An exception of the handler becomes a failure as well.
ReturnsInline(a) ==
    /\ executor = "inline" /\ work[a] = "running"
    /\ Becomes(a, "ended") /\ Returns(a, "handler")
    /\ UNCHANGED <<executor, outcome, active, completed, cancelRequested, answer, closing>>

\* Only AsyncExecutor waits for an event rather than for the workload.
DeadlinePasses(a) == executor \notin {"async", "inline"} /\ TimesOut(a)

CallStepOf(a) ==
    \/ (PassedDeadline(a) \/ Refuses(a) \/ DeadlinePasses(a)) /\ UNCHANGED asyncVars
    \/ (RunsInline(a) \/ ThreadStep(a) \/ ProcessStep(a) \/ SubprocessStep(a)) /\ UNCHANGED asyncVars
    \/ AsyncStep(a)

WorkloadEnds(a) ==
    \/ (ReturnsInline(a) \/ PoolFinishes(a) \/ ChildSends(a) \/ ProgramEnds(a)) /\ UNCHANGED asyncVars
    \/ CoroutineEnds(a)

Cancels(a) ==
    \/ CancelProcess(a) /\ UNCHANGED asyncVars
    \/ CancelCoroutine(a)

ShutdownStarts ==
    \/ (ShutdownPool \/ ShutdownChildren \/ ShutdownPrograms) /\ UNCHANGED asyncVars
    \/ ShutdownLoop

ShutdownStep ==
    \/ (PoolJoined \/ ChildrenJoined \/ ProgramsJoined) /\ UNCHANGED asyncVars
    \/ \E a \in Attempts : (JoinChild(a) \/ JoinProgram(a)) /\ UNCHANGED asyncVars
    \/ LoopCloses

ExecutorsNext ==
    \/ \E a \in Attempts :
          \/ CallStepOf(a) \/ WorkloadEnds(a) \/ Cancels(a)
          \/ ChildExits(a) /\ UNCHANGED asyncVars
    \/ ShutdownStarts \/ ShutdownStep

\* A workload with a deadline may run for ever, except where a deadline does
\* not free the thread that others need.
Ends(a) == (a \notin Deadlined \/ executor \in {"inline", "thread"}) /\ WorkloadEnds(a)

\* A child that has sent its result exits.
ExitsAfterSending(a) == work[a] = "sent" /\ ChildExits(a) /\ UNCHANGED asyncVars

\* Threads and event loops run, deadlines pass, and workloads end as above.
ExecutorsFairness ==
    /\ \A a \in Attempts :
          /\ WF_executorVars(CallStepOf(a) /\ ~ At(a, "new"))
          /\ WF_executorVars(Ends(a))
          /\ WF_executorVars(ExitsAfterSending(a))
    /\ WF_executorVars(ShutdownStep)

ExecutorsSpec == ExecutorsInit /\ [][ExecutorsNext]_executorVars
ExecutorsFairSpec == ExecutorsSpec /\ ExecutorsFairness

-----------------------------------------------------------------------------

\* Every variable keeps to the results, statuses and registers of the code.
ExecutorsTypeOK ==
    /\ executor \in ExecutorKinds
    /\ call \in [Attempts -> [at: CallStep, result: Result]]
    /\ work \in [Attempts -> WorkState]
    /\ outcome \in [Attempts -> {"none", "handler", "cancelled"}]
    /\ active \subseteq Attempts /\ completed \subseteq Attempts
    /\ cancelRequested \subseteq Attempts
    /\ answer \in [Attempts -> CancellationStatus \cup {"none"}]
    /\ closing \in [at: {"open", "waiting", "returned", "raised"},
                    wait: BOOLEAN, of: SUBSET Attempts]
    /\ done \subseteq Attempts /\ detached \subseteq Attempts
    /\ loop \in {"running", "closed"}

\* A result that is not uncertain is final, which is what lets the runtime
\* retry after it: when execute() has returned anything but a soft timeout,
\* or raised, its workload does not run and never will.
KnownOutcomeIsFinal ==
    \A a \in Attempts :
        At(a, "returned") /\ call[a].result # "soft_timeout" => ~ Live(a)

\* cancel() says CONFIRMED or ALREADY_TERMINAL only of a workload that is
\* over for good, at whatever point of the call, the timeout or the shutdown.
CancelAnswersAreTrue ==
    \A a \in Attempts :
        answer[a] \in {"CONFIRMED", "ALREADY_TERMINAL"} => ~ Live(a)

\* What the runtime is told of a workload, by its result or by the answer to a
\* cancellation, stays true (executors/contracts.py).
ToldOutcomesAreFinal == KnownOutcomeIsFinal /\ CancelAnswersAreTrue

\* A program whose cancellation was confirmed is reported as cancelled or as
\* timed out, never with its own result.
ConfirmedProgramIsNotResult ==
    \A a \in Attempts :
        executor = "subprocess" /\ answer[a] = "CONFIRMED" =>
            call[a].result \notin {"handler", "exited"}

\* Pool, event loop and child processes stay within their capacity, the
\* coroutines included whose calls gave up on them.  SubprocessExecutor does
\* not: it checks its capacity before it registers.
WorkWithinCapacity ==
    executor \notin {"inline", "subprocess"} =>
        Cardinality({a \in Attempts : work[a] \in {"running", "sent"}}) <= MaxWorkers

\* Whatever runs is in _active, where cancel() and shutdown() find it, except
\* for a program between Popen() and its registration.
WorkIsTracked ==
    \A a \in Attempts :
        executor \notin {"inline", "thread"} /\ Live(a) => a \in active \/ At(a, "register")

\* After shutdown(wait=True) has returned, nothing is left running.  A program
\* registered meanwhile is missed, and a joined process may already be closed.
ShutdownLeavesNothing ==
    closing.at = "returned" /\ closing.wait /\ executor # "subprocess" =>
        \A a \in Attempts : ~ Live(a)

\* Nothing runs beyond the capacity, out of reach of cancel() and shutdown() or
\* behind a shutdown() that waited (the _active registers of executors/).
WorkIsHeld == WorkWithinCapacity /\ WorkIsTracked /\ ShutdownLeavesNothing

\* Every call of execute() returns: with its deadline, or after its workload.
ExecuteReturns ==
    \A a \in Attempts : ~ At(a, "new") ~> At(a, "returned")

=============================================================================
