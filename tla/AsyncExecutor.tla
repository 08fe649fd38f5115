---------------------------- MODULE AsyncExecutor ----------------------------
(***************************************************************************)
(* executors/asyncio.py: coroutines on an event loop in a thread of its    *)
(* own.  Cancellation is cooperative, a timeout is soft, and a coroutine   *)
(* that outlives its call keeps its place in _active.                      *)
(***************************************************************************)
EXTENDS ExecutorCalls

VARIABLES
    done,       \* attempts whose done_event is set
    detached,   \* attempts whose call gave up waiting
    loop        \* the event loop: "running" or "closed"

asyncVars == <<done, detached, loop>>

AsyncInit == done = {} /\ detached = {} /\ loop = "running"

RejectsCoroutine(a) == executor = "async" /\ Rejects(a) /\ UNCHANGED asyncVars

ScheduleCoroutine(a) ==
    /\ executor = "async" /\ Admits(a)
    /\ active' = active \cup {a}
    /\ Goes(a, "waiting") /\ Becomes(a, "queued")
    /\ UNCHANGED <<executor, outcome, completed, cancelRequested, answer, closing>>
    /\ UNCHANGED asyncVars

\* _start_execution on the loop; a task cancelled before its first step does
\* not enter the handler.
StartExecution(a) ==
    /\ executor = "async" /\ work[a] = "queued"
    /\ IF a \in cancelRequested
       THEN Becomes(a, "ended") /\ Leaves(a, "cancelled")
       ELSE Becomes(a, "running") /\ UNCHANGED outcome
    /\ UNCHANGED <<executor, call, active, completed, cancelRequested, answer, closing>>
    /\ UNCHANGED asyncVars

\* The coroutine ends, or accepts its cancellation.
CoroutineEnds(a) ==
    /\ executor = "async" /\ work[a] = "running"
    /\ Becomes(a, "ended")
    /\ \/ Leaves(a, "handler")
       \/ a \in cancelRequested /\ Leaves(a, "cancelled")
    /\ UNCHANGED <<executor, call, active, completed, cancelRequested, answer, closing>>
    /\ UNCHANGED asyncVars

\* Mutant: a cancelled task is taken for one whose call is gone.
WakesCallerUnlessCancelled(a) ==
    done' = IF outcome[a] = "cancelled" THEN done ELSE done \cup {a}

WakesCaller(a) == done' = done \cup {a}

\* _complete_execution, the callback of the finished task.
CompleteExecution(a) ==
    /\ executor = "async" /\ work[a] = "ended" /\ a \in active /\ a \notin done
    /\ WakesCaller(a)
    /\ IF a \in detached
       THEN active' = active \ {a} /\ completed' = completed \cup {a}
       ELSE UNCHANGED <<active, completed>>
    /\ UNCHANGED <<executor, call, work, outcome, cancelRequested, answer, closing,
                   detached, loop>>

ReturnResult(a) ==
    /\ executor = "async" /\ At(a, "waiting") /\ a \in done
    /\ active' = active \ {a} /\ completed' = completed \cup {a}
    /\ Returns(a, outcome[a])
    /\ UNCHANGED <<executor, work, outcome, cancelRequested, answer, closing>>
    /\ UNCHANGED asyncVars

\* done_event.wait timed out.
WaitTimesOut(a) ==
    /\ executor = "async" /\ At(a, "waiting") /\ a \in Deadlined /\ a \notin done
    /\ Goes(a, "expired")
    /\ UNCHANGED <<executor, work, outcome, active, completed, cancelRequested,
                   answer, closing>>
    /\ UNCHANGED asyncVars

\* Mutant: the call takes its place in _active with it.
KeptByDetachedNone(a) == active \ {a}

KeptByDetached(a) == active

\* The coroutine may have completed meanwhile, and the loop may be closed.
DetachExecution(a) ==
    /\ executor = "async" /\ At(a, "expired")
    /\ detached' = IF a \in active THEN detached \cup {a} ELSE detached
    /\ cancelRequested' = IF a \in active THEN cancelRequested \cup {a} ELSE cancelRequested
    /\ active' = KeptByDetached(a)
    /\ IF a \in active /\ work[a] # "queued" /\ loop = "closed"
       THEN Returns(a, "raised")
       ELSE Returns(a, "soft_timeout")
    /\ UNCHANGED <<executor, work, outcome, completed, answer, closing, done, loop>>

\* Mutant: the cancellation of a task is taken for its end.
AsyncCancelStatusConfirms(a) ==
    IF a \notin active THEN (IF a \in completed THEN "ALREADY_TERMINAL" ELSE "UNCONFIRMED")
    ELSE IF a \in done THEN "ALREADY_TERMINAL" ELSE "CONFIRMED"

AsyncCancelStatus(a) ==
    IF a \notin active THEN (IF a \in completed THEN "ALREADY_TERMINAL" ELSE "UNCONFIRMED")
    ELSE IF a \in done THEN "ALREADY_TERMINAL" ELSE "REQUESTED"

CancelCoroutine(a) ==
    /\ executor = "async" /\ answer[a] = "none"
    /\ Answers(a, AsyncCancelStatus(a))
    /\ cancelRequested' = IF a \in active \ done THEN cancelRequested \cup {a}
                          ELSE cancelRequested
    /\ UNCHANGED <<executor, call, work, outcome, active, completed, closing>>
    /\ UNCHANGED asyncVars

\* Without wait the executions are cancelled and shutdown() is over.
ShutdownLoop ==
    /\ executor = "async"
    /\ \/ ClosesWith("waiting", TRUE) /\ UNCHANGED cancelRequested
       \/ ClosesWith("returned", FALSE) /\ cancelRequested' = cancelRequested \cup active
    /\ UNCHANGED <<executor, call, work, outcome, active, completed, answer>>
    /\ UNCHANGED asyncVars

AwaitedDone == closing.of \subseteq done

\* With wait the loop stops after the done_event of every execution; without,
\* it still runs its cancelled tasks to their end before it closes.
LoopCloses ==
    /\ executor = "async" /\ ~ IsOpen /\ loop = "running"
    /\ IF closing.wait THEN AwaitedDone ELSE \A a \in active : a \in done
    /\ loop' = "closed"
    /\ closing' = [closing EXCEPT !.at = "returned"]
    /\ UNCHANGED <<executor, call, work, outcome, active, completed,
                   cancelRequested, answer, done, detached>>

AsyncStep(a) ==
    \/ RejectsCoroutine(a) \/ ScheduleCoroutine(a) \/ StartExecution(a) \/ CompleteExecution(a)
    \/ ReturnResult(a) \/ DetachExecution(a) \/ WaitTimesOut(a)

=============================================================================
