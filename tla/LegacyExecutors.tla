--------------------------- MODULE LegacyExecutors ---------------------------
(***************************************************************************)
(* The V1 executors (adapters/executors/): submit() starts the workload of *)
(* one attempt and returns a handle, and its completion arrives later on   *)
(* the completion queue.  In between, cancel() or terminate() may be       *)
(* called for the handle and shutdown() for the executor, each on a thread *)
(* of its own.  A step is what one thread does under the executor's lock,  *)
(* or between two of them.  The synchronous execute() shares no state with *)
(* this and is left out.                                                   *)
(***************************************************************************)
EXTENDS Naturals, Sequences, FiniteSets

CONSTANTS
    Handles,       \* one for each attempt
    MaxWorkers,    \* max_workers, max_concurrency
    Kinds,         \* the executors considered
    Endless        \* child processes that only end when they are stopped

VARIABLES
    kind,                \* which executor this is
    submit,              \* of each handle, the call of submit()
    active, completed,   \* _active and _completed_handle_ids
    asked,               \* _pending_cancellations, termination_requested
    worker, outcome,     \* the workload, and what it came to
    finish, queue,       \* _finish_handle, and the CompletionQueue
    stop,                \* of each handle, the call of cancel() or terminate()
    closing,             \* the call of shutdown()
    loop                 \* the event loop of AsyncExecutor

records == <<active, completed, asked>>
workload == <<worker, outcome>>
delivery == <<finish, queue>>
legacyVars == <<kind, submit, records, workload, delivery, stop, closing, loop>>

LegacyInit ==
    /\ kind \in Kinds
    /\ submit = [h \in Handles |-> "new"]
    /\ active = {} /\ completed = {} /\ asked = {}
    /\ worker = [h \in Handles |-> "none"] /\ outcome = [h \in Handles |-> "none"]
    /\ finish = [h \in Handles |-> "none"] /\ queue = << >>
    /\ stop = [h \in Handles |-> "none"]
    /\ closing = [at |-> "open", wait |-> FALSE, of |-> {}]
    /\ loop = "running"

Accepted(h) == submit[h] \notin {"new", "refused"}

Live(h) == worker[h] \in {"running", "sent"}

Submits(h, step) == submit' = [submit EXCEPT ![h] = step]

Works(h, state) == worker' = [worker EXCEPT ![h] = state]

Ends(h, o) == Works(h, "ended") /\ outcome' = [outcome EXCEPT ![h] = o]

-----------------------------------------------------------------------------
(* submit()                                                                *)

HasPlace == Cardinality(active) < MaxWorkers

\* The checks under the lock; the thread pool queues instead of refusing.
\* A second submission of an attempt is refused and changes nothing.
Refuses(h) ==
    /\ submit[h] = "new"
    /\ \/ closing.at # "open"
       \/ kind # "thread" /\ ~ HasPlace
    /\ Submits(h, "refused")
    /\ UNCHANGED <<kind, records, workload, delivery, stop, closing, loop>>

\* A task of another executor, or a handler or context that cannot be called
\* or pickled.
RejectsSubmission(h) ==
    /\ submit[h] = "new"
    /\ Submits(h, "refused")
    /\ UNCHANGED <<kind, records, workload, delivery, stop, closing, loop>>

\* The handle is registered, with a place in _active.
Registers(h, step) ==
    /\ submit[h] = "new" /\ closing.at = "open"
    /\ active' = active \cup {h}
    /\ Submits(h, step)
    /\ UNCHANGED <<kind, completed, asked, outcome, delivery, stop, closing, loop>>

QueuesInPool(h) == kind = "thread" /\ Registers(h, "returned") /\ Works(h, "queued")

\* The child is started under the same lock.
StartsChild(h) ==
    kind = "process" /\ HasPlace /\ Registers(h, "returned") /\ Works(h, "running")

RegistersCoroutine(h) ==
    kind = "async" /\ HasPlace /\ Registers(h, "registered") /\ UNCHANGED worker

RegistersProgram(h) ==
    kind = "subprocess" /\ HasPlace /\ Registers(h, "registered") /\ UNCHANGED worker

\* call_soon_threadsafe of _schedule_task; the loop is not closed while a
\* handle is active.
HandsToLoop(h) ==
    /\ kind = "async" /\ submit[h] = "registered"
    /\ Submits(h, "returned") /\ Works(h, "queued")
    /\ UNCHANGED <<kind, records, outcome, delivery, stop, closing, loop>>

\* Leaving _active, and the event that wait() waits for.
Leaves(h) ==
    /\ active' = active \ {h}
    /\ completed' = completed \cup {h}
    /\ asked' = asked \ {h}

\* Resolving the command, its security policy or Popen() fails.
CommandFails(h) ==
    /\ kind = "subprocess" /\ submit[h] = "registered"
    /\ Submits(h, "returned")
    /\ Ends(h, "error") /\ Leaves(h)
    /\ finish' = [finish EXCEPT ![h] = "left"]
    /\ UNCHANGED <<kind, queue, stop, closing, loop>>

Spawns(h) ==
    /\ kind = "subprocess" /\ submit[h] = "registered"
    /\ Submits(h, "spawned") /\ Works(h, "running")
    /\ UNCHANGED <<kind, records, outcome, delivery, stop, closing, loop>>

\* Mutant: a termination asked for during the spawn is forgotten.
KeepsProcessRunning(h) ==
    /\ kind = "subprocess" /\ submit[h] = "spawned"
    /\ Submits(h, "returned")
    /\ UNCHANGED <<kind, records, workload, delivery, stop, closing, loop>>

\* The process is kept for terminate(), and ended if that was asked for.
KeepsProcess(h) ==
    /\ kind = "subprocess" /\ submit[h] = "spawned"
    /\ Submits(h, "returned")
    /\ IF h \in asked /\ Live(h) THEN Ends(h, "error") ELSE UNCHANGED workload
    /\ UNCHANGED <<kind, records, delivery, stop, closing, loop>>

-----------------------------------------------------------------------------
(* The workload.                                                           *)

PoolStarts(h) ==
    /\ kind = "thread" /\ worker[h] = "queued"
    /\ Cardinality({g \in Handles : Live(g)}) < MaxWorkers
    /\ Works(h, "running")
    /\ UNCHANGED <<kind, submit, records, outcome, delivery, stop, closing, loop>>

\* _schedule_task on the loop: a task cancelled before its first step never
\* runs its handler.
LoopStarts(h) ==
    /\ kind = "async" /\ worker[h] = "queued" /\ loop # "closed"
    /\ IF h \in asked THEN Ends(h, "cancelled") ELSE Works(h, "running") /\ UNCHANGED outcome
    /\ UNCHANGED <<kind, submit, records, delivery, stop, closing, loop>>

\* A workload is over.
Comes(h, outcomes) ==
    /\ worker[h] = "running"
    /\ \E o \in outcomes : Ends(h, o)
    /\ UNCHANGED <<kind, submit, records, delivery, stop, closing, loop>>

\* invoke_python_handler: every exception becomes an error.
HandlerEnds(h) == kind = "thread" /\ Comes(h, {"result", "error"})

\* A coroutine may answer its cancellation or ignore it.
CoroutineEnds(h) ==
    kind = "async"
      /\ Comes(h, {"result", "error"} \cup (IF h \in asked THEN {"cancelled"} ELSE {}))

\* Exit code, captured output and its policy make the result.
ProgramEnds(h) == kind = "subprocess" /\ Comes(h, {"result", "error"})

\* A child sends a result, a failure, or that its result cannot be pickled.
ChildSends(h) ==
    /\ kind = "process" /\ worker[h] = "running"
    /\ Works(h, "sent")
    /\ \E o \in {"result", "error"} : outcome' = [outcome EXCEPT ![h] = o]
    /\ UNCHANGED <<kind, submit, records, delivery, stop, closing, loop>>

WorkEnds(h) == HandlerEnds(h) \/ CoroutineEnds(h) \/ ProgramEnds(h) \/ ChildSends(h)

\* A child process exits, with or without having sent anything.
ChildExits(h) ==
    /\ kind = "process" /\ Live(h)
    /\ Works(h, "ended")
    /\ UNCHANGED <<kind, submit, records, outcome, delivery, stop, closing, loop>>

-----------------------------------------------------------------------------
(* The completion.                                                         *)

\* The handle leaves under the lock ...
Finishes(h, o, step) ==
    /\ h \in active /\ submit[h] = "returned"
    /\ Leaves(h)
    /\ outcome' = [outcome EXCEPT ![h] = o]
    /\ finish' = [finish EXCEPT ![h] = step]
    /\ UNCHANGED <<kind, submit, worker, queue, stop, closing, loop>>

\* The future is done.
FutureFinishes(h) ==
    kind = "thread" /\ worker[h] = "ended" /\ Finishes(h, outcome[h], "left")

\* Mutant: the handle is released as soon as its message is received.
JoinedOnMessage(h) == worker[h] \in {"sent", "ended"}

ChildJoined(h) == worker[h] = "ended"

\* The message of the child, restored; what is no message is an error.
FromMessage(o) == IF o = "none" THEN "error" ELSE o

\* The watcher, after the message or the end of the pipe.
WatcherFinishes(h) ==
    /\ kind = "process" /\ ChildJoined(h)
    /\ Finishes(h, FromMessage(outcome[h]), "left")

\* stop_when_idle is looked at with the last handle.
StopsLoop(h) == closing.at = "returned" /\ ~ closing.wait /\ active = {h}

CoroutineFinishes(h) ==
    /\ kind = "async" /\ worker[h] = "ended"
    /\ Finishes(h, outcome[h], IF StopsLoop(h) THEN "stops" ELSE "left")

ProgramFinishes(h) ==
    kind = "subprocess" /\ worker[h] = "ended" /\ Finishes(h, outcome[h], "left")

\* ... and its completion is queued after it.
Publishes(h) ==
    /\ finish[h] \in {"left", "stops"}
    /\ finish' = [finish EXCEPT ![h] = "put"]
    /\ queue' = Append(queue, [handle |-> h, outcome |-> outcome[h]])
    /\ loop' = IF finish[h] = "stops" THEN "stopping" ELSE loop
    /\ UNCHANGED <<kind, submit, records, workload, stop, closing>>

-----------------------------------------------------------------------------
(* cancel() and terminate()                                                *)

Answers(h, a) == stop' = [stop EXCEPT ![h] = a]

\* cancel() of a coroutine looks at the handle, then asks the loop; after the
\* loop is closed it raises.
AsksLoop(h) ==
    /\ kind = "async" /\ Accepted(h) /\ stop[h] = "none"
    /\ Answers(h, IF h \in completed THEN "false"
                  ELSE IF loop = "closed" THEN "raised" ELSE "asking")
    /\ UNCHANGED <<kind, submit, records, workload, delivery, closing, loop>>

Stoppable(h) == h \in active /\ worker[h] # "ended"

\* request_cancellation, on the loop.
LoopAnswers(h) ==
    /\ stop[h] = "asking" /\ loop # "closed"
    /\ IF Stoppable(h)
       THEN asked' = asked \cup {h} /\ Answers(h, "true")
       ELSE Answers(h, "false") /\ UNCHANGED asked
    /\ UNCHANGED <<kind, submit, active, completed, workload, delivery, closing, loop>>

\* terminate(), join() and at last kill(): the child is gone, and what it has
\* sent stays in the pipe.
ChildIsStopped(h) == Works(h, "ended")

TerminatesChild(h) ==
    /\ kind = "process" /\ Accepted(h) /\ stop[h] = "none"
    /\ IF Stoppable(h)
       THEN Answers(h, "true") /\ ChildIsStopped(h)
       ELSE Answers(h, "false") /\ UNCHANGED worker
    /\ UNCHANGED <<kind, submit, records, outcome, delivery, closing, loop>>

\* A program that is not kept yet is ended when it is.
StopsProgram(h) ==
    IF submit[h] # "returned"
    THEN asked' = asked \cup {h} /\ UNCHANGED workload
    ELSE Ends(h, "error") /\ UNCHANGED asked

ToStop(h) == h \in active /\ (submit[h] # "returned" \/ worker[h] # "ended")

TerminatesProgram(h) ==
    /\ kind = "subprocess" /\ Accepted(h) /\ stop[h] = "none"
    /\ IF ToStop(h)
       THEN Answers(h, "true") /\ StopsProgram(h)
       ELSE Answers(h, "false") /\ UNCHANGED <<asked, workload>>
    /\ UNCHANGED <<kind, submit, active, completed, delivery, closing, loop>>

-----------------------------------------------------------------------------
(* shutdown()                                                              *)

Closes(wait) == closing.at = "open" /\ closing' = [at |-> "waiting", wait |-> wait, of |-> active]

ShutdownStarts ==
    /\ kind # "process"
    /\ \E wait \in BOOLEAN : Closes(wait)
    /\ UNCHANGED <<kind, submit, records, workload, delivery, stop, loop>>

\* Children are terminated under the lock that closes the executor.
ShutdownTerminates ==
    /\ kind = "process"
    /\ \E wait \in BOOLEAN :
          /\ Closes(wait)
          /\ worker' = IF wait THEN worker
                       ELSE [h \in Handles |-> IF Live(h) THEN "ended" ELSE worker[h]]
    /\ UNCHANGED <<kind, submit, records, outcome, delivery, stop, loop>>

Stopping(h) == closing.at = "waiting" /\ ~ closing.wait /\ h \in closing.of

Passed(h) == closing' = [closing EXCEPT !.of = @ \ {h}]

\* shutdown(wait=False) asks for each handle in turn: cancel() ...
ShutdownCancels(h) ==
    /\ kind = "async" /\ Stopping(h) /\ loop # "closed" /\ Passed(h)
    /\ asked' = IF Stoppable(h) THEN asked \cup {h} ELSE asked
    /\ UNCHANGED <<kind, submit, active, completed, workload, delivery, stop, loop>>

\* ... or terminate().
ShutdownEndsProgram(h) ==
    /\ kind = "subprocess" /\ Stopping(h) /\ Passed(h)
    /\ IF ToStop(h) THEN StopsProgram(h) ELSE UNCHANGED <<asked, workload>>
    /\ UNCHANGED <<kind, submit, active, completed, delivery, stop, loop>>

\* A thread of the pool also runs the callback that publishes.
PoolJoined == closing.wait => \A h \in Handles : Accepted(h) => finish[h] = "put"

WatchersJoined == \A h \in closing.of : finish[h] = "put"

LoopJoined == IF closing.wait THEN loop = "closed" ELSE closing.of = {}

\* The watchers still in _active are none by then.
ProgramsWaitedFor ==
    IF closing.wait THEN closing.of \subseteq completed ELSE closing.of = {}

ShutdownReturns ==
    /\ closing.at = "waiting"
    /\ \/ kind = "thread" /\ PoolJoined
       \/ kind = "process" /\ WatchersJoined
       \/ kind = "async" /\ LoopJoined
       \/ kind = "subprocess" /\ ProgramsWaitedFor
    /\ closing' = [closing EXCEPT !.at = "returned"]
    /\ loop' = IF kind = "async" /\ ~ closing.wait /\ active = {} THEN "stopping" ELSE loop
    /\ UNCHANGED <<kind, submit, records, workload, delivery, stop>>

\* _request_loop_stop, after the last event was set.
RequestsLoopStop ==
    /\ kind = "async" /\ closing.at = "waiting" /\ closing.wait
    /\ closing.of \subseteq completed /\ loop = "running"
    /\ loop' = "stopping"
    /\ UNCHANGED <<kind, submit, records, workload, delivery, stop, closing>>

\* The loop is not stopped inside a callback; what was handed to it meanwhile
\* is dropped.
LoopCloses ==
    /\ loop = "stopping"
    /\ \A h \in Handles : finish[h] \notin {"left", "stops"}
    /\ loop' = "closed"
    /\ UNCHANGED <<kind, submit, records, workload, delivery, stop, closing>>

-----------------------------------------------------------------------------

SubmitStep(h) ==
    \/ Refuses(h) \/ RejectsSubmission(h) \/ QueuesInPool(h) \/ StartsChild(h)
    \/ RegistersCoroutine(h) \/ HandsToLoop(h)
    \/ RegistersProgram(h) \/ CommandFails(h) \/ Spawns(h) \/ KeepsProcess(h)

ExecutorStep(h) ==
    \/ PoolStarts(h) \/ LoopStarts(h) \/ LoopAnswers(h)
    \/ FutureFinishes(h) \/ WatcherFinishes(h) \/ CoroutineFinishes(h)
    \/ ProgramFinishes(h) \/ Publishes(h)

ShutdownStep ==
    \/ \E h \in Handles : ShutdownCancels(h) \/ ShutdownEndsProgram(h)
    \/ RequestsLoopStop \/ LoopCloses \/ ShutdownReturns

LegacyNext ==
    \/ \E h \in Handles :
          \/ SubmitStep(h) \/ ExecutorStep(h) \/ WorkEnds(h) \/ ChildExits(h)
          \/ AsksLoop(h) \/ TerminatesChild(h) \/ TerminatesProgram(h)
    \/ ShutdownStarts \/ ShutdownTerminates \/ ShutdownStep

EndsByItself(h) == h \notin Endless \/ kind \in {"thread", "async"}

\* Threads, pools and loops run, a workload ends, a child exits once it has
\* sent its message.  Nothing has to be submitted, stopped or shut down.
LegacyFairness ==
    /\ \A h \in Handles :
          /\ WF_legacyVars(SubmitStep(h) /\ submit[h] # "new")
          /\ WF_legacyVars(ExecutorStep(h))
          /\ WF_legacyVars(EndsByItself(h) /\ WorkEnds(h))
          /\ WF_legacyVars(worker[h] = "sent" /\ ChildExits(h))
    /\ WF_legacyVars(ShutdownStep)

LegacySpec == LegacyInit /\ [][LegacyNext]_legacyVars
LegacyFairSpec == LegacySpec /\ LegacyFairness

-----------------------------------------------------------------------------

\* A place given back is free: whatever runs holds one of the max_workers
\* places and is found by terminate() and shutdown(), through every timeout
\* and cancellation, because a handle leaves _active only after its workload
\* is over (process.join() and done callbacks come before the release).
PlacesAreHeldByLiveWork ==
    /\ \A h \in Handles : Live(h) => h \in active
    /\ Cardinality({h \in Handles : Live(h)}) <= MaxWorkers

\* When shutdown(wait=True) has returned, nothing runs and every handle is
\* settled; thread pool and event loop have also queued the completions.  The
\* other two may return just before: a watcher that has taken its handle out
\* of _active is not joined.
ShutdownSettles ==
    closing.at = "returned" /\ closing.wait =>
        \A h \in Handles : Accepted(h) =>
            /\ ~ Live(h) /\ h \in completed
            /\ kind \in {"thread", "async"} => \E i \in DOMAIN queue : queue[i].handle = h

\* From submission to shutdown, a handle stands for what runs behind it
\* (adapters/executors/).
HandlesAreAccountedFor == PlacesAreHeldByLiveWork /\ ShutdownSettles

\* Every accepted submission comes to a completion once its workload ends or
\* terminate() said that it is stopped, asked for before the process was there
\* or after: the runner that waits on the queue is never left waiting.
CompletionArrives ==
    \A h \in Handles :
        Accepted(h) /\ (EndsByItself(h) \/ stop[h] = "true")
            ~> \E i \in DOMAIN queue : queue[i].handle = h

=============================================================================
