---------------------------- MODULE ThreadExecutor ----------------------------
(***************************************************************************)
(* executors/thread.py: a bounded pool of threads with an unbounded queue. *)
(* A thread cannot be stopped.  cancel() is not supported.                 *)
(***************************************************************************)
EXTENDS ExecutorCalls

PoolBusy == {a \in Attempts : executor = "thread" /\ work[a] = "running"}

RejectsHandler(a) == executor = "thread" /\ Rejects(a)

\* execute(): deadline and shutdown checks, then pool.submit under the lock.
SubmitToPool(a) ==
    /\ executor = "thread" /\ At(a, "new") /\ IsOpen
    /\ Goes(a, "waiting")
    /\ Becomes(a, "queued")
    /\ UNCHANGED <<executor, outcome, active, completed, cancelRequested, answer, closing>>

\* A free thread takes work from the queue, also after shutdown().
PoolStarts(a) ==
    /\ executor = "thread" /\ work[a] = "queued"
    /\ Cardinality(PoolBusy) < MaxWorkers
    /\ Becomes(a, "running")
    /\ UNCHANGED <<executor, call, outcome, active, completed, cancelRequested,
                   answer, closing>>

PoolFinishes(a) ==
    /\ executor = "thread" /\ work[a] = "running"
    /\ Becomes(a, "ended") /\ Leaves(a, "handler")
    /\ UNCHANGED <<executor, call, active, completed, cancelRequested, answer, closing>>

FutureResult(a) ==
    /\ executor = "thread" /\ At(a, "waiting") /\ work[a] = "ended"
    /\ Returns(a, outcome[a])
    /\ UNCHANGED <<executor, work, outcome, active, completed, cancelRequested,
                   answer, closing>>

\* future.cancel() succeeds as long as no thread has taken the work.
TimeoutResult(a) == IF work[a] = "queued" THEN "known_timeout" ELSE "soft_timeout"

FutureTimesOut(a) ==
    /\ executor = "thread" /\ At(a, "expired")
    /\ Returns(a, TimeoutResult(a))
    /\ work' = [work EXCEPT ![a] = IF @ = "queued" THEN "withdrawn" ELSE @]
    /\ UNCHANGED <<executor, outcome, active, completed, cancelRequested, answer, closing>>

\* pool.shutdown(wait, cancel_futures=False).
ShutdownPool ==
    /\ executor = "thread"
    /\ \E wait \in BOOLEAN : ClosesWith(IF wait THEN "waiting" ELSE "returned", wait)
    /\ UNCHANGED <<executor, call, work, outcome, active, completed,
                   cancelRequested, answer>>

PoolJoined ==
    /\ executor = "thread" /\ closing.at = "waiting"
    /\ \A a \in Attempts : ~ Live(a)
    /\ closing' = [closing EXCEPT !.at = "returned"]
    /\ UNCHANGED <<executor, call, work, outcome, active, completed,
                   cancelRequested, answer>>

ThreadStep(a) ==
    \/ RejectsHandler(a) \/ SubmitToPool(a) \/ PoolStarts(a) \/ FutureResult(a) \/ FutureTimesOut(a)

=============================================================================
