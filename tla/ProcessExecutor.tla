---------------------------- MODULE ProcessExecutor ----------------------------
(***************************************************************************)
(* executors/process.py: one child process for each attempt, with a pipe   *)
(* on which it sends its result.                                           *)
(***************************************************************************)
EXTENDS ExecutorCalls

\* Handler and inputs must also be picklable.
RejectsChild(a) == executor = "process" /\ Rejects(a)

\* The check and process.start() are one step under the lock.
StartChild(a) ==
    /\ executor = "process" /\ Admits(a)
    /\ active' = active \cup {a}
    /\ Goes(a, "waiting") /\ Becomes(a, "running")
    /\ UNCHANGED <<executor, outcome, completed, cancelRequested, answer, closing>>

ChildSends(a) ==
    /\ executor = "process" /\ work[a] = "running"
    /\ Becomes(a, "sent") /\ Leaves(a, "handler")
    /\ UNCHANGED <<executor, call, active, completed, cancelRequested, answer, closing>>

\* After it has sent its result, or by dying.
ChildExits(a) ==
    /\ executor = "process" /\ work[a] \in {"running", "sent"}
    /\ Becomes(a, "ended")
    /\ UNCHANGED <<executor, call, outcome, active, completed, cancelRequested,
                   answer, closing>>

\* A result can be received from a child that is gone.
ReceiveResult(a) ==
    /\ executor = "process" /\ At(a, "waiting") /\ outcome[a] # "none"
    /\ Keeps(a, "closing", outcome[a])
    /\ UNCHANGED <<executor, work, outcome, active, completed, cancelRequested,
                   answer, closing>>

ExitResult(a) == IF a \in cancelRequested THEN "cancelled" ELSE "exited"

\* recv() meets the end of the pipe: _process_exit_failure.
ReceiveNothing(a) ==
    /\ executor = "process" /\ At(a, "waiting")
    /\ work[a] = "ended" /\ outcome[a] = "none"
    /\ Keeps(a, "closing", ExitResult(a))
    /\ UNCHANGED <<executor, work, outcome, active, completed, cancelRequested,
                   answer, closing>>

\* poll() returned FALSE; the child may have sent its result since.
KillChild(a) ==
    /\ executor = "process" /\ At(a, "expired")
    /\ HardStops(a)
    /\ Keeps(a, "closing", "known_timeout")
    /\ UNCHANGED <<executor, outcome, active, completed, cancelRequested, answer, closing>>

Joined(a) == work[a] = "ended"

\* finally: join, and give the place back.
CloseChild(a) ==
    /\ executor = "process" /\ At(a, "closing") /\ Joined(a)
    /\ active' = active \ {a}
    /\ Goes(a, "returned")
    /\ UNCHANGED <<executor, work, outcome, completed, cancelRequested, answer, closing>>

\* shutdown() takes the processes in flight one after the other, outside the
\* lock; a process whose call has returned is closed and cannot be joined.
ShutdownChildren ==
    /\ executor = "process"
    /\ \E wait \in BOOLEAN : ClosesWith("waiting", wait)
    /\ UNCHANGED <<executor, call, work, outcome, active, completed,
                   cancelRequested, answer>>

JoinChild(a) ==
    /\ executor = "process" /\ closing.at = "waiting" /\ a \in closing.of
    /\ IF At(a, "returned")
       THEN closing' = [closing EXCEPT !.at = "raised"] /\ UNCHANGED work
       ELSE /\ closing.wait => work[a] = "ended"
            /\ closing' = [closing EXCEPT !.of = @ \ {a}]
            /\ IF closing.wait THEN UNCHANGED work ELSE HardStops(a)
    /\ UNCHANGED <<executor, call, outcome, active, completed, cancelRequested, answer>>

ChildrenJoined ==
    /\ executor = "process" /\ closing.at = "waiting" /\ closing.of = {}
    /\ closing' = [closing EXCEPT !.at = "returned"]
    /\ UNCHANGED <<executor, call, work, outcome, active, completed,
                   cancelRequested, answer>>

ProcessStep(a) ==
    \/ RejectsChild(a) \/ StartChild(a) \/ ReceiveResult(a) \/ ReceiveNothing(a) \/ KillChild(a)
    \/ CloseChild(a)

=============================================================================
