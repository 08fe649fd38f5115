---------------------------- MODULE ExecutorCalls ----------------------------
(***************************************************************************)
(* What the V2 executors have in common (executors/contracts.py).  A       *)
(* caller is inside execute() for one attempt, other callers are inside    *)
(* cancel() and shutdown(), and the workload runs on a thread, an event    *)
(* loop or in a process of its own.  Executors share nothing, so that a    *)
(* behaviour is about the attempts sent to one of them.                    *)
(***************************************************************************)
EXTENDS Naturals, FiniteSets

CONSTANTS
    Attempts,      \* the attempts sent to the executor, one call each
    MaxWorkers,    \* max_workers, max_concurrency
    Deadlined      \* the attempts whose request has a deadline

ASSUME ExecutorAssumption ==
    /\ MaxWorkers \in Nat \ {0}
    /\ Deadlined \subseteq Attempts

VARIABLES
    executor,          \* which executor this is
    call,              \* of each attempt, the call of execute()
    work,              \* and its workload
    outcome,           \* what the workload left for execute() to find
    active, completed, \* _active and _completed
    cancelRequested,   \* attempts whose cancellation_requested is set
    answer,            \* what cancel() returned
    closing            \* the call of shutdown()

callVars == <<executor, call, work, outcome, active, completed,
              cancelRequested, answer, closing>>

ExecutorKinds == {"inline", "thread", "async", "process", "subprocess"}

CallStep ==
    {"new", "spawn", "register", "waiting", "expired", "check", "closing", "returned"}

\* "handler" is the result or failure of the workload itself; "soft_timeout"
\* alone is uncertain: it requires reconciliation.
Result ==
    {"none", "handler", "rejected", "cancelled", "known_timeout", "soft_timeout",
     "capacity", "exited", "raised"}

\* A child process is alive for a while after it has "sent" its result.
WorkState == {"none", "queued", "running", "sent", "ended", "withdrawn"}

Live(a) == work[a] \in {"queued", "running", "sent"}

CancellationStatus == {"REQUESTED", "CONFIRMED", "UNCONFIRMED", "ALREADY_TERMINAL"}

CallsInit ==
    /\ executor \in ExecutorKinds
    /\ call = [a \in Attempts |-> [at |-> "new", result |-> "none"]]
    /\ work = [a \in Attempts |-> "none"]
    /\ outcome = [a \in Attempts |-> "none"]
    /\ active = {} /\ completed = {} /\ cancelRequested = {}
    /\ answer = [a \in Attempts |-> "none"]
    /\ closing = [at |-> "open", wait |-> FALSE, of |-> {}]

At(a, step) == call[a].at = step

Goes(a, step) == call' = [call EXCEPT ![a].at = step]

Keeps(a, step, result) == call' = [call EXCEPT ![a] = [at |-> step, result |-> result]]

Returns(a, result) == Keeps(a, "returned", result)

Becomes(a, state) == work' = [work EXCEPT ![a] = state]

Leaves(a, left) == outcome' = [outcome EXCEPT ![a] = left]

IsOpen == closing.at = "open"

\* The request is not for this executor, or its workload cannot be found,
\* called, serialized or allowed: a known failure, and nothing was started.
Rejects(a) ==
    /\ At(a, "new")
    /\ Returns(a, "rejected")
    /\ UNCHANGED <<executor, work, outcome, active, completed, cancelRequested,
                   answer, closing>>

\* The deadline may have passed before anything is started.
PassedDeadline(a) ==
    /\ At(a, "new") /\ a \in Deadlined /\ executor # "inline"
    /\ Returns(a, "known_timeout")
    /\ UNCHANGED <<executor, work, outcome, active, completed, cancelRequested,
                   answer, closing>>

HasCapacity == Cardinality(active) < MaxWorkers

\* The check before a start; the thread pool has a queue instead.
Refuses(a) ==
    /\ At(a, "new") /\ executor # "inline"
    /\ \/ ~ IsOpen /\ Returns(a, "raised")
       \/ IsOpen /\ executor # "thread" /\ ~ HasCapacity /\ Returns(a, "capacity")
    /\ UNCHANGED <<executor, work, outcome, active, completed, cancelRequested,
                   answer, closing>>

Admits(a) == At(a, "new") /\ IsOpen /\ HasCapacity

Answers(a, status) == answer' = [answer EXCEPT ![a] = status]

\* Hard termination: terminate(), and kill() after the grace period.
HardStops(a) == Becomes(a, "ended")

\* cancel() of the executors with a process: a lock is held until the
\* process is gone.
CancelProcess(a) ==
    /\ executor \in {"process", "subprocess"} /\ answer[a] = "none"
    /\ IF a \notin active
       THEN /\ Answers(a, IF a \in completed THEN "ALREADY_TERMINAL" ELSE "UNCONFIRMED")
            /\ UNCHANGED <<work, cancelRequested>>
       ELSE IF work[a] = "ended"
       THEN Answers(a, "ALREADY_TERMINAL") /\ UNCHANGED <<work, cancelRequested>>
       ELSE /\ Answers(a, "CONFIRMED")
            /\ cancelRequested' = cancelRequested \cup {a}
            /\ HardStops(a)
    /\ UNCHANGED <<executor, call, outcome, active, completed, closing>>

\* Deadline and wait: the workload is still there when the wait times out.
TimesOut(a) ==
    /\ At(a, "waiting") /\ a \in Deadlined
    /\ work[a] \in {"queued", "running"}
    /\ Goes(a, "expired")
    /\ UNCHANGED <<executor, work, outcome, active, completed, cancelRequested,
                   answer, closing>>

\* shutdown() notes the executions in flight.
ClosesWith(step, wait) ==
    /\ IsOpen
    /\ closing' = [at |-> step, wait |-> wait, of |-> active]

=============================================================================
