----------------------------- MODULE RunLedger -----------------------------
(***************************************************************************)
(* What a client of the runtime may believe about one workflow run, in     *)
(* terms of what the durable records mean and of nothing else: no threads, *)
(* no copies, no cancellation protocol.  A task is open until it gets its  *)
(* verdict, the run is open until it gets its own.                         *)
(***************************************************************************)

CONSTANTS
    Tasks,
    Dependencies     \* Dependencies[t]: the tasks that t depends on

VARIABLES
    run,             \* Open, or the verdict of the run
    tasks,           \* tasks[t]: Open, or the verdict of the task
    last,            \* last[t]: Nothing, Live, or how the last attempt ended
    outputs          \* the tasks whose output is recorded

ledger == <<run, tasks, last, outputs>>

Open == "open"
Nothing == "nothing"
Live == "live"

Failures == {"FAILED", "TIMED_OUT"}
Passes == {"SUCCEEDED", "SKIPPED", "REUSED"}
TaskVerdicts == Passes \cup Failures \cup {"CANCELLED"}
RunVerdicts == {"SUCCEEDED", "CANCELLED"} \cup Failures
Ends == {"SUCCEEDED", "CANCELLED"} \cup Failures

Init ==
    /\ run = Open
    /\ tasks = [t \in Tasks |-> Open]
    /\ last = [t \in Tasks |-> Nothing]
    /\ outputs = {}

\* An attempt begins: the task is open, the tasks it depends on are not, and
\* nothing but a failure came before.
Try(t) ==
    /\ tasks[t] = Open
    /\ \A d \in Dependencies[t] : tasks[d] # Open
    /\ last[t] \in Failures \cup {Nothing}
    /\ last' = [last EXCEPT ![t] = Live]
    /\ UNCHANGED <<run, tasks, outputs>>

EndTry(t) ==
    /\ last[t] = Live
    /\ \E end \in Ends : last' = [last EXCEPT ![t] = end]
    /\ UNCHANGED <<run, tasks, outputs>>

\* What the attempts of a task must say for a verdict to be given.
Justified(t, verdict) ==
    CASE verdict \in Failures \cup {"SUCCEEDED"} -> last[t] = verdict
      [] verdict = "CANCELLED" -> last[t] \in {Nothing, "CANCELLED"}
      [] verdict \in {"SKIPPED", "REUSED"} -> last[t] = Nothing

Settle(t) ==
    /\ tasks[t] = Open
    /\ \E verdict \in TaskVerdicts :
          /\ Justified(t, verdict)
          /\ tasks' = [tasks EXCEPT ![t] = verdict]
    /\ UNCHANGED <<run, last, outputs>>

Record(t) ==
    /\ tasks[t] \in {"SUCCEEDED", "REUSED"}
    /\ outputs' = outputs \cup {t}
    /\ UNCHANGED <<run, tasks, last>>

\* Only a cancelled run may leave open tasks behind.
Close ==
    /\ run = Open
    /\ \E verdict \in RunVerdicts :
          /\ verdict = "SUCCEEDED" => \A t \in Tasks : tasks[t] \in Passes
          /\ verdict \in Failures =>
                /\ \A t \in Tasks : tasks[t] # Open
                /\ \E t \in Tasks : tasks[t] = verdict
          /\ run' = verdict
    /\ UNCHANGED <<tasks, last, outputs>>

Next ==
    \/ \E t \in Tasks : Try(t) \/ EndTry(t) \/ Settle(t) \/ Record(t)
    \/ Close

Spec == Init /\ [][Next]_ledger

=============================================================================
