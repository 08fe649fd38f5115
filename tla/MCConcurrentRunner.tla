------------------------- MODULE MCConcurrentRunner -------------------------
(***************************************************************************)
(* Instances of ConcurrentRunner: three tasks, the third after the first,  *)
(* so that two run at once while one waits; executors with each of the     *)
(* three cancellation capabilities, with and without Ctrl-C, and tasks     *)
(* that the executor may refuse.                                           *)
(***************************************************************************)
EXTENDS ConcurrentRunner

MCTasks == {1, 2, 3}
MCAttempts == MCTasks \X (1 .. 2)
MCExecutorKeys == {"process"}
MCConfiguredLimit == [k \in MCExecutorKeys |-> 3]
MCMaxConcurrency == [k \in MCExecutorKeys |-> 2]

ThirdAfterFirst == [t \in MCTasks |-> IF t = 3 THEN {1} ELSE {}]
Independent == [t \in MCTasks |-> {}]

\* Timeouts are SOFT where the worker cannot be terminated.
Workflow(upstream, maxAttempts, timeoutMode, cancellation, refuses, interrupts) ==
    [upstream |-> upstream, maxAttempts |-> maxAttempts,
     timeoutMode |-> timeoutMode, cancellation |-> cancellation,
     refuses |-> refuses, interrupts |-> interrupts]

RetryFirst == [t \in MCTasks |-> IF t = 1 THEN 2 ELSE 1]
RetrySecond == [t \in MCTasks |-> IF t = 2 THEN 2 ELSE 1]
NoRetry == [t \in MCTasks |-> 1]
NoTimeout == [t \in MCTasks |-> "NONE"]
FirstTimesOut(mode) == [t \in MCTasks |-> IF t = 1 THEN mode ELSE "NONE"]

MCDefinitions ==
    {Workflow(ThirdAfterFirst, RetryFirst, FirstTimesOut("SOFT"), "NONE", {}, TRUE),
     Workflow(ThirdAfterFirst, RetryFirst, FirstTimesOut("SOFT"), "COOPERATIVE", {1}, FALSE),
     Workflow(ThirdAfterFirst, RetrySecond, FirstTimesOut("HARD"), "HARD", {2, 3}, TRUE),
     Workflow(Independent, NoRetry, NoTimeout, "NONE", {}, FALSE)}

=============================================================================
