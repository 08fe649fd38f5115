------------------------- MODULE MCWorkflowRuntime -------------------------
(***************************************************************************)
(* Instances of WorkflowRuntime small enough to explore: plans of two or   *)
(* three tasks, at most two attempts each, up to two cancelling threads.   *)
(***************************************************************************)
EXTENDS RunEvidence, TLC

\* Plans: each task needs the one before it; or the last needs all others.
Chain == [t \in Tasks |-> IF t = 1 THEN {} ELSE {t - 1}]
Join == [t \in Tasks |-> IF t = TaskCount THEN Tasks \ {t} ELSE {}]

AllSuccess == [t \in Tasks |-> "all_success"]

\* The second task runs only after a failure, which fail-fast rules out: it
\* is always skipped; the third one takes that for no failure.
SkippingRules ==
    [t \in Tasks |-> CASE t = 1 -> "always" [] t = 2 -> "any_failed"
                       [] OTHER -> "none_failed"]

TwoAttempts ==
    [max_attempts |-> 2, backoff_strategy |-> "fixed",
     initial_delay_seconds |-> 1, max_delay_seconds |-> NoLimit,
     jitter |-> "none", retryable_failure_categories |-> {},
     total_budget_seconds |-> 3, reconciliation_required |-> TRUE]

OneAttempt ==
    [TwoAttempts EXCEPT !.max_attempts = 1, !.reconciliation_required = FALSE]

Failure(category, retryability, uncertainty) ==
    [category |-> category, retryability |-> retryability,
     uncertainty |-> uncertainty]

Result(failure, portable, external) ==
    [failure |-> failure, portable |-> portable, external |-> external]

Success == Result(NoFailure, TRUE, FALSE)
LocalSuccess == Result(NoFailure, FALSE, TRUE)
Transient == Result(Failure("transient", "retryable", "known"), FALSE, FALSE)
Refused == Result(Failure("internal", "non_retryable", "known"), FALSE, FALSE)
HardTimeout == Result(Failure("timeout", "retryable", "known"), FALSE, FALSE)
SoftTimeout ==
    Result(Failure("timeout", "retryable_after_reconciliation",
                   "requires_reconciliation"), FALSE, TRUE)
Interrupted == Result(Failure("cancelled", "non_retryable", "known"), FALSE, FALSE)

EveryOutcome ==
    {Success, LocalSuccess, Transient, Refused, HardTimeout, SoftTimeout, Interrupted}
SomeOutcomes == {Success, Transient, SoftTimeout, Interrupted}
StoppedOrUncertain == {Success, SoftTimeout, Interrupted}

NothingReused == {{}}
AnythingReused == {{}, {1}, {1, 2}}

\* Within the retry budget of TwoAttempts, and beyond it.
Ages == {0, 3}
Young == {0}

\* Executors: none can cancel; all can; only that of the second task can.
NoReplies == [t \in Tasks |-> {}]
EveryReply == [t \in Tasks |-> {"requested", "confirmed", "unconfirmed"}]
MixedReplies == [EveryReply EXCEPT ![1] = {}]

\* The callers are interchangeable.
CallersSymmetry == Permutations(Callers)

=============================================================================
