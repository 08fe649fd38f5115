---------------------------- MODULE RetryPolicy ----------------------------
(***************************************************************************)
(* The retry decision of the V2 runtime (policies/retry.py): a pure        *)
(* function of the declared RetryPolicy, the FailureEvidence of the last   *)
(* attempt, its number and the time the task has been running.  Seconds    *)
(* are naturals; NoLimit stands for a limit the policy leaves unset.       *)
(* Python floats multiply exactly in this range, up to the power of two    *)
(* that no float holds: FloatExponentLimit (1024 in CPython).              *)
(***************************************************************************)
EXTENDS Integers, FiniteSets

CONSTANT FloatExponentLimit

ASSUME FloatExponentLimitIsPositive == FloatExponentLimit \in Nat \ {0}

NoLimit == -1
Limits == Nat \cup {NoLimit}

FailureCategory ==
    {"validation", "configuration", "capability", "authentication",
     "authorization", "not_found", "conflict", "transient", "timeout",
     "cancelled", "resource_exhausted", "rate_limited", "integrity",
     "contract_violation", "side_effect_failed", "unknown_outcome",
     "internal", "external_provider"}

Retryability ==
    {"retryable", "non_retryable", "unknown", "retryable_after_reconciliation"}

OutcomeUncertainty == {"known", "unknown", "requires_reconciliation"}

\* The part of a FailureEvidence that decisions read.
FailureEvidence ==
    [category: FailureCategory, retryability: Retryability,
     uncertainty: OutcomeUncertainty]

NoFailure ==
    [category |-> "none", retryability |-> "none", uncertainty |-> "none"]

BackoffStrategy == {"none", "fixed", "linear", "exponential"}
RetryJitter == {"none", "full"}

RetryPolicies ==
    [max_attempts: Nat \ {0}, backoff_strategy: BackoffStrategy,
     initial_delay_seconds: Nat, max_delay_seconds: Limits,
     jitter: RetryJitter, retryable_failure_categories: SUBSET FailureCategory,
     total_budget_seconds: Limits, reconciliation_required: BOOLEAN]

\* RetryEvaluator never returns ABORT or CANCEL.  "raises" is the
\* OverflowError that leaves evaluate() when a backoff factor fits no float.
RetryDecision == {"retry", "do_not_retry", "reconcile", "escalate", "raises"}

-----------------------------------------------------------------------------

Least(a, b) == IF a <= b THEN a ELSE b

\* The backoff of failed attempt n, before the cap.
Backoff(policy, n) ==
    LET D == policy.initial_delay_seconds IN
    CASE policy.backoff_strategy = "none" -> 0
      [] policy.backoff_strategy = "fixed" -> D
      [] policy.backoff_strategy = "linear" -> D * n
      [] policy.backoff_strategy = "exponential" -> D * 2 ^ (n - 1)

BackoffOverflows(policy, n) ==
    policy.backoff_strategy = "exponential" /\ n - 1 >= FloatExponentLimit

\* The delays _delay may return: the cap comes first, then the jitter draws
\* any value up to the capped one.
Delays(policy, n) ==
    LET capped == IF policy.max_delay_seconds = NoLimit THEN Backoff(policy, n)
                  ELSE Least(Backoff(policy, n), policy.max_delay_seconds)
    IN IF policy.jitter = "full" THEN 0 .. capped ELSE {capped}

\* Mutant: only the category tells that an outcome is unknown.
OutcomeUncertainByCategory(failure) == failure.category = "unknown_outcome"

OutcomeUncertain(failure) ==
    \/ failure.uncertainty # "known"
    \/ failure.retryability = "retryable_after_reconciliation"
    \/ failure.category = "unknown_outcome"

\* The known failures that no later attempt may follow, whatever the delay.
RetryRefused(policy, failure, n) ==
    \/ n >= policy.max_attempts
    \/ failure.retryability \in {"non_retryable", "unknown"}
    \/ /\ policy.retryable_failure_categories # {}
       /\ failure.category \notin policy.retryable_failure_categories

\* Mutant: the budget does not count the delay to come.
WithinBudgetBeforeDelay(policy, elapsed, delay) ==
    \/ policy.total_budget_seconds = NoLimit
    \/ elapsed <= policy.total_budget_seconds

WithinBudget(policy, elapsed, delay) ==
    \/ policy.total_budget_seconds = NoLimit
    \/ elapsed + delay <= policy.total_budget_seconds

Decided(decision, delay) == [decision |-> decision, delay |-> delay]

\* RetryEvaluator.evaluate: the set of evaluations it may return (one, unless
\* the jitter source draws).
Evaluations(policy, failure, n, elapsed) ==
    IF OutcomeUncertain(failure) THEN
        {Decided(IF policy.reconciliation_required THEN "reconcile" ELSE "escalate", 0)}
    ELSE IF RetryRefused(policy, failure, n) THEN {Decided("do_not_retry", 0)}
    ELSE IF BackoffOverflows(policy, n) THEN {Decided("raises", 0)}
    ELSE {IF WithinBudget(policy, elapsed, delay)
          THEN Decided("retry", delay) ELSE Decided("do_not_retry", 0)
            : delay \in Delays(policy, n)}

=============================================================================
