----------------------------- MODULE RetryLoop -----------------------------
(***************************************************************************)
(* One task run as its retry policy sees it: the attempt loop of           *)
(* _execute_plan_tasks around RetryEvaluator.evaluate, with the clock that *)
(* _task_elapsed_seconds reads.  The store and cancellation are those of   *)
(* WorkflowRuntime; here only attempts, failures and time remain, and a    *)
(* RetryWaiter that sleeps for exactly the delay it is given.              *)
(***************************************************************************)
EXTENDS RetryPolicy

CONSTANTS
    Policies,        \* the policies a task may declare
    Failures,        \* the FailureEvidence its attempts may end with
    Durations        \* how long an attempt may take, in seconds

ASSUME PoliciesType == Policies \in SUBSET RetryPolicies
ASSUME FailuresType == Failures \in SUBSET FailureEvidence
ASSUME DurationsType == Durations \in SUBSET Nat

VARIABLES
    policy,
    phase,           \* "executing", "evaluating", "waiting", "over", "raised"
    attempt,         \* number of the current attempt
    elapsed,         \* seconds since the task run started
    failure,         \* failure of the last attempt that failed
    delay            \* the last delay a retry was scheduled with

loopVars == <<policy, phase, attempt, elapsed, failure, delay>>

LoopInit ==
    /\ policy \in Policies
    /\ phase = "executing"
    /\ attempt = 1
    /\ elapsed = 0
    /\ failure = NoFailure
    /\ delay = 0

AttemptSucceeds ==
    /\ phase = "executing"
    /\ \E d \in Durations : elapsed' = elapsed + d
    /\ phase' = "over"
    /\ UNCHANGED <<policy, attempt, failure, delay>>

AttemptFails ==
    /\ phase = "executing"
    /\ \E d \in Durations : elapsed' = elapsed + d
    /\ failure' \in Failures
    /\ phase' = "evaluating"
    /\ UNCHANGED <<policy, attempt, delay>>

PhaseAfter(decision) ==
    CASE decision = "retry" -> "waiting"
      [] decision = "raises" -> "raised"
      [] OTHER -> "over"

EvaluateRetry ==
    /\ phase = "evaluating"
    /\ \E evaluation \in Evaluations(policy, failure, attempt, elapsed) :
          /\ phase' = PhaseAfter(evaluation.decision)
          /\ delay' = IF evaluation.decision = "retry"
                      THEN evaluation.delay ELSE delay
    /\ UNCHANGED <<policy, attempt, elapsed, failure>>

WaitAndRetry ==
    /\ phase = "waiting"
    /\ elapsed' = elapsed + delay
    /\ attempt' = attempt + 1
    /\ phase' = "executing"
    /\ UNCHANGED <<policy, failure, delay>>

LoopOver == phase \in {"over", "raised"} /\ UNCHANGED loopVars

LoopNext ==
    \/ AttemptSucceeds \/ AttemptFails \/ EvaluateRetry \/ WaitAndRetry
    \/ LoopOver

LoopSpec == LoopInit /\ [][LoopNext]_loopVars

-----------------------------------------------------------------------------

\* The loop keeps to the numbers and phases above.
LoopTypeOK ==
    /\ policy \in Policies
    /\ phase \in {"executing", "evaluating", "waiting", "over", "raised"}
    /\ attempt \in Nat \ {0}
    /\ elapsed \in Nat
    /\ failure \in Failures \cup {NoFailure}
    /\ delay \in Nat

\* However long the attempts take, a retry starts within the budget of the
\* task run and there are never more attempts than the policy allows.
RetriesWithinPolicy ==
    /\ attempt <= policy.max_attempts
    /\ attempt > 1 /\ phase = "executing" /\ policy.total_budget_seconds # NoLimit
          => elapsed <= policy.total_budget_seconds

\* A retry only ever follows a failure known to have happened, declared
\* retryable and of a category the policy retries: an attempt whose effect
\* may still land is not repeated.
RetryOnlyAfterKnownFailure ==
    [][attempt' # attempt =>
          /\ failure.uncertainty = "known"
          /\ failure.retryability = "retryable"
          /\ failure.category # "unknown_outcome"
          /\ policy.retryable_failure_categories # {} =>
                failure.category \in policy.retryable_failure_categories]_loopVars

=============================================================================
