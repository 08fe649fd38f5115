--------------------------- MODULE MCRunRecovery ---------------------------
(***************************************************************************)
(* Instances of RunRecovery: a chain of tasks, two attempts of each, a     *)
(* crash at any step and up to two reconcilers.                            *)
(***************************************************************************)
EXTENDS RunRecovery

Chain == [t \in Tasks |-> IF t = 1 THEN {} ELSE {t - 1}]
AllSuccess == [t \in Tasks |-> "all_success"]

UnlimitedRetries ==
    [max_attempts |-> 2, backoff_strategy |-> "fixed",
     initial_delay_seconds |-> 1, max_delay_seconds |-> NoLimit,
     jitter |-> "none", retryable_failure_categories |-> {},
     total_budget_seconds |-> NoLimit, reconciliation_required |-> TRUE]
TwoAttempts == [UnlimitedRetries EXCEPT !.total_budget_seconds = 3]

Failure(category, retryability, uncertainty) ==
    [category |-> category, retryability |-> retryability,
     uncertainty |-> uncertainty]

Result(failure, portable, external) ==
    [failure |-> failure, portable |-> portable, external |-> external]

Success == Result(NoFailure, TRUE, FALSE)
ExternalSuccess == Result(NoFailure, TRUE, TRUE)
Transient == Result(Failure("transient", "retryable", "known"), FALSE, FALSE)
Refused == Result(Failure("internal", "non_retryable", "known"), FALSE, FALSE)
HardTimeout == Result(Failure("timeout", "retryable", "known"), FALSE, FALSE)
SoftTimeout ==
    Result(Failure("timeout", "retryable_after_reconciliation",
                   "requires_reconciliation"), FALSE, TRUE)

SuccessOrTransient == {Success, Transient}
Ambiguous == {ExternalSuccess, Transient, Refused, HardTimeout, SoftTimeout}

NoReplies == [t \in Tasks |-> {}]
OnlyConfirmed == [t \in Tasks |-> {"confirmed"}]

-----------------------------------------------------------------------------
(* What the documents of the repository say of the runtime and its code    *)
(* does not do, on an instance of one task.                                *)

\* "Workflow cancellation additionally stops dispatching tasks that have not
\* started": once every cancel() of a run whose cancellation is recorded is
\* over, no task that has not started is moved to RUNNING any more.
CancelStopsDispatch ==
    [][/\ workflowRun = "CANCELLATION_REQUESTED"
       /\ \A c \in Callers : call[c].at \in {"idle", "replied", "raised"}
       => \A t \in Tasks : taskRun[t] \in NotStarted => taskRun'[t] # "RUNNING"]_vars

=============================================================================
