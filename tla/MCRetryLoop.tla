---------------------------- MODULE MCRetryLoop ----------------------------
(***************************************************************************)
(* Instances of RetryLoop: policies that combine every backoff strategy    *)
(* with and without cap, jitter, budget and category filter, and failures  *)
(* of every retryability.  Or the task is a job of another runtime, as     *)
(* ExternalWorkloads has it, or one migrated from V1.                      *)
(***************************************************************************)
EXTENDS DefinitionMigration, ExternalWorkloads

SomePolicies ==
    [max_attempts: {1, 4}, backoff_strategy: BackoffStrategy,
     initial_delay_seconds: {0, 2}, max_delay_seconds: {NoLimit, 5},
     jitter: RetryJitter, retryable_failure_categories: {{}, {"transient"}},
     total_budget_seconds: {NoLimit, 9}, reconciliation_required: BOOLEAN]

SomeFailures ==
    [category: {"transient", "unknown_outcome"}, retryability: Retryability,
     uncertainty: {"known", "unknown"}]
    \cup [category: {"timeout"}, retryability: {"retryable"}, uncertainty: {"known"}]

ShortAndLong == {1, 3}

JobPolicies ==
    [max_attempts: {1, 3}, backoff_strategy: {"none"}, initial_delay_seconds: {0},
     max_delay_seconds: {NoLimit}, jitter: {"none"},
     retryable_failure_categories: {{}, {"timeout"}},
     total_budget_seconds: {NoLimit}, reconciliation_required: BOOLEAN]

LegacyJobPolicies == [max_attempts: {1, 3}, categories: {{}, {"temporary"}}]

\* Mostly what V1 defaults to, and one definition for each reason to refuse.
PlainDefinition ==
    [parameters |-> FALSE, handler_ref |-> TRUE, timeout_mode |-> "none",
     executor_key |-> "local", retry_policy |->
        [max_attempts |-> 1, backoff_strategy |-> "none", delay_seconds |-> 0,
         max_delay_seconds |-> NoLimit, retryable_error_categories |-> {}]]

SomeDefinitions ==
    {[PlainDefinition EXCEPT !.retry_policy = p] :
        p \in [max_attempts: {1, 4}, backoff_strategy: BackoffStrategy, delay_seconds: {2},
               max_delay_seconds: {NoLimit, 5},
               retryable_error_categories: {{}, {"TRANSIENT", "timeout"}, {"temporary"}}]}
    \cup {[PlainDefinition EXCEPT !.parameters = TRUE],
          [PlainDefinition EXCEPT !.handler_ref = FALSE],
          [PlainDefinition EXCEPT !.timeout_mode = "hard"],
          [PlainDefinition EXCEPT !.executor_key = "ray"]}

SomeCategories ==
    [n \in {"transient", "TRANSIENT", "timeout", "unknown_outcome", "temporary"} |->
        CASE n = "temporary" -> "none" [] n = "TRANSIENT" -> "transient" [] OTHER -> n]

VARIABLE work

retryVars == <<work, migrationVars, externalVars>>

SomeDefinition == CHOOSE v \in LegacyDefinitions : TRUE

\* The parts not at work stand still.
RetryInit ==
    /\ work \in {"handler", "external", "migrated"}
    /\ InitMigration /\ InitExternal
    /\ work # "external" =>
          /\ integration = IngestV2 /\ owner = "external"
          /\ terms = CHOOSE p \in JobPolicies : TRUE
    /\ work # "handler" => policy = CHOOSE p \in SomePolicies : TRUE
    /\ work # "migrated" => definition = SomeDefinition

RetryNext ==
    \/ work = "handler" /\ LoopNext
       /\ UNCHANGED <<work, definition, migration, externalVars>>
    \/ work = "external" /\ ExternalNext /\ UNCHANGED <<work, migrationVars>>
    \/ work = "migrated" /\ MigrationNext /\ UNCHANGED <<work, externalVars>>

RetrySpec == RetryInit /\ [][RetryNext]_retryVars

=============================================================================
