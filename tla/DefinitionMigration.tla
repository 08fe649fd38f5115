------------------------ MODULE DefinitionMigration ------------------------
(***************************************************************************)
(* A V1 workflow of one task brought to V2 (_compat/v1_to_v2.py) and run   *)
(* there: the definition is migrated or refused, and a migrated task then  *)
(* goes through the attempts of RetryLoop with the policy it was given.    *)
(* What V1's RetryEngine would have answered to the same failures is       *)
(* stated next to it.                                                      *)
(***************************************************************************)
EXTENDS RetryLoop

CONSTANTS
    LegacyDefinitions,   \* the V1 definitions to migrate
    CategoryNamed,       \* V1 categories are free text: those that name a V2 one
    ExecutorMap          \* V1 executor keys with a V2 one

VARIABLES
    definition,
    migration            \* "pending", "migrated", "unsupported", "no_evidence"

migrationVars == <<definition, migration, loopVars>>

LegacyRetryPolicies ==
    [max_attempts: Nat \ {0}, backoff_strategy: BackoffStrategy,
     delay_seconds: Nat, max_delay_seconds: Limits,
     retryable_error_categories: SUBSET DOMAIN CategoryNamed]

LegacyDefinitionType ==
    [parameters: BOOLEAN, handler_ref: BOOLEAN, timeout_mode: {"none", "soft", "hard"},
     executor_key: STRING, retry_policy: LegacyRetryPolicies]

ASSUME LegacyDefinitionsTyped ==
    /\ \A n \in DOMAIN CategoryNamed : CategoryNamed[n] \in FailureCategory \cup {"none"}
    /\ LegacyDefinitions \subseteq LegacyDefinitionType

\* Each V2 category is named by its own value (_map_legacy_retry_category).
ASSUME FailuresAreNamed ==
    \A f \in Failures : \E n \in DOMAIN CategoryNamed : CategoryNamed[n] = f.category

InitMigration ==
    /\ LoopInit
    /\ definition \in LegacyDefinitions
    /\ migration = "pending"

CategoriesMapped(names) == \A n \in names : CategoryNamed[n] # "none"

\* Mutant: the cap on delays is not carried over.
MigratedWithoutCap(old) ==
    [max_attempts |-> old.max_attempts,
     backoff_strategy |-> old.backoff_strategy,
     initial_delay_seconds |-> old.delay_seconds,
     max_delay_seconds |-> NoLimit,
     jitter |-> "none",
     retryable_failure_categories |-> {CategoryNamed[n] : n \in old.retryable_error_categories},
     total_budget_seconds |-> NoLimit,
     reconciliation_required |-> TRUE]

MigratedPolicy(old) ==
    [max_attempts |-> old.max_attempts,
     backoff_strategy |-> old.backoff_strategy,
     initial_delay_seconds |-> old.delay_seconds,
     max_delay_seconds |-> old.max_delay_seconds,
     jitter |-> "none",
     retryable_failure_categories |-> {CategoryNamed[n] : n \in old.retryable_error_categories},
     total_budget_seconds |-> NoLimit,
     reconciliation_required |-> TRUE]

\* migrate_workflow_definition and migrate_task_definition: the first check
\* that fails decides, and nothing half migrated is handed out.
Verdict(v) ==
    CASE v.parameters -> "unsupported"
      [] ~v.parameters /\ ~v.handler_ref -> "no_evidence"
      [] ~v.parameters /\ v.handler_ref ->
            IF /\ v.timeout_mode # "hard"
               /\ v.executor_key \in ExecutorMap
               /\ CategoriesMapped(v.retry_policy.retryable_error_categories)
            THEN "migrated" ELSE "unsupported"

Migrate ==
    /\ migration = "pending"
    /\ migration' = Verdict(definition)
    /\ policy' = IF migration' = "migrated"
                 THEN MigratedPolicy(definition.retry_policy) ELSE policy
    /\ UNCHANGED <<definition, phase, attempt, elapsed, failure, delay>>

RunMigrated ==
    /\ migration = "migrated"
    /\ LoopNext
    /\ UNCHANGED <<definition, migration>>

MigrationRefused ==
    migration \in {"unsupported", "no_evidence"} /\ UNCHANGED migrationVars

MigrationNext == Migrate \/ RunMigrated \/ MigrationRefused

MigrationSpec == InitMigration /\ [][MigrationNext]_migrationVars

-----------------------------------------------------------------------------

\* RetryEngine._backoff_delay.
LegacyDelay(old, n) ==
    LET D == old.delay_seconds
        backoff == CASE old.backoff_strategy = "none" -> 0
                     [] old.backoff_strategy = "fixed" -> D
                     [] old.backoff_strategy = "linear" -> D * n
                     [] old.backoff_strategy = "exponential" -> D * 2 ^ (n - 1)
    IN IF old.max_delay_seconds = NoLimit THEN backoff
       ELSE Least(backoff, old.max_delay_seconds)

\* RetryEngine.decide, for an error of the task with this category.
LegacyRepeats(old, n, name) ==
    /\ n < old.max_attempts
    /\ old.retryable_error_categories # {} => name \in old.retryable_error_categories

\* A migrated task retries only what V1 would have retried, under some name of
\* the failure's category, and waits as long for it: migrate_task_definition
\* against application/retry.py and policies/retry.py.
MigratedTaskRetriesAlike ==
    migration = "migrated" /\ phase = "waiting" =>
        /\ \E n \in DOMAIN CategoryNamed :
              /\ CategoryNamed[n] = failure.category
              /\ LegacyRepeats(definition.retry_policy, attempt, n)
        /\ delay = LegacyDelay(definition.retry_policy, attempt)

=============================================================================
