------------------------- MODULE RepetitionProofs ---------------------------
(***************************************************************************)
(* What is done again: attempts that are repeated, within one run, and     *)
(* runs that are resumed.                                                  *)
(*                                                                         *)
(* Theorems about the three loops around the retry decision, for every     *)
(* policy, failure and duration: the attempts of a V2 task (RetryLoop), of *)
(* a task migrated from V1 (DefinitionMigration), and of a task whose work *)
(* is a job of another runtime (ExternalWorkloads).                        *)
(***************************************************************************)
EXTENDS DefinitionMigration, ExternalWorkloads, SelectiveResume, TLAPS

-----------------------------------------------------------------------------
(* The decision.                                                           *)

\* A retry is decided only with attempts left, after a failure known to have
\* happened and retryable, and within the budget; the delay is one that the
\* policy allows (RetryEvaluator.evaluate).
LEMMA RetryIsDecided ==
    ASSUME NEW p, NEW f, NEW n, NEW spent,
           NEW e \in Evaluations(p, f, n, spent), e.decision = "retry"
    PROVE  /\ ~ OutcomeUncertain(f)
           /\ ~ RetryRefused(p, f, n)
           /\ e.delay \in Delays(p, n)
           /\ WithinBudget(p, spent, e.delay)
<1>1. ~ OutcomeUncertain(f) /\ ~ RetryRefused(p, f, n) /\ ~ BackoffOverflows(p, n)
  BY DEF Evaluations, Decided
<1>2. PICK d \in Delays(p, n) :
         e = IF WithinBudget(p, spent, d) THEN Decided("retry", d)
             ELSE Decided("do_not_retry", 0)
  BY <1>1 DEF Evaluations
<1>3. WithinBudget(p, spent, d) /\ e.delay = d
  BY <1>2 DEF Decided
<1> QED
  BY <1>1, <1>2, <1>3

\* What is known and not refused is retryable (RetryEvaluator.evaluate).
LEMMA RetriedFailureIsKnown ==
    ASSUME NEW p, NEW f \in FailureEvidence, NEW n,
           ~ OutcomeUncertain(f), ~ RetryRefused(p, f, n)
    PROVE  /\ f.uncertainty = "known"
           /\ f.retryability = "retryable"
           /\ f.category # "unknown_outcome"
           /\ p.retryable_failure_categories # {} =>
                 f.category \in p.retryable_failure_categories
BY DEF OutcomeUncertain, RetryRefused, FailureEvidence, Retryability

-----------------------------------------------------------------------------
(* The attempts of one task.                                               *)

\* While the task waits, the decision to retry it stands.
RetryStands ==
    phase = "waiting" =>
        /\ failure \in Failures
        /\ ~ OutcomeUncertain(failure)
        /\ ~ RetryRefused(policy, failure, attempt)
        /\ delay \in Delays(policy, attempt)
        /\ WithinBudget(policy, elapsed, delay)

LoopInv ==
    /\ attempt \in Nat \ {0}
    /\ phase = "evaluating" => failure \in Failures
    /\ RetryStands

\* Both parts of the property and what the loop remembers.
BudgetInv ==
    /\ policy \in Policies
    /\ LoopInv
    /\ RetriesWithinPolicy

\* The decision stands through every step of the loop, whatever its policy.
LEMMA LoopStep ==
    ASSUME LoopInv, LoopNext
    PROVE  LoopInv'
<1> USE FailuresType
<1>1. CASE AttemptSucceeds
  BY <1>1 DEF AttemptSucceeds, LoopInv, RetryStands
<1>2. CASE AttemptFails
  BY <1>2 DEF AttemptFails, LoopInv, RetryStands
<1>3. CASE EvaluateRetry
  <2>1. PICK e \in Evaluations(policy, failure, attempt, elapsed) :
           /\ phase' = PhaseAfter(e.decision)
           /\ delay' = IF e.decision = "retry" THEN e.delay ELSE delay
    BY <1>3 DEF EvaluateRetry
  <2>2. UNCHANGED <<policy, attempt, elapsed, failure>> /\ failure \in Failures
    BY <1>3 DEF EvaluateRetry, LoopInv
  <2>3. CASE e.decision = "retry"
    <3>1. delay' = e.delay
      BY <2>1, <2>3
    <3>2. /\ ~ OutcomeUncertain(failure) /\ ~ RetryRefused(policy, failure, attempt)
          /\ e.delay \in Delays(policy, attempt) /\ WithinBudget(policy, elapsed, e.delay)
      BY <2>2, <2>3, RetryIsDecided
    <3>3. phase' = "waiting"
      BY <2>1, <2>3 DEF PhaseAfter
    <3> QED
      BY <2>2, <3>1, <3>2, <3>3 DEF LoopInv, RetryStands
  <2>4. CASE e.decision # "retry"
    <3>1. phase' \in {"raised", "over"}
      BY <2>1, <2>4 DEF PhaseAfter
    <3> QED
      BY <2>2, <3>1 DEF LoopInv, RetryStands
  <2> QED
    BY <2>3, <2>4
<1>4. CASE WaitAndRetry
  BY <1>4 DEF WaitAndRetry, LoopInv, RetryStands
<1>5. CASE LoopOver
  BY <1>5 DEF LoopOver, loopVars, LoopInv, RetryStands
<1> QED
  BY <1>1, <1>2, <1>3, <1>4, <1>5 DEF LoopNext

\* A retry that stands is one more attempt, in time.
LEMMA BudgetStep ==
    ASSUME BudgetInv, [LoopNext]_loopVars
    PROVE  BudgetInv'
<1> USE PoliciesType DEF BudgetInv
<1>1. CASE UNCHANGED loopVars
  BY <1>1 DEF loopVars, LoopInv, RetryStands, RetriesWithinPolicy
<1>2. CASE LoopNext
  <2>1. LoopInv'
    BY <1>2, LoopStep
  <2>2. policy' \in Policies
    BY <1>2 DEF LoopNext, AttemptSucceeds, AttemptFails, EvaluateRetry, WaitAndRetry,
                LoopOver, loopVars
  <2>3. CASE WaitAndRetry
    <3>1. attempt < policy.max_attempts
      BY <2>3 DEF WaitAndRetry, LoopInv, RetryStands, RetryRefused, RetryPolicies
    <3>2. policy.total_budget_seconds # NoLimit =>
             elapsed + delay <= policy.total_budget_seconds
      BY <2>3 DEF WaitAndRetry, LoopInv, RetryStands, WithinBudget
    <3>3. RetriesWithinPolicy'
      BY <2>3, <3>1, <3>2 DEF WaitAndRetry, RetriesWithinPolicy, LoopInv, RetryPolicies
    <3> QED
      BY <2>1, <2>2, <3>3
  <2>4. CASE phase' # "executing" /\ UNCHANGED <<policy, attempt>>
    BY <2>1, <2>2, <2>4 DEF RetriesWithinPolicy
  <2>5. CASE LoopOver
    BY <2>1, <2>2, <2>5 DEF LoopOver, loopVars, RetriesWithinPolicy
  <2>6. AttemptSucceeds \/ AttemptFails \/ EvaluateRetry =>
           phase' # "executing" /\ UNCHANGED <<policy, attempt>>
    BY DEF AttemptSucceeds, AttemptFails, EvaluateRetry, PhaseAfter
  <2> QED
    BY <1>2, <2>3, <2>4, <2>5, <2>6 DEF LoopNext
<1> QED
  BY <1>1, <1>2

\* The first attempt is within every policy.
LEMMA BudgetInit == LoopInit => BudgetInv
BY PoliciesType
DEF LoopInit, BudgetInv, LoopInv, RetryStands, RetriesWithinPolicy, RetryPolicies

\* However long attempts take and whatever the jitter draws, no task has more
\* attempts than its policy allows, and none begins beyond the budget
\* (RetryEvaluator.evaluate, _task_elapsed_seconds).
THEOREM RetriesStayWithinPolicy == LoopSpec => []RetriesWithinPolicy
<1>1. BudgetInv => RetriesWithinPolicy
  BY DEF BudgetInv
<1> QED
  BY <1>1, BudgetInit, BudgetStep, PTL DEF LoopSpec

\* An attempt is only ever repeated after a failure that is known to have
\* happened, declared retryable and of a category the policy retries
\* (RetryEvaluator.evaluate).
THEOREM OnlyKnownFailuresAreRetried == LoopSpec => RetryOnlyAfterKnownFailure
<1>1. BudgetInv /\ [LoopNext]_loopVars =>
         [attempt' # attempt =>
            /\ failure.uncertainty = "known"
            /\ failure.retryability = "retryable"
            /\ failure.category # "unknown_outcome"
            /\ policy.retryable_failure_categories # {} =>
                  failure.category \in policy.retryable_failure_categories]_loopVars
  <2> SUFFICES ASSUME BudgetInv, LoopNext, attempt' # attempt
               PROVE  /\ failure.uncertainty = "known"
                      /\ failure.retryability = "retryable"
                      /\ failure.category # "unknown_outcome"
                      /\ policy.retryable_failure_categories # {} =>
                            failure.category \in policy.retryable_failure_categories
    BY DEF loopVars
  <2>1. phase = "waiting"
    BY DEF LoopNext, AttemptSucceeds, AttemptFails, EvaluateRetry, WaitAndRetry,
           LoopOver, loopVars
  <2>2. /\ failure \in FailureEvidence
        /\ ~ OutcomeUncertain(failure) /\ ~ RetryRefused(policy, failure, attempt)
    BY <2>1, FailuresType DEF BudgetInv, LoopInv, RetryStands
  <2> QED
    BY <2>2, RetriedFailureIsKnown
<1> QED
  BY <1>1, BudgetInit, BudgetStep, PTL DEF LoopSpec, RetryOnlyAfterKnownFailure

-----------------------------------------------------------------------------
(* A task migrated from V1.                                                *)

\* A migrated task runs with the policy it was given, and does not run before.
MigrationInv ==
    /\ definition \in LegacyDefinitions
    /\ LoopInv
    /\ migration = "migrated" => policy = MigratedPolicy(definition.retry_policy)
    /\ migration # "migrated" => phase = "executing"

LEMMA MigrationStep ==
    ASSUME MigrationInv, [MigrationNext]_migrationVars
    PROVE  MigrationInv'
<1> USE DEF MigrationInv
<1>1. CASE Migrate
  BY <1>1 DEF Migrate, LoopInv, RetryStands
<1>2. CASE RunMigrated
  <2>1. LoopInv'
    BY <1>2, LoopStep DEF RunMigrated
  <2>2. UNCHANGED <<definition, migration, policy>> /\ migration = "migrated"
    BY <1>2 DEF RunMigrated, LoopNext, AttemptSucceeds, AttemptFails, EvaluateRetry,
                WaitAndRetry, LoopOver, loopVars
  <2> QED
    BY <2>1, <2>2
<1>3. CASE UNCHANGED migrationVars
  BY <1>3 DEF migrationVars, loopVars, LoopInv, RetryStands
<1> QED
  BY <1>1, <1>2, <1>3 DEF MigrationNext, MigrationRefused

LEMMA MigrationStarts == InitMigration => MigrationInv
BY DEF InitMigration, LoopInit, MigrationInv, LoopInv, RetryStands

\* A migrated policy draws no delay: it waits as V1 does (RetryEngine._backoff_delay).
LEMMA MigratedDelay ==
    ASSUME NEW old, NEW n, NEW d \in Delays(MigratedPolicy(old), n)
    PROVE  d = LegacyDelay(old, n)
<1> DEFINE new == MigratedPolicy(old)
<1>1. /\ new.jitter = "none" /\ new.max_delay_seconds = old.max_delay_seconds
      /\ new.backoff_strategy = old.backoff_strategy
      /\ new.initial_delay_seconds = old.delay_seconds
  BY DEF MigratedPolicy
<1> HIDE DEF new
<1>2. d = IF old.max_delay_seconds = NoLimit THEN Backoff(new, n)
          ELSE Least(Backoff(new, n), old.max_delay_seconds)
  BY <1>1 DEF Delays, new
<1> QED
  BY <1>1, <1>2 DEF LegacyDelay, Backoff

\* What a migrated policy does not refuse, V1 repeats under some name of the
\* failure's category (RetryEngine.decide).
LEMMA MigratedRetryIsLegacy ==
    ASSUME NEW old \in LegacyRetryPolicies, NEW f \in Failures, NEW n \in Nat,
           ~ RetryRefused(MigratedPolicy(old), f, n)
    PROVE  \E name \in DOMAIN CategoryNamed :
              CategoryNamed[name] = f.category /\ LegacyRepeats(old, n, name)
<1>1. n < old.max_attempts
  BY DEF RetryRefused, MigratedPolicy, LegacyRetryPolicies
<1> DEFINE categories == {CategoryNamed[name] : name \in old.retryable_error_categories}
<1>2. categories # {} => f.category \in categories
  BY DEF RetryRefused, MigratedPolicy
<1>3. CASE old.retryable_error_categories = {}
  BY <1>1, <1>3, FailuresAreNamed DEF LegacyRepeats
<1>4. CASE old.retryable_error_categories # {}
  <2>1. PICK name \in old.retryable_error_categories : CategoryNamed[name] = f.category
    BY <1>2, <1>4
  <2>2. name \in DOMAIN CategoryNamed
    BY DEF LegacyRetryPolicies
  <2> QED
    BY <1>1, <2>1, <2>2 DEF LegacyRepeats
<1> QED
  BY <1>3, <1>4

\* Whatever V1 definition is migrated, its task retries only what V1 would
\* have retried and waits as long for it (migrate_task_definition against
\* RetryEngine.decide and RetryEvaluator.evaluate).
THEOREM MigrationKeepsRetries == MigrationSpec => []MigratedTaskRetriesAlike
<1>1. MigrationInv => MigratedTaskRetriesAlike
  <2> SUFFICES ASSUME MigrationInv, migration = "migrated", phase = "waiting"
               PROVE  /\ \E n \in DOMAIN CategoryNamed :
                            /\ CategoryNamed[n] = failure.category
                            /\ LegacyRepeats(definition.retry_policy, attempt, n)
                      /\ delay = LegacyDelay(definition.retry_policy, attempt)
    BY DEF MigratedTaskRetriesAlike
  <2> DEFINE old == definition.retry_policy
  <2>1. old \in LegacyRetryPolicies
    BY LegacyDefinitionsTyped DEF MigrationInv, LegacyDefinitionType
  <2>2. /\ failure \in Failures /\ attempt \in Nat
        /\ ~ RetryRefused(MigratedPolicy(old), failure, attempt)
        /\ delay \in Delays(MigratedPolicy(old), attempt)
    BY DEF MigrationInv, LoopInv, RetryStands
  <2> HIDE DEF old
  <2>3. delay = LegacyDelay(old, attempt)
    BY <2>2, MigratedDelay
  <2>4. \E n \in DOMAIN CategoryNamed :
           CategoryNamed[n] = failure.category /\ LegacyRepeats(old, attempt, n)
    BY <2>1, <2>2, MigratedRetryIsLegacy
  <2> QED
    BY <2>3, <2>4 DEF old
<1> QED
  BY <1>1, MigrationStarts, MigrationStep, PTL DEF MigrationSpec

-----------------------------------------------------------------------------
(* A job of another runtime.                                               *)

JobState == {"running", "succeeded", "failed"}

\* No attempt starts more than one job.
JobsAreCounted ==
    /\ tries \in Nat \ {0}
    /\ jobs \in Seq(JobState)
    /\ Len(jobs) <= tries
    /\ stage \in {"building", "refused", "ready"} => Len(jobs) < tries
    /\ stage = "building" => jobs = << >>
    /\ stage \in {"running", "answered"} => jobs # << >>

\* The task of an external retry owner has one attempt.
OneAttempt ==
    owner = "external" =>
        /\ tries = 1
        /\ stage \notin {"building", "refused"} => terms.max_attempts = 1

\* What a wrapper may have answered, and what the answer says of its job.
Knows == {"SUCCEEDED", "FAILED", "CANCELLED", "TIMED_OUT"}

AnswerIsTrue ==
    stage = "answered" =>
        /\ said.says \in Knows \cup Lost
        /\ said.says \in Knows \ {"SUCCEEDED"} => jobs[Len(jobs)] = "failed"

\* What the runtime at hand takes for a failure it may follow up.
LooksRepeatable ==
    IF integration \in Generation2 THEN failed.retryability = "retryable"
    ELSE failed.category \in {"temporary", "permanent"}

AllFailed == \A n \in 1 .. Len(jobs) : jobs[n] = "failed"
EarlierFailed == \A n \in 1 .. Len(jobs) : n < Len(jobs) => jobs[n] = "failed"

\* A job is started, or an attempt followed up, when the jobs before have failed.
JobsFollowFailures ==
    /\ EarlierFailed
    /\ stage = "ready" => AllFailed
    /\ stage = "deciding" /\ LooksRepeatable => AllFailed

\* The boundaries that LostJobIsNotRepeated is about.
Guarded ==
    \/ integration \in Generation2
    \/ integration = GenericV1 /\ OnlyFailedJobsRetried

ExternalInv ==
    /\ integration \in {GenericV1, IngestV1} \cup Generation2
    /\ JobsAreCounted
    /\ OneAttempt
    /\ AnswerIsTrue
    /\ stage = "deciding" /\ integration \in Generation2 => failed \in FailureEvidence
    /\ Guarded => JobsFollowFailures

LEMMA ExternalStarts == InitExternal => ExternalInv
BY ExternalConstants
DEF InitExternal, ExternalInv, JobsAreCounted, OneAttempt, AnswerIsTrue,
    JobsFollowFailures, EarlierFailed, AllFailed, JobState, Generation2

\* A failed job stays failed, and an end is no start (EndJob).
LEMMA JobsEnd ==
    ASSUME ExternalInv, EndJob
    PROVE  ExternalInv'
<1>1. PICK n \in DOMAIN jobs, end \in {"succeeded", "failed"} :
         jobs[n] = "running" /\ jobs' = [jobs EXCEPT ![n] = end]
  BY DEF EndJob
<1>2. UNCHANGED <<integration, owner, terms, stage, tries, said, failed>>
  BY DEF EndJob
<1>3. /\ jobs' \in Seq(JobState) /\ Len(jobs') = Len(jobs)
      /\ \A m \in 1 .. Len(jobs) : jobs[m] = "failed" => jobs'[m] = "failed"
  BY <1>1 DEF ExternalInv, JobsAreCounted, JobState
<1>4. JobsAreCounted'
  BY <1>2, <1>3 DEF ExternalInv, JobsAreCounted
<1>5. AnswerIsTrue'
  BY <1>2, <1>3 DEF ExternalInv, JobsAreCounted, AnswerIsTrue, Lost
<1>6. Guarded' => JobsFollowFailures'
  BY <1>2, <1>3
  DEF ExternalInv, Guarded, OnlyFailedJobsRetried, JobsFollowFailures, EarlierFailed,
      AllFailed, LooksRepeatable
<1> QED
  BY <1>2, <1>4, <1>5, <1>6 DEF ExternalInv, OneAttempt

\* An attempt starts its job after failed ones only (StartJob).
LEMMA JobStarts ==
    ASSUME ExternalInv, StartJob
    PROVE  ExternalInv'
<1>1. jobs' = Append(jobs, "running") /\ stage = "ready" /\ stage' = "running"
  BY DEF StartJob
<1>2. UNCHANGED <<integration, owner, terms, tries, said, failed>>
  BY DEF StartJob
<1>3. JobsAreCounted'
  BY <1>1, <1>2 DEF ExternalInv, JobsAreCounted, JobState
<1>4. Guarded' => JobsFollowFailures'
  BY <1>1, <1>2
  DEF ExternalInv, JobsAreCounted, Guarded, OnlyFailedJobsRetried, JobsFollowFailures,
      EarlierFailed, AllFailed
<1> QED
  BY <1>1, <1>2, <1>3, <1>4 DEF ExternalInv, OneAttempt, AnswerIsTrue

\* A wrapper that names an end tells the truth (Answer).
LEMMA WrapperAnswers ==
    ASSUME ExternalInv, Answer
    PROVE  ExternalInv'
<1>1. PICK says \in Ends(jobs[Len(jobs)]) \cup Lost, hint \in BOOLEAN :
         said' = [says |-> says, hint |-> hint]
  BY DEF Answer
<1>2. /\ UNCHANGED <<integration, owner, terms, tries, jobs, failed>>
      /\ stage = "running" /\ stage' = "answered"
  BY DEF Answer
<1>3. /\ Ends(jobs[Len(jobs)]) \subseteq Knows
      /\ Ends(jobs[Len(jobs)]) \subseteq {"SUCCEEDED"} \/ jobs[Len(jobs)] = "failed"
  <2>1. jobs[Len(jobs)] \in JobState
    BY <1>2 DEF ExternalInv, JobsAreCounted
  <2> QED
    BY <2>1 DEF Ends, Knows, JobState
<1>4. Lost \cap Knows = {}
  BY DEF Lost, Knows
<1>5. AnswerIsTrue'
  <2>1. said'.says = says /\ Lost' = Lost
    BY <1>1, <1>2 DEF Lost
  <2> QED
    BY <1>2, <1>3, <1>4, <2>1 DEF AnswerIsTrue, Knows
<1>6. JobsAreCounted'
  BY <1>2 DEF ExternalInv, JobsAreCounted
<1>7. Guarded' => JobsFollowFailures'
  BY <1>2
  DEF ExternalInv, Guarded, OnlyFailedJobsRetried, JobsFollowFailures, EarlierFailed
<1> QED
  BY <1>2, <1>5, <1>6, <1>7 DEF ExternalInv, OneAttempt

\* A failure that looks repeatable is one of a job known to have failed
\* (PyIngestKitWorkloadHandler, PyTransformKitWorkloadHandler, the V1 adapters).
LEMMA TranslationIsTrue ==
    ASSUME ExternalInv, Translate, stage' = "deciding"
    PROVE  /\ integration \in Generation2 => failed' \in FailureEvidence
           /\ Guarded /\ LooksRepeatable' => jobs[Len(jobs)] = "failed"
<1>1. /\ said.says # "SUCCEEDED" /\ stage = "answered" /\ integration' = integration
      /\ failed' = CASE integration = IngestV2 -> IngestFailure
                     [] integration = TransformV2 -> TransformFailure
                     [] OTHER -> LegacyFailure
  BY DEF Translate
<1>2. said.says \in {"raises", "other", "UNKNOWN_OUTCOME", "REQUIRES_RECONCILIATION"}
      \/ said.says \in Knows \ {"SUCCEEDED"}
  BY <1>1 DEF ExternalInv, AnswerIsTrue, Lost, Knows
<1>3. said.says \in Knows \ {"SUCCEEDED"} => jobs[Len(jobs)] = "failed"
  BY <1>1 DEF ExternalInv, AnswerIsTrue
<1> USE DEF IngestV1, IngestV2, TransformV2, GenericV1, Generation2
<1>4. CASE integration = IngestV2
  <2>1. failed' = IngestFailure
    BY <1>1, <1>4
  <2>2. said.says # "REQUIRES_RECONCILIATION"
    BY <1>1, <1>4 DEF ExternalInv, AnswerIsTrue, Lost, Knows
  <2> QED
    BY <1>1, <1>2, <1>3, <1>4, <2>1, <2>2
    DEF IngestFailure, BrokenContract, Uncertain, Failure, Hinted, FailureEvidence,
        FailureCategory, Retryability, OutcomeUncertainty, LooksRepeatable
<1>5. CASE integration = TransformV2
  <2>1. failed' = TransformFailure
    BY <1>1, <1>5
  <2> QED
    BY <1>1, <1>2, <1>3, <1>5, <2>1
    DEF TransformFailure, BrokenContract, Uncertain, Failure, Hinted, FailureEvidence,
        FailureCategory, Retryability, OutcomeUncertainty, LooksRepeatable
<1>6. CASE integration = GenericV1
  <2>1. failed' = LegacyFailure
    BY <1>1, <1>6
  <2>2. said.says \in {"raises", "other"} \/ said.says \in Knows \ {"SUCCEEDED"}
    BY <1>1, <1>6 DEF ExternalInv, AnswerIsTrue, Lost, Knows
  <2>3. LooksRepeatable' => GenericCategory \in {"temporary", "permanent"}
    BY <1>1, <1>6, <2>1 DEF LooksRepeatable, LegacyFailure, Failure
  <2> QED
    BY <1>3, <1>6, <2>2, <2>3 DEF GenericCategory
<1> QED
  BY <1>4, <1>5, <1>6 DEF ExternalInv, Guarded

LEMMA AnswerIsTranslated ==
    ASSUME ExternalInv, Translate
    PROVE  ExternalInv'
<1>1. /\ UNCHANGED <<integration, owner, terms, tries, jobs, said>>
      /\ stage = "answered" /\ stage' \in {"over", "deciding"}
  BY DEF Translate
<1>2. JobsAreCounted' /\ OneAttempt' /\ AnswerIsTrue'
  BY <1>1 DEF ExternalInv, JobsAreCounted, OneAttempt, AnswerIsTrue
<1>3. stage' = "deciding" /\ integration' \in Generation2 => failed' \in FailureEvidence
  BY <1>1, TranslationIsTrue
<1>4. Guarded' => JobsFollowFailures'
  <2>1. Guarded' => Guarded
    BY <1>1 DEF Guarded, OnlyFailedJobsRetried
  <2>2. CASE Guarded
    <3>1. EarlierFailed /\ EarlierFailed'
      BY <1>1, <2>2 DEF ExternalInv, JobsFollowFailures, EarlierFailed
    <3>2. stage' = "deciding" /\ LooksRepeatable' => AllFailed'
      BY <1>1, <2>2, <3>1, TranslationIsTrue
      DEF ExternalInv, JobsAreCounted, EarlierFailed, AllFailed
    <3> QED
      BY <1>1, <3>1, <3>2 DEF JobsFollowFailures
  <2> QED
    BY <2>1, <2>2
<1> QED
  BY <1>1, <1>2, <1>3, <1>4 DEF ExternalInv

\* Inputs that are no JSON are a failure that nothing follows (RefuseInputs).
LEMMA InputsAreRefused ==
    ASSUME ExternalInv, RefuseInputs
    PROVE  ExternalInv'
<1>1. /\ UNCHANGED <<integration, owner, terms, tries, jobs, said>>
      /\ stage = "ready" /\ stage' = "deciding" /\ failed' = BrokenContract
  BY DEF RefuseInputs
<1>2. /\ failed' \in FailureEvidence
      /\ failed'.retryability = "non_retryable" /\ integration = TransformV2
  BY <1>1
  DEF RefuseInputs, BrokenContract, Failure, FailureEvidence, FailureCategory, Retryability,
      OutcomeUncertainty
<1>3. JobsAreCounted' /\ OneAttempt' /\ AnswerIsTrue'
  BY <1>1 DEF ExternalInv, JobsAreCounted, OneAttempt, AnswerIsTrue
<1>4. Guarded' => JobsFollowFailures'
  BY <1>1, <1>2
  DEF ExternalInv, Guarded, OnlyFailedJobsRetried, JobsFollowFailures, EarlierFailed,
      LooksRepeatable, Generation2
<1> QED
  BY <1>1, <1>2, <1>3, <1>4 DEF ExternalInv

\* A further attempt is decided with attempts left, and where that counts
\* after a failure of a job that failed (RetryEngine.decide, RetryEvaluator.evaluate).
LEMMA RepeatIsJustified ==
    ASSUME ExternalInv, stage = "deciding", Retries
    PROVE  /\ owner # "external"
           /\ Guarded => LooksRepeatable
<1>1. CASE integration \in Generation2
  <2>1. PICK e \in Evaluations(terms, failed, tries, 0) : e.decision = "retry"
    BY <1>1 DEF Retries
  <2>2. ~ OutcomeUncertain(failed) /\ ~ RetryRefused(terms, failed, tries)
    BY <2>1, RetryIsDecided
  <2>3. failed \in FailureEvidence
    BY <1>1 DEF ExternalInv
  <2>4. LooksRepeatable
    BY <1>1, <2>2, <2>3, RetriedFailureIsKnown DEF LooksRepeatable
  <2>5. owner # "external"
    BY <2>2 DEF ExternalInv, OneAttempt, RetryRefused
  <2> QED
    BY <2>4, <2>5
<1>2. CASE integration \notin Generation2
  <2>1. tries < terms.max_attempts /\ (terms.categories # {} => failed.category \in terms.categories)
    BY <1>2 DEF Retries, LegacyRetries
  <2>2. owner # "external"
    BY <2>1 DEF ExternalInv, OneAttempt
  <2>3. Guarded => LooksRepeatable
    BY <1>2, <2>1 DEF Guarded, OnlyFailedJobsRetried, LooksRepeatable
  <2> QED
    BY <2>2, <2>3
<1> QED
  BY <1>1, <1>2

LEMMA AttemptIsDecided ==
    ASSUME ExternalInv, Decide
    PROVE  ExternalInv'
<1>1. UNCHANGED <<integration, owner, terms, jobs, said, failed>> /\ stage = "deciding"
  BY DEF Decide
<1>2. CASE Retries /\ stage' = "ready" /\ tries' = tries + 1
  <2>1. owner # "external" /\ (Guarded => LooksRepeatable)
    BY <1>1, <1>2, RepeatIsJustified
  <2>2. JobsAreCounted' /\ OneAttempt' /\ AnswerIsTrue'
    BY <1>1, <1>2, <2>1 DEF ExternalInv, JobsAreCounted, OneAttempt, AnswerIsTrue
  <2>3. Guarded' => JobsFollowFailures'
    BY <1>1, <1>2, <2>1
    DEF ExternalInv, Guarded, OnlyFailedJobsRetried, JobsFollowFailures, EarlierFailed, AllFailed
  <2> QED
    BY <1>1, <1>2, <2>2, <2>3 DEF ExternalInv
<1>3. CASE stage' = "over" /\ UNCHANGED tries
  BY <1>1, <1>3
  DEF ExternalInv, JobsAreCounted, OneAttempt, AnswerIsTrue, Guarded,
      OnlyFailedJobsRetried, JobsFollowFailures, EarlierFailed
<1> QED
  BY <1>2, <1>3 DEF Decide

LEMMA ExternalStep ==
    ASSUME ExternalInv, [ExternalNext]_externalVars
    PROVE  ExternalInv'
<1>1. CASE BuildTask
  BY <1>1
  DEF BuildTask, OwnershipClear, ExternalInv, JobsAreCounted, OneAttempt, AnswerIsTrue,
      Guarded, OnlyFailedJobsRetried, JobsFollowFailures, EarlierFailed, AllFailed
<1>2. CASE TaskIsOver \/ UNCHANGED externalVars
  BY <1>2
  DEF TaskIsOver, externalVars, ExternalInv, JobsAreCounted, OneAttempt, AnswerIsTrue, Lost,
      Guarded, OnlyFailedJobsRetried, JobsFollowFailures, EarlierFailed, AllFailed,
      LooksRepeatable
<1> QED
  BY <1>1, <1>2, JobStarts, InputsAreRefused, JobsEnd, WrapperAnswers,
     AnswerIsTranslated, AttemptIsDecided
  DEF ExternalNext

\* The two runtimes never multiply their retries: a job that the other one
\* retries is started at most once (external_workload_task, pyingestkit_task).
THEOREM ExternalRetriesAreNotMultiplied == ExternalSpec => []ExternallyOwnedRunsOnce
<1>1. ExternalInv => ExternallyOwnedRunsOnce
  BY DEF ExternalInv, JobsAreCounted, OneAttempt, ExternallyOwnedRunsOnce
<1> QED
  BY <1>1, ExternalStarts, ExternalStep, PTL DEF ExternalSpec

\* A job that may still run, or may have succeeded, is never started again by
\* the V2 handlers, whatever their policy (integrations/pytransformkit.py).
THEOREM LostJobsAreLeftAlone == ExternalSpec => []LostJobIsNotRepeated
<1>1. ExternalInv => LostJobIsNotRepeated
  BY DEF ExternalInv, JobsAreCounted, Guarded, JobsFollowFailures, EarlierFailed,
         LostJobIsNotRepeated, Generation2
<1> QED
  BY <1>1, ExternalStarts, ExternalStep, PTL DEF ExternalSpec

-----------------------------------------------------------------------------
(* Resumed runs.                                                           *)

(***************************************************************************)
(* Resuming runs while their history is cancelled and pruned, for every    *)
(* plan, any number of callers, every retention policy and batch size, and *)
(* both stores.  A call knows something of its parent while it reads it    *)
(* and something of its own run while it makes and executes it.  Pruning   *)
(* takes only runs that have ended, and of the runs that somebody still    *)
(* makes or executes only cancel() ends one: so that pruning can empty the *)
(* parent under a resume and take a cancelled run from under the call that *)
(* goes on with it, but never touches what a resume already copied.        *)
(*                                                                         *)
(* What a call knows is stated of a record of the call and of the values   *)
(* that the store holds, so that most of the argument has no state in it.  *)
(***************************************************************************)

-----------------------------------------------------------------------------
(* The invariant.                                                          *)

\* The reused tasks are closed under dependencies, and their outputs fit.
ReuseIsClosed(k) ==
    \A t \in k.reused :
        /\ k.outputs[t] # NoOutput
        /\ \A d \in Upstream[t] : d \in k.reused /\ k.outputs[t].from[d] = k.outputs[d].by

\* The tasks of its run that k is done with: the outputs it holds for them stay.
Done(k, t) ==
    \/ t \in k.reused
    \/ k.at \in Executing /\ (t < k.task \/ k.at \in {"stop", "fail_fast", "finish"})

\* The task runs that k has created.
Made(k, t) == t < k.task \/ k.at = "start_run"

\* What a call knows by itself.
CallShape(k) ==
    /\ ReuseIsClosed(k)
    /\ k.at \in {"list", "create_run", "start_run"} => k.task = 1
    /\ k.at = "list" => k.reused = {}
    /\ k.at = "classify" => \A t \in k.reused : t < k.task
    /\ k.at \in {"reuse", "copy"} => k.task \in k.reused
    /\ k.at \in {"append", "work", "checkpoint", "stop", "fail_fast"} => k.task \notin k.reused
    /\ k.at \in {"execute", "append", "work", "checkpoint"} =>
          \A t \in Tasks \ k.reused : t < k.task => k.outputs[t].by = k.run
    /\ k.at = "checkpoint" => k.outputs[k.task] = Computed(k)

\* What a call knows of the parent it reads, a run with this status and these
\* checkpoints: it has ended, and may be gone; what is stored for it fits what
\* was read of it.
ParentKnows(k, run, cps) ==
    /\ run \in WorkflowTerminal \cup {Absent}
    /\ \A t \in Tasks : cps[t] # NoOutput =>
          \A d \in Upstream[t] \cap k.reused : cps[t].from[d] = k.outputs[d].by

\* What a call knows of the run it makes: nothing of it has been executed, and
\* it is complete so far unless somebody cancelled it.
MadeSoFar(k, run, tasks, att, cps) ==
    /\ run \in {"PENDING", "CANCELLATION_REQUESTED", "CANCELLED", Absent}
    /\ att = {}
    /\ k.at = "copy" => tasks[k.task] \in {"REUSED", Absent}
    /\ \A t \in Tasks :
          /\ ~ Made(k, t) => cps[t] = NoOutput
          /\ Made(k, t) /\ run \notin {"CANCELLED", Absent} =>
                /\ tasks[t] # Absent
                /\ t \in k.reused => tasks[t] = "REUSED" /\ cps[t] = k.outputs[t]

\* What a call knows of the run it executes.  Its reused part is in place until
\* it is deleted, or emptied because nothing of it was executed; after it was
\* cancelled nothing more of it starts.
ExecutedSoFar(k, run, tasks, att, cps) ==
    /\ run \in {"RUNNING", "CANCELLATION_REQUESTED", "CANCELLED", Absent}
    /\ run \notin {"CANCELLED", Absent} => \A t \in Tasks : tasks[t] # Absent
    /\ run # Absent /\ ~ (run = "CANCELLED" /\ att = {}) =>
          \A t \in k.reused : tasks[t] = "REUSED" /\ cps[t] = k.outputs[t]
    /\ run \in {"CANCELLED", Absent} => \A t \in Tasks : tasks[t] # "PENDING"
    /\ k.at = "append" => run \notin {"CANCELLED", Absent} /\ tasks[k.task] = "RUNNING"
    /\ k.at \in {"execute", "append"} => \A t \in att : t < k.task
    /\ k.at \in {"work", "checkpoint"} => \A t \in att : t <= k.task
    /\ k.at \in {"work", "checkpoint", "stop", "fail_fast"} => run = Absent \/ k.task \in att

\* What a call knows of its run, a run with these records.
OwnKnows(k, run, tasks, att, cps) ==
    /\ \A t \in Tasks :
          /\ cps[t] \in {NoOutput, k.outputs[t]}
          /\ cps[t] # NoOutput => Done(k, t)
    /\ k.at \in Creating => MadeSoFar(k, run, tasks, att, cps)
    /\ k.at \in Executing => ExecutedSoFar(k, run, tasks, att, cps)

\* What a resume has read of a run is what the call that still goes on with that
\* run holds.
Agree(j, k) == \A t \in j.reused : Done(k, t) /\ j.outputs[t] = k.outputs[t]

Owning == Creating \cup Executing
Reading == {"list", "classify"}

\* What holds of a run with these records.
RunStands(r, run, tasks, att, cps) ==
    /\ run = Absent =>
          att = {} /\ \A t \in Tasks : tasks[t] = Absent /\ cps[t] = NoOutput
    /\ \A t \in Tasks : cps[t] # NoOutput =>
          \A d \in Upstream[t] :
              IF cps[d] # NoOutput
              THEN cps[t].from[d] = cps[d].by
              ELSE cps[t].from[d] = r \/ (run = "CANCELLED" /\ att = {})

\* Runs are numbered in the order of their creation.
NothingIsAhead == \A r \in Runs : r > created => runs[r] = Absent

\* What a call of prune_runs selected has ended and has not been deleted.
SelectedRunsEnded == \A r \in pruning.todo : runs[r] \in WorkflowTerminal

RunsStand ==
    \A r \in Runs : RunStands(r, runs[r], taskRuns[r], attempted[r], checkpoints[r])

CallsKnow ==
    \A c \in Callers :
        LET k == call[c]
        IN  /\ CallShape(k)
            /\ k.at \in Reading =>
                  /\ k.parent \in Runs /\ k.parent <= created
                  /\ ParentKnows(k, runs[k.parent], checkpoints[k.parent])
            /\ k.at \in Owning =>
                  /\ k.run \in Runs /\ k.run <= created
                  /\ OwnKnows(k, runs[k.run], taskRuns[k.run], attempted[k.run],
                              checkpoints[k.run])

CallsAgree ==
    \A c, d \in Callers : c # d /\ call[d].at \in Owning =>
        /\ call[c].at \in Owning => call[c].run # call[d].run
        /\ call[c].at \in Reading /\ call[c].parent = call[d].run => Agree(call[c], call[d])

ResumeInv ==
    /\ ResumeTypeOK
    /\ NothingIsAhead
    /\ SelectedRunsEnded
    /\ RunsStand
    /\ CallsKnow
    /\ CallsAgree

-----------------------------------------------------------------------------
(* How the parts of the invariant go on.                                   *)

RecordsKept(r) ==
    /\ runs'[r] = runs[r]
    /\ taskRuns'[r] = taskRuns[r]
    /\ attempted'[r] = attempted[r]
    /\ checkpoints'[r] = checkpoints[r]

\* What the invariant says of one call.
LEMMA CallIsKnown ==
    ASSUME ResumeInv, NEW c \in Callers
    PROVE  /\ call[c] \in CallRecords
           /\ CallShape(call[c])
           /\ call[c].at \in Reading =>
                 /\ call[c].parent \in Runs /\ call[c].parent <= created
                 /\ ParentKnows(call[c], runs[call[c].parent], checkpoints[call[c].parent])
           /\ call[c].at \in Owning =>
                 /\ call[c].run \in Runs /\ call[c].run <= created
                 /\ OwnKnows(call[c], runs[call[c].run], taskRuns[call[c].run],
                             attempted[call[c].run], checkpoints[call[c].run])
BY DEF ResumeInv, CallsKnow, ResumeTypeOK

\* The same of the call in the next state, from its record there.
LEMMA CallsKnowNext ==
    ASSUME \A c \in Callers :
              \E k : /\ call'[c] = k
                     /\ CallShape(k)
                     /\ k.at \in Reading =>
                           /\ k.parent \in Runs /\ k.parent <= created'
                           /\ ParentKnows(k, runs'[k.parent], checkpoints'[k.parent])
                     /\ k.at \in Owning =>
                           /\ k.run \in Runs /\ k.run <= created'
                           /\ OwnKnows(k, runs'[k.run], taskRuns'[k.run], attempted'[k.run],
                                       checkpoints'[k.run])
    PROVE  CallsKnow'
BY DEF CallsKnow

\* Of two calls the one that owns a run owns it alone, and agrees with who reads it.
LEMMA CallsAreApart ==
    ASSUME ResumeInv, NEW c \in Callers, NEW d \in Callers, c # d, call[d].at \in Owning
    PROVE  /\ call[c].at \in Owning => call[c].run # call[d].run
           /\ call[c].at \in Reading /\ call[c].parent = call[d].run =>
                 Agree(call[c], call[d])
BY DEF ResumeInv, CallsAgree

LEMMA RunIsKnown ==
    ASSUME ResumeInv, NEW r \in Runs
    PROVE  /\ RunStands(r, runs[r], taskRuns[r], attempted[r], checkpoints[r])
           /\ runs[r] \in WorkflowRunStatus \cup {Absent}
           /\ taskRuns[r] \in [Tasks -> TaskRunStatus \cup {Absent}]
           /\ attempted[r] \in SUBSET Tasks
           /\ checkpoints[r] \in [Tasks -> Outputs \cup {NoOutput}]
BY DEF ResumeInv, RunsStand, ResumeTypeOK, HistoryTypeOK

\* The next plan entry, or the next part of the call.
LEMMA NextEntry ==
    ASSUME NEW k \in CallRecords, NEW at \in CallSteps
    PROVE  /\ NextEntryOr(k, at) \in CallRecords
           /\ NextEntryOr(k, at).parent = k.parent
           /\ NextEntryOr(k, at).run = k.run
           /\ NextEntryOr(k, at).reused = k.reused
           /\ NextEntryOr(k, at).outputs = k.outputs
           /\ \/ /\ k.task = TaskCount
                 /\ NextEntryOr(k, at).at = at /\ NextEntryOr(k, at).task = 1
              \/ /\ k.task # TaskCount
                 /\ NextEntryOr(k, at).at = k.at /\ NextEntryOr(k, at).task = k.task + 1
<1>1. CASE k.task = TaskCount
    <2>1. NextEntryOr(k, at) = [k EXCEPT !.task = 1, !.at = at]
        BY <1>1 DEF NextEntryOr
    <2>2. 1 \in Tasks
        BY HistoryBounds DEF Tasks
    <2>. QED
        BY <1>1, <2>1, <2>2 DEF CallRecords
<1>2. CASE k.task # TaskCount
    <2>1. NextEntryOr(k, at) = [k EXCEPT !.task = k.task + 1]
        BY <1>2 DEF NextEntryOr
    <2>2. k.task \in Tasks /\ k.task + 1 \in Tasks
        BY <1>2, HistoryBounds DEF CallRecords, Tasks
    <2>. QED
        BY <1>2, <2>1, <2>2 DEF CallRecords
<1>. QED
    BY <1>1, <1>2

\* A step of the store alone: calls keep what they hold.
LEMMA StoreStepKeepsInv ==
    ASSUME ResumeInv, HistoryTypeOK', UNCHANGED <<call, created>>, SelectedRunsEnded',
           \A r \in Runs : runs[r] = Absent => runs'[r] = Absent,
           \A r \in Runs : RunStands(r, runs'[r], taskRuns'[r], attempted'[r], checkpoints'[r]),
           \A c \in Callers : \A k : k = call[c] =>
              /\ k.at \in Reading => ParentKnows(k, runs'[k.parent], checkpoints'[k.parent])
              /\ k.at \in Owning => OwnKnows(k, runs'[k.run], taskRuns'[k.run],
                                             attempted'[k.run], checkpoints'[k.run])
    PROVE  ResumeInv'
<1>1. ResumeTypeOK'
    BY DEF ResumeInv, ResumeTypeOK
<1>2. NothingIsAhead'
    BY DEF NothingIsAhead, ResumeInv
<1>3. RunsStand'
    BY DEF RunsStand
<1>4. CallsKnow'
    <2>1. ASSUME NEW c \in Callers
          PROVE  \E k : /\ call'[c] = k
                        /\ CallShape(k)
                        /\ k.at \in Reading =>
                              /\ k.parent \in Runs /\ k.parent <= created'
                              /\ ParentKnows(k, runs'[k.parent], checkpoints'[k.parent])
                        /\ k.at \in Owning =>
                              /\ k.run \in Runs /\ k.run <= created'
                              /\ OwnKnows(k, runs'[k.run], taskRuns'[k.run], attempted'[k.run],
                                          checkpoints'[k.run])
        <3>1. PICK k : k = call[c]
            OBVIOUS
        <3>2. /\ CallShape(k)
              /\ k.at \in Reading => k.parent \in Runs /\ k.parent <= created
              /\ k.at \in Owning => k.run \in Runs /\ k.run <= created
            BY <3>1, CallIsKnown
        <3>3. call'[c] = k /\ created' = created
            BY <3>1
        <3>. QED
            BY <3>1, <3>2, <3>3
    <2>. QED
        BY <2>1, CallsKnowNext
<1>5. CallsAgree'
    <2>1. CallsAgree
        BY DEF ResumeInv
    <2>. QED
        BY <2>1 DEF CallsAgree
<1>. QED
    BY <1>1, <1>2, <1>3, <1>4, <1>5 DEF ResumeInv

\* The other calls go on over a step of c to the record j, which touches the run r.
OthersGoOn(c, j, r) ==
    \A d \in Callers \ {c} : \A k : k = call[d] =>
       /\ k.at \in Owning /\ k.run = r => RecordsKept(r) /\ j.at \notin Owning
       /\ k.at \in Reading /\ k.parent = r =>
             /\ ParentKnows(k, runs'[r], checkpoints'[r])
             /\ j.at \in Owning => Agree(k, j)
       /\ j.at \in Reading /\ k.at \in Owning /\ k.run = j.parent => Agree(j, k)

\* A step of one call, to the record j.  It touches the records of at most one
\* run r, which nobody else owns and which stays as it is if it has ended.
LEMMA CallStepKeepsInv ==
    ASSUME ResumeInv, NEW c \in Callers, NEW j \in CallRecords, NEW r \in Runs,
           HistoryTypeOK', pruning' = pruning,
           call' = [call EXCEPT ![c] = j],
           created <= created', r <= created',
           \A s \in Runs \ {r} : RecordsKept(s),
           runs[r] \in WorkflowTerminal => runs'[r] = runs[r],
           RunStands(r, runs'[r], taskRuns'[r], attempted'[r], checkpoints'[r]),
           CallShape(j),
           j.at \in Reading =>
              /\ j.parent \in Runs /\ j.parent <= created'
              /\ ParentKnows(j, runs'[j.parent], checkpoints'[j.parent]),
           j.at \in Owning =>
              /\ j.run = r
              /\ OwnKnows(j, runs'[r], taskRuns'[r], attempted'[r], checkpoints'[r]),
           OthersGoOn(c, j, r)
    PROVE  ResumeInv'
<1>1. /\ call'[c] = j
      /\ \A d \in Callers \ {c} : call'[d] = call[d]
      /\ call' \in [Callers -> CallRecords]
    BY DEF ResumeInv, ResumeTypeOK
<1>2. ResumeTypeOK'
    BY <1>1 DEF ResumeTypeOK
<1>3. /\ created \in Int /\ created' \in Int /\ \A s \in Runs : s \in Int
      /\ \A s \in Runs : s <= created => s <= created'
    BY HistoryBounds DEF ResumeInv, ResumeTypeOK, HistoryTypeOK, Runs
<1>4. NothingIsAhead'
    <2>. SUFFICES ASSUME NEW s \in Runs, s > created'
                  PROVE  runs'[s] = Absent
        BY DEF NothingIsAhead
    <2>1. s # r /\ s > created
        BY <1>3
    <2>. QED
        BY <2>1 DEF ResumeInv, NothingIsAhead, RecordsKept
<1>5. SelectedRunsEnded'
    <2>1. pruning.todo \subseteq Runs /\ \A s \in pruning.todo : runs[s] \in WorkflowTerminal
        BY DEF ResumeInv, ResumeTypeOK, HistoryTypeOK, SelectedRunsEnded
    <2>2. \A s \in pruning.todo : runs'[s] = runs[s]
        BY <2>1 DEF RecordsKept
    <2>. QED
        BY <2>1, <2>2 DEF SelectedRunsEnded
<1>6. RunsStand'
    BY DEF RunsStand, ResumeInv, RecordsKept
<1>7. CallsKnow'
    <2>1. ASSUME NEW d \in Callers
          PROVE  \E k : /\ call'[d] = k
                        /\ CallShape(k)
                        /\ k.at \in Reading =>
                              /\ k.parent \in Runs /\ k.parent <= created'
                              /\ ParentKnows(k, runs'[k.parent], checkpoints'[k.parent])
                        /\ k.at \in Owning =>
                              /\ k.run \in Runs /\ k.run <= created'
                              /\ OwnKnows(k, runs'[k.run], taskRuns'[k.run], attempted'[k.run],
                                          checkpoints'[k.run])
        <3>1. CASE d = c
            BY <3>1, <1>1
        <3>2. CASE d # c
            <4>1. PICK k : k = call[d]
                OBVIOUS
            <4>2. /\ CallShape(k)
                  /\ k.at \in Reading =>
                        /\ k.parent \in Runs /\ k.parent <= created
                        /\ ParentKnows(k, runs[k.parent], checkpoints[k.parent])
                  /\ k.at \in Owning =>
                        /\ k.run \in Runs /\ k.run <= created
                        /\ OwnKnows(k, runs[k.run], taskRuns[k.run], attempted[k.run],
                                    checkpoints[k.run])
                BY <4>1, CallIsKnown
            <4>3. k.at \in Reading => ParentKnows(k, runs'[k.parent], checkpoints'[k.parent])
                BY <3>2, <4>1, <4>2 DEF RecordsKept, OthersGoOn
            <4>4. k.at \in Owning => OwnKnows(k, runs'[k.run], taskRuns'[k.run],
                                              attempted'[k.run], checkpoints'[k.run])
                BY <3>2, <4>1, <4>2 DEF RecordsKept, OthersGoOn
            <4>. QED
                BY <3>2, <4>1, <4>2, <4>3, <4>4, <1>1, <1>3
        <3>. QED
            BY <3>1, <3>2
    <2>. QED
        BY <2>1, CallsKnowNext
<1>8. CallsAgree'
    <2>. SUFFICES ASSUME NEW a \in Callers, NEW b \in Callers, a # b,
                         call'[b].at \in Owning
                  PROVE  /\ call'[a].at \in Owning => call'[a].run # call'[b].run
                         /\ call'[a].at \in Reading /\ call'[a].parent = call'[b].run =>
                               Agree(call'[a], call'[b])
        BY DEF CallsAgree, Agree, Done
    <2>1. CASE a # c /\ b # c
        BY <2>1, <1>1, CallsAreApart
    <2>2. CASE a = c
        BY <2>2, <1>1 DEF OthersGoOn
    <2>3. CASE b = c
        BY <2>3, <1>1 DEF OthersGoOn
    <2>. QED
        BY <2>1, <2>2, <2>3
<1>. QED
    BY <1>2, <1>4, <1>5, <1>6, <1>7, <1>8 DEF ResumeInv

\* A step of one call that leaves the store alone and owns no run afterwards.
LEMMA QuietStepKeepsInv ==
    ASSUME ResumeInv, NEW c \in Callers, NEW j \in CallRecords,
           UNCHANGED historyVars,
           call' = [call EXCEPT ![c] = j],
           CallShape(j), j.at \notin Owning,
           j.at \in Reading =>
              /\ j.parent \in Runs /\ j.parent <= created
              /\ ParentKnows(j, runs[j.parent], checkpoints[j.parent])
              /\ \A d \in Callers \ {c} :
                    call[d].at \in Owning /\ call[d].run = j.parent => Agree(j, call[d])
    PROVE  ResumeInv'
<1>. USE DEF historyVars, records, pruneVars
<1>1. HistoryTypeOK'
    BY DEF ResumeInv, ResumeTypeOK, HistoryTypeOK
<1>2. /\ call'[c] = j
      /\ \A d \in Callers \ {c} : call'[d] = call[d]
      /\ call' \in [Callers -> CallRecords]
    BY DEF ResumeInv, ResumeTypeOK
<1>3. ResumeTypeOK'
    BY <1>1, <1>2 DEF ResumeTypeOK
<1>4. NothingIsAhead' /\ SelectedRunsEnded' /\ RunsStand'
    BY DEF ResumeInv, NothingIsAhead, SelectedRunsEnded, RunsStand
<1>5. CallsKnow'
    <2>1. ASSUME NEW d \in Callers
          PROVE  \E k : /\ call'[d] = k
                        /\ CallShape(k)
                        /\ k.at \in Reading =>
                              /\ k.parent \in Runs /\ k.parent <= created'
                              /\ ParentKnows(k, runs'[k.parent], checkpoints'[k.parent])
                        /\ k.at \in Owning =>
                              /\ k.run \in Runs /\ k.run <= created'
                              /\ OwnKnows(k, runs'[k.run], taskRuns'[k.run], attempted'[k.run],
                                          checkpoints'[k.run])
        BY <1>2, CallIsKnown
    <2>. QED
        BY <2>1, CallsKnowNext
<1>6. CallsAgree'
    <2>. SUFFICES ASSUME NEW a \in Callers, NEW b \in Callers, a # b,
                         call'[b].at \in Owning
                  PROVE  /\ call'[a].at \in Owning => call'[a].run # call'[b].run
                         /\ call'[a].at \in Reading /\ call'[a].parent = call'[b].run =>
                               Agree(call'[a], call'[b])
        BY DEF CallsAgree, Agree, Done
    <2>1. b # c
        BY <1>2
    <2>2. CASE a # c
        BY <2>1, <2>2, <1>2, CallsAreApart
    <2>3. CASE a = c
        BY <2>1, <2>3, <1>2
    <2>. QED
        BY <2>2, <2>3
<1>. QED
    BY <1>3, <1>4, <1>5, <1>6 DEF ResumeInv

\* What k was done with stays as it is for the call at j.
HoldsOn(k, j) == \A t \in Tasks : Done(k, t) => Done(j, t) /\ j.outputs[t] = k.outputs[t]

\* An output that k stores was computed from outputs that k holds.
StoresHeld(k, old, new) ==
    \A t \in Tasks : \/ new[t] = old[t]
                     \/ \A e \in Upstream[t] : new[t].from[e] = k.outputs[e].by

\* A step of the call that owns the run r, over the records of r.  It keeps what
\* it was done with, and an output that it stores was computed from outputs that
\* it holds.
LEMMA OwnStepKeepsInv ==
    ASSUME ResumeInv, NEW c \in Callers, NEW k, k = call[c], k.at \in Owning,
           NEW r, r = k.run, NEW j \in CallRecords,
           HistoryTypeOK', UNCHANGED <<created, pruning>>,
           call' = [call EXCEPT ![c] = j],
           \A s \in Runs \ {r} : RecordsKept(s),
           runs[r] \in WorkflowTerminal \cup {Absent} => runs'[r] = runs[r],
           RunStands(r, runs'[r], taskRuns'[r], attempted'[r], checkpoints'[r]),
           StoresHeld(k, checkpoints[r], checkpoints'[r]),
           CallShape(j), j.at \notin Reading,
           j.at \in Owning =>
              /\ j.run = r
              /\ OwnKnows(j, runs'[r], taskRuns'[r], attempted'[r], checkpoints'[r])
              /\ HoldsOn(k, j)
    PROVE  ResumeInv'
<1>1. r \in Runs /\ r <= created /\ created \in Int
    BY CallIsKnown DEF ResumeInv, ResumeTypeOK, HistoryTypeOK
<1>2. ASSUME NEW d \in Callers \ {c}, NEW i, i = call[d]
      PROVE  /\ i.at \in Owning => i.run # r
             /\ i.at \in Reading /\ i.parent = r =>
                   /\ ParentKnows(i, runs'[r], checkpoints'[r])
                   /\ j.at \in Owning => Agree(i, j)
    <2>1. i.at \in Owning => i.run # r
        BY <1>2, CallsAreApart
    <2>2. ASSUME i.at \in Reading, i.parent = r
          PROVE  /\ ParentKnows(i, runs'[r], checkpoints'[r])
                 /\ j.at \in Owning => Agree(i, j)
        <3>1. Agree(i, k) /\ i \in CallRecords
            BY <1>2, <2>2, CallsAreApart, CallIsKnown
        <3>2. ParentKnows(i, runs[r], checkpoints[r])
            BY <1>2, <2>2, CallIsKnown
        <3>3. \A t \in i.reused : t \in Tasks
            BY <3>1 DEF CallRecords
        <3>4. runs'[r] = runs[r]
            BY <3>2 DEF ParentKnows
        <3>5. PICK old, new : old = checkpoints[r] /\ new = checkpoints'[r]
            OBVIOUS
        <3>6. ASSUME NEW t \in Tasks, new[t] # NoOutput, NEW e \in Upstream[t] \cap i.reused
              PROVE  new[t].from[e] = i.outputs[e].by
            <4>1. i.outputs[e] = k.outputs[e]
                BY <3>1 DEF Agree
            <4>2. CASE new[t] = old[t]
                BY <3>2, <3>5, <3>6, <4>2 DEF ParentKnows
            <4>3. CASE \A f \in Upstream[t] : new[t].from[f] = k.outputs[f].by
                BY <3>6, <4>1, <4>3
            <4>. QED
                BY <3>5, <4>2, <4>3 DEF StoresHeld
        <3>7. ParentKnows(i, runs'[r], new)
            BY <3>2, <3>4, <3>6 DEF ParentKnows
        <3>8. j.at \in Owning => Agree(i, j)
            BY <3>1, <3>3 DEF Agree, HoldsOn
        <3>. QED
            BY <3>5, <3>7, <3>8
    <2>. QED
        BY <2>1, <2>2
<1>3. created <= created' /\ r <= created' /\ pruning' = pruning
    BY <1>1
<1>4. OthersGoOn(c, j, r)
    BY <1>2 DEF OthersGoOn
<1>5. runs[r] \in WorkflowTerminal => runs'[r] = runs[r]
    OBVIOUS
<1>6. /\ j.at \in Reading =>
            /\ j.parent \in Runs /\ j.parent <= created'
            /\ ParentKnows(j, runs'[j.parent], checkpoints'[j.parent])
      /\ j.at \in Owning =>
            /\ j.run = r
            /\ OwnKnows(j, runs'[r], taskRuns'[r], attempted'[r], checkpoints'[r])
    OBVIOUS
<1>. QED
    BY <1>1, <1>3, <1>4, <1>5, <1>6, CallStepKeepsInv

-----------------------------------------------------------------------------
(* The steps of a call that change no record.                              *)

\* A call that has not begun knows nothing and owns nothing.
LEMMA NoCallKnows ==
    NoCall \in CallRecords /\ CallShape(NoCall) /\ NoCall.at \notin Reading \cup Owning
<1>1. NoCall \in CallRecords
    BY HistoryBounds DEF NoCall, CallRecords, CallSteps, Tasks
<1>2. CallShape(NoCall)
    BY DEF NoCall, CallShape, ReuseIsClosed
<1>. QED
    BY <1>1, <1>2 DEF NoCall, Reading, Owning, Creating, Executing

\* run() and resume_run begin.
LEMMA BeginKeepsInv ==
    ASSUME ResumeInv, NEW c \in Callers, BeginRun(c) \/ BeginResume(c)
    PROVE  ResumeInv'
<1>1. CASE BeginRun(c)
    <2>1. PICK j : j = [NoCall EXCEPT !.at = "create_run"]
        OBVIOUS
    <2>2. j \in CallRecords
        BY <2>1, NoCallKnows DEF NoCall, CallRecords, CallSteps
    <2>3. CallShape(j) /\ j.at \notin Owning /\ j.at \notin Reading
        BY <2>1 DEF NoCall, CallShape, ReuseIsClosed, Owning, Reading, Creating, Executing
    <2>4. UNCHANGED historyVars /\ call' = [call EXCEPT ![c] = j]
        BY <1>1, <2>1 DEF BeginRun
    <2>. QED
        BY <2>2, <2>3, <2>4, QuietStepKeepsInv
<1>2. CASE BeginResume(c)
    <2>1. PICK r \in Stored, forced \in ForcedChoices :
              /\ runs[r] \in Resumable
              /\ call' = [call EXCEPT ![c] = [NoCall EXCEPT !.at = "list", !.parent = r,
                                                            !.forced = forced]]
        BY <1>2 DEF BeginResume
    <2>2. PICK j : j = [NoCall EXCEPT !.at = "list", !.parent = r, !.forced = forced]
        OBVIOUS
    <2>3. r \in Runs /\ runs[r] # Absent /\ r \in Int /\ created \in Int
        BY <2>1, HistoryBounds DEF Stored, Runs, ResumeInv, ResumeTypeOK, HistoryTypeOK
    <2>4. r <= created
        BY <2>3 DEF ResumeInv, NothingIsAhead
    <2>5. forced \in SUBSET Tasks
        BY ChoicesType
    <2>6. j \in CallRecords
        BY <2>2, <2>3, <2>5, NoCallKnows DEF NoCall, CallRecords, CallSteps
    <2>7. j.at = "list" /\ j.reused = {} /\ j.parent = r /\ j.task = 1
        BY <2>2 DEF NoCall
    <2>8. CallShape(j)
        BY <2>7 DEF CallShape, ReuseIsClosed
    <2>9. ParentKnows(j, runs[r], checkpoints[r])
        BY <2>1, <2>7 DEF ParentKnows, Resumable, WorkflowTerminal
    <2>10. \A d \in Callers : Agree(j, call[d])
        BY <2>7 DEF Agree
    <2>11. UNCHANGED historyVars /\ call' = [call EXCEPT ![c] = j]
        BY <1>2, <2>1, <2>2 DEF BeginResume
    <2>12. j.at \notin Owning
        BY <2>7 DEF Owning, Creating, Executing
    <2>. QED
        BY <2>3, <2>4, <2>6, <2>7, <2>8, <2>9, <2>10, <2>11, <2>12, QuietStepKeepsInv
<1>. QED
    BY <1>1, <1>2

\* The task runs of the parent are read.
LEMMA ListParentTasksKeepsInv ==
    ASSUME ResumeInv, NEW c \in Callers, ListParentTasks(c)
    PROVE  ResumeInv'
<1>1. PICK k : k = call[c]
    OBVIOUS
<1>2. k.at = "list" /\ k.at \in Reading
    BY <1>1 DEF ListParentTasks, Reading
<1>3. /\ k \in CallRecords /\ CallShape(k)
      /\ k.parent \in Runs /\ k.parent <= created
      /\ ParentKnows(k, runs[k.parent], checkpoints[k.parent])
    BY <1>1, <1>2, CallIsKnown
<1>4. taskRuns[k.parent] \in [Tasks -> TaskRunStatus \cup {Absent}]
    BY <1>3 DEF ResumeInv, ResumeTypeOK, HistoryTypeOK
<1>5. PICK j : j = [k EXCEPT !.at = "classify", !.listed = taskRuns[k.parent]]
    OBVIOUS
<1>6. /\ j \in CallRecords
      /\ j.at = "classify" /\ j.reused = {} /\ j.parent = k.parent
    BY <1>2, <1>3, <1>4, <1>5 DEF CallRecords, CallSteps, CallShape
<1>7. CallShape(j)
    BY <1>6 DEF CallShape, ReuseIsClosed
<1>8. ParentKnows(j, runs[j.parent], checkpoints[j.parent])
    BY <1>3, <1>6 DEF ParentKnows
<1>9. \A d \in Callers : Agree(j, call[d])
    BY <1>6 DEF Agree
<1>10. UNCHANGED historyVars
    BY DEF ListParentTasks
<1>11. call' = [call EXCEPT ![c] = j]
    BY <1>1, <1>3, <1>5 DEF ListParentTasks, CallRecords, ResumeInv, ResumeTypeOK
<1>12. j.at \notin Owning
    BY <1>6 DEF Owning, Creating, Executing
<1>. QED
    BY <1>3, <1>6, <1>7, <1>8, <1>9, <1>10, <1>11, <1>12, QuietStepKeepsInv

\* What a call finds in a checkpoint fits what it already reuses, and what the
\* parent still holds.
LEMMA FoundOutputFits ==
    ASSUME ResumeInv, NEW c \in Callers, NEW k, k = call[c], k.at = "classify",
           NEW cps, cps = checkpoints[k.parent],
           Reusable(k, k.task), cps[k.task] # NoOutput,
           NEW j \in CallRecords,
           j.at \in {"classify", "create_run"},
           j.reused = k.reused \cup {k.task},
           j.outputs = [k.outputs EXCEPT ![k.task] = cps[k.task]],
           j.parent = k.parent,
           j.at = "classify" => j.task = k.task + 1,
           j.at = "create_run" => j.task = 1
    PROVE  /\ CallShape(j)
           /\ ParentKnows(j, runs[j.parent], cps)
           /\ \A d \in Callers \ {c} :
                 call[d].at \in Owning /\ call[d].run = j.parent => Agree(j, call[d])
<1>1. /\ k \in CallRecords /\ CallShape(k)
      /\ k.parent \in Runs
      /\ ParentKnows(k, runs[k.parent], cps)
    BY CallIsKnown DEF Reading
<1>2. /\ k.task \in Tasks /\ k.reused \subseteq Tasks
      /\ \A t \in Tasks : t \in Int
      /\ k.outputs \in [Tasks -> Outputs \cup {NoOutput}]
    BY <1>1, HistoryBounds DEF CallRecords, Tasks
<1>3. ReuseIsClosed(k) /\ \A t \in k.reused : t < k.task
    BY <1>1 DEF CallShape
<1>4. Upstream[k.task] \subseteq k.reused /\ k.task \notin k.reused
    BY <1>2, <1>3 DEF Reusable
<1>5. \A d \in Upstream[k.task] : cps[k.task].from[d] = k.outputs[d].by
    BY <1>1, <1>2, <1>4 DEF ParentKnows
<1>6. /\ j.outputs[k.task] = cps[k.task]
      /\ \A t \in k.reused : j.outputs[t] = k.outputs[t]
    BY <1>2, <1>4
<1>7. ReuseIsClosed(j)
    <2>1. ASSUME NEW t \in k.reused
          PROVE  /\ j.outputs[t] # NoOutput
                 /\ \A d \in Upstream[t] :
                       d \in j.reused /\ j.outputs[t].from[d] = j.outputs[d].by
        BY <1>3, <1>6 DEF ReuseIsClosed
    <2>2. /\ j.outputs[k.task] # NoOutput
          /\ \A d \in Upstream[k.task] :
                d \in j.reused /\ j.outputs[k.task].from[d] = j.outputs[d].by
        BY <1>4, <1>5, <1>6
    <2>. QED
        BY <2>1, <2>2 DEF ReuseIsClosed
<1>8. j.at = "classify" => \A t \in j.reused : t < j.task
    BY <1>2, <1>3
<1>9. CallShape(j)
    BY <1>7, <1>8 DEF CallShape
<1>10. ParentKnows(j, runs[j.parent], cps)
    <2>1. ASSUME NEW t \in Tasks, cps[t] # NoOutput, NEW d \in Upstream[t] \cap j.reused
          PROVE  cps[t].from[d] = j.outputs[d].by
        <3>1. CASE d \in k.reused
            BY <1>1, <1>6, <2>1, <3>1 DEF ParentKnows
        <3>2. CASE d = k.task
            BY <1>1, <1>6, <2>1, <3>2, RunIsKnown DEF RunStands
        <3>. QED
            BY <3>1, <3>2
    <2>. QED
        BY <1>1, <2>1 DEF ParentKnows
<1>11. ASSUME NEW d \in Callers \ {c}, call[d].at \in Owning, call[d].run = j.parent
       PROVE  Agree(j, call[d])
    <2>1. PICK i : i = call[d]
        OBVIOUS
    <2>2. Agree(k, i)
        BY <1>11, <2>1, CallsAreApart DEF Reading
    <2>3. cps[k.task] \in {NoOutput, i.outputs[k.task]} /\ (cps[k.task] # NoOutput => Done(i, k.task))
        BY <1>2, <1>11, <2>1, CallIsKnown DEF OwnKnows
    <2>. QED
        BY <1>6, <2>1, <2>2, <2>3 DEF Agree
<1>. QED
    BY <1>9, <1>10, <1>11

\* One checkpoint is read and one plan entry classified.
LEMMA ClassifyKeepsInv ==
    ASSUME ResumeInv, NEW c \in Callers, Classify(c)
    PROVE  ResumeInv'
<1>1. PICK k : k = call[c]
    OBVIOUS
<1>2. PICK cps : cps = checkpoints[k.parent]
    OBVIOUS
<1>3. k.at = "classify" /\ UNCHANGED historyVars /\ "create_run" \in CallSteps
    BY <1>1 DEF Classify, CallSteps
<1>4. /\ k \in CallRecords /\ CallShape(k) /\ k.task \in Tasks
      /\ k.parent \in Runs /\ k.parent <= created
      /\ ParentKnows(k, runs[k.parent], cps)
    BY <1>1, <1>2, <1>3, CallIsKnown DEF Reading, CallRecords
<1>5. \A at \in {"classify", "create_run"} : at \notin Owning
    BY DEF Owning, Creating, Executing
<1>6. CASE /\ Reusable(k, k.task) /\ cps[k.task] # NoOutput
           /\ call' = [call EXCEPT ![c] = NextEntryOr([k EXCEPT !.reused = @ \cup {k.task},
                                                               !.outputs[k.task] = cps[k.task]],
                                                      "create_run")]
    <2>1. PICK i : i = [k EXCEPT !.reused = @ \cup {k.task}, !.outputs[k.task] = cps[k.task]]
        OBVIOUS
    <2>2. cps[k.task] \in Outputs \cup {NoOutput}
        BY <1>2, <1>4 DEF ResumeInv, ResumeTypeOK, HistoryTypeOK
    <2>3. i \in CallRecords
        BY <1>4, <2>1, <2>2 DEF CallRecords
    <2>4. /\ i.at = k.at /\ i.task = k.task /\ i.parent = k.parent
          /\ i.reused = k.reused \cup {k.task}
          /\ i.outputs = [k.outputs EXCEPT ![k.task] = cps[k.task]]
        BY <1>4, <2>1 DEF CallRecords
    <2>5. PICK j : j = NextEntryOr(i, "create_run")
        OBVIOUS
    <2>6. /\ j \in CallRecords
          /\ j.parent = k.parent /\ j.reused = k.reused \cup {k.task}
          /\ j.outputs = [k.outputs EXCEPT ![k.task] = cps[k.task]]
          /\ \/ j.at = "create_run" /\ j.task = 1
             \/ j.at = "classify" /\ j.task = k.task + 1
        BY <1>3, <2>3, <2>4, <2>5, NextEntry
    <2>7. /\ CallShape(j)
          /\ ParentKnows(j, runs[j.parent], cps)
          /\ \A d \in Callers \ {c} :
                call[d].at \in Owning /\ call[d].run = j.parent => Agree(j, call[d])
        BY <1>1, <1>2, <1>3, <1>6, <2>6, FoundOutputFits
    <2>8. call' = [call EXCEPT ![c] = j] /\ j.at \notin Owning
        BY <1>5, <1>6, <2>1, <2>5, <2>6
    <2>. QED
        BY <1>2, <1>3, <1>4, <2>6, <2>7, <2>8, QuietStepKeepsInv
<1>7. CASE call' = [call EXCEPT ![c] = NextEntryOr(k, "create_run")]
    <2>1. PICK j : j = NextEntryOr(k, "create_run")
        OBVIOUS
    <2>2. /\ j \in CallRecords /\ k.task \in Int
          /\ j.parent = k.parent /\ j.reused = k.reused /\ j.outputs = k.outputs
          /\ \/ j.at = "create_run" /\ j.task = 1
             \/ j.at = "classify" /\ j.task = k.task + 1
        BY <1>3, <1>4, <2>1, NextEntry, HistoryBounds DEF CallRecords, Tasks
    <2>3. \A t \in k.reused : t \in Int
        BY <1>4, HistoryBounds DEF CallRecords, Tasks
    <2>4. ReuseIsClosed(j)
        BY <1>4, <2>2 DEF CallShape, ReuseIsClosed
    <2>5. j.at = "classify" => \A t \in j.reused : t < j.task
        BY <1>3, <1>4, <2>2, <2>3 DEF CallShape
    <2>6. CallShape(j)
        BY <2>2, <2>4, <2>5 DEF CallShape
    <2>7. ParentKnows(j, runs[j.parent], cps)
        BY <1>4, <2>2 DEF ParentKnows
    <2>8. ASSUME NEW d \in Callers \ {c}, call[d].at \in Owning, call[d].run = j.parent
          PROVE  Agree(j, call[d])
        <3>1. Agree(k, call[d])
            BY <1>1, <1>3, <2>2, <2>8, CallsAreApart DEF Reading
        <3>. QED
            BY <2>2, <3>1 DEF Agree
    <2>9. call' = [call EXCEPT ![c] = j] /\ j.at \notin Owning
        BY <1>5, <1>7, <2>1, <2>2
    <2>. QED
        BY <1>2, <1>3, <1>4, <2>2, <2>6, <2>7, <2>8, <2>9, QuietStepKeepsInv
<1>. QED
    BY <1>1, <1>2, <1>6, <1>7 DEF Classify

\* A refused call changes nothing.
LEMMA RaiseKeepsInv ==
    ASSUME ResumeInv, NEW c \in Callers, Raise(c)
    PROVE  ResumeInv'
<1>1. UNCHANGED historyVars /\ call' = [call EXCEPT ![c] = NoCall]
    BY DEF Raise
<1>. QED
    BY <1>1, NoCallKnows, QuietStepKeepsInv

-----------------------------------------------------------------------------
(* The steps that make the records of a run.                               *)

\* A step of the call that owns r, which gives the records of r these values.
LEMMA RecordsStepKeepsInv ==
    ASSUME ResumeInv, NEW c \in Callers, NEW k, k = call[c], k.at \in Owning,
           NEW r, r = k.run, NEW j \in CallRecords,
           NEW run \in WorkflowRunStatus \cup {Absent},
           NEW tasks \in [Tasks -> TaskRunStatus \cup {Absent}],
           NEW att \in SUBSET Tasks,
           NEW cps \in [Tasks -> Outputs \cup {NoOutput}],
           runs' = [runs EXCEPT ![r] = run],
           taskRuns' = [taskRuns EXCEPT ![r] = tasks],
           attempted' = [attempted EXCEPT ![r] = att],
           checkpoints' = [checkpoints EXCEPT ![r] = cps],
           UNCHANGED <<backend, created, pruneVars>>,
           call' = [call EXCEPT ![c] = j],
           runs[r] \in WorkflowTerminal \cup {Absent} => run = runs[r],
           RunStands(r, run, tasks, att, cps),
           StoresHeld(k, checkpoints[r], cps),
           CallShape(j), j.at \notin Reading,
           j.at \in Owning =>
              /\ j.run = r
              /\ OwnKnows(j, run, tasks, att, cps)
              /\ HoldsOn(k, j)
    PROVE  ResumeInv'
<1>1. r \in Runs
    BY CallIsKnown
<1>2. HistoryTypeOK
    BY DEF ResumeInv, ResumeTypeOK
<1>3. runs'[r] = run /\ taskRuns'[r] = tasks /\ attempted'[r] = att /\ checkpoints'[r] = cps
    BY <1>1, <1>2 DEF HistoryTypeOK
<1>4. \A s \in Runs \ {r} : RecordsKept(s)
    BY <1>1, <1>2 DEF HistoryTypeOK, RecordsKept
<1>5. /\ runs' \in [Runs -> WorkflowRunStatus \cup {Absent}]
      /\ taskRuns' \in [Runs -> [Tasks -> TaskRunStatus \cup {Absent}]]
      /\ attempted' \in [Runs -> SUBSET Tasks]
      /\ checkpoints' \in [Runs -> [Tasks -> Outputs \cup {NoOutput}]]
    BY <1>2 DEF HistoryTypeOK
<1>6. HistoryTypeOK'
    BY <1>2, <1>5 DEF HistoryTypeOK, pruneVars
<1>7. UNCHANGED <<created, pruning>>
    BY DEF pruneVars
<1>8. RunStands(r, runs'[r], taskRuns'[r], attempted'[r], checkpoints'[r])
    BY <1>3
<1>9. j.at \in Owning =>
          /\ j.run = r
          /\ OwnKnows(j, runs'[r], taskRuns'[r], attempted'[r], checkpoints'[r])
          /\ HoldsOn(k, j)
    BY <1>3
<1>10. StoresHeld(k, checkpoints[r], checkpoints'[r])
    BY <1>3
<1>11. runs[r] \in WorkflowTerminal \cup {Absent} => runs'[r] = runs[r]
    BY <1>3
<1>. QED
    BY <1>4, <1>6, <1>7, <1>8, <1>9, <1>10, <1>11, OwnStepKeepsInv

\* What is known of the call that owns a run and of that run.
LEMMA OwnerIsKnown ==
    ASSUME ResumeInv, NEW c \in Callers, NEW k, k = call[c], k.at \in Owning
    PROVE  /\ k \in CallRecords /\ CallShape(k) /\ ReuseIsClosed(k)
           /\ k.run \in Runs /\ k.task \in Tasks /\ k.reused \subseteq Tasks
           /\ k.outputs \in [Tasks -> Outputs \cup {NoOutput}]
           /\ OwnKnows(k, runs[k.run], taskRuns[k.run], attempted[k.run], checkpoints[k.run])
           /\ RunStands(k.run, runs[k.run], taskRuns[k.run], attempted[k.run],
                        checkpoints[k.run])
           /\ runs[k.run] \in WorkflowRunStatus \cup {Absent}
           /\ taskRuns[k.run] \in [Tasks -> TaskRunStatus \cup {Absent}]
           /\ attempted[k.run] \in SUBSET Tasks
           /\ checkpoints[k.run] \in [Tasks -> Outputs \cup {NoOutput}]
           /\ runs \in [Runs -> WorkflowRunStatus \cup {Absent}]
           /\ taskRuns \in [Runs -> [Tasks -> TaskRunStatus \cup {Absent}]]
           /\ attempted \in [Runs -> SUBSET Tasks]
           /\ checkpoints \in [Runs -> [Tasks -> Outputs \cup {NoOutput}]]
           /\ call \in [Callers -> CallRecords]
<1>1. k \in CallRecords /\ CallShape(k) /\ k.run \in Runs
      /\ OwnKnows(k, runs[k.run], taskRuns[k.run], attempted[k.run], checkpoints[k.run])
    BY CallIsKnown
<1>2. k.task \in Tasks /\ k.reused \subseteq Tasks
      /\ k.outputs \in [Tasks -> Outputs \cup {NoOutput}]
    BY <1>1 DEF CallRecords
<1>3. ReuseIsClosed(k)
    BY <1>1 DEF CallShape
<1>. QED
    BY <1>1, <1>2, <1>3, RunIsKnown DEF ResumeInv, ResumeTypeOK, HistoryTypeOK

\* The run is created: nobody knew it before.
LEMMA CreateRunKeepsInv ==
    ASSUME ResumeInv, NEW c \in Callers, CreateRun(c)
    PROVE  ResumeInv'
<1>1. PICK k, r : k = call[c] /\ r = created + 1
    OBVIOUS
<1>2. HistoryTypeOK
    BY DEF ResumeInv, ResumeTypeOK
<1>3. /\ created \in Int /\ r \in Runs /\ created <= created' /\ r <= created'
      /\ created' \in 0..RunBound /\ r \in Int /\ r > created
    BY <1>1, <1>2, HistoryBounds DEF CreateRun, HistoryTypeOK, Runs
<1>4. k \in CallRecords /\ CallShape(k) /\ k.at = "create_run" /\ k.task = 1
    BY <1>1, CallIsKnown DEF CreateRun, CallShape
<1>5. PICK j : j = [k EXCEPT !.at = "create_tasks", !.run = r]
    OBVIOUS
<1>6. /\ j \in CallRecords /\ j.at = "create_tasks" /\ j.run = r /\ j.task = 1
      /\ j.reused = k.reused /\ j.outputs = k.outputs
    BY <1>3, <1>4, <1>5 DEF CallRecords, CallSteps, Creating
<1>7. call' = [call EXCEPT ![c] = j]
    BY <1>1, <1>4, <1>5 DEF CreateRun, CallRecords, ResumeInv, ResumeTypeOK
<1>8. runs[r] = Absent /\ RunStands(r, runs[r], taskRuns[r], attempted[r], checkpoints[r])
    BY <1>3, RunIsKnown DEF ResumeInv, NothingIsAhead
<1>9. attempted[r] = {} /\ \A t \in Tasks : taskRuns[r][t] = Absent /\ checkpoints[r][t] = NoOutput
    BY <1>8 DEF RunStands
<1>10. /\ runs' = [runs EXCEPT ![r] = "PENDING"]
       /\ UNCHANGED <<backend, taskRuns, attempted, checkpoints, pruneVars>>
    BY <1>1 DEF CreateRun
<1>11. runs'[r] = "PENDING" /\ runs' \in [Runs -> WorkflowRunStatus \cup {Absent}]
    BY <1>2, <1>3, <1>10 DEF HistoryTypeOK, WorkflowRunStatus
<1>12. HistoryTypeOK'
    BY <1>2, <1>3, <1>10, <1>11 DEF HistoryTypeOK, pruneVars
<1>13. \A s \in Runs \ {r} : RecordsKept(s)
    BY <1>2, <1>3, <1>10 DEF HistoryTypeOK, RecordsKept
<1>14. runs[r] \in WorkflowTerminal => runs'[r] = runs[r]
    BY <1>8 DEF WorkflowTerminal, Absent
<1>15. RunStands(r, runs'[r], taskRuns'[r], attempted'[r], checkpoints'[r])
    BY <1>9, <1>10, <1>11 DEF RunStands, Absent
<1>16. CallShape(j)
    <2>1. ReuseIsClosed(j)
        BY <1>4, <1>6 DEF CallShape, ReuseIsClosed
    <2>. QED
        BY <1>6, <2>1 DEF CallShape
<1>17. OwnKnows(j, runs'[r], taskRuns'[r], attempted'[r], checkpoints'[r])
    <2>1. \A t \in Tasks : ~ Made(j, t)
        BY <1>6, HistoryBounds DEF Made, Tasks
    <2>2. MadeSoFar(j, runs'[r], taskRuns'[r], attempted'[r], checkpoints'[r])
        BY <1>6, <1>9, <1>10, <1>11, <2>1 DEF MadeSoFar
    <2>. QED
        BY <1>6, <1>9, <1>10, <2>2 DEF OwnKnows, Executing
<1>18. OthersGoOn(c, j, r)
    <2>1. ASSUME NEW d \in Callers \ {c}, NEW i, i = call[d]
          PROVE  /\ ~ (i.at \in Owning /\ i.run = r)
                 /\ ~ (i.at \in Reading /\ i.parent = r)
        BY <1>3, <2>1, CallIsKnown
    <2>2. j.at \notin Reading
        BY <1>6 DEF Reading
    <2>. QED
        BY <2>1, <2>2 DEF OthersGoOn
<1>19. j.at \notin Reading /\ pruning' = pruning
    BY <1>6, <1>10 DEF Reading, pruneVars
<1>. QED
    BY <1>3, <1>6, <1>7, <1>12, <1>13, <1>14, <1>15, <1>16, <1>17, <1>18, <1>19,
       CallStepKeepsInv

\* The run of k is made up to the current task.
MadeUpTo(k, run, tasks, att, cps) ==
    /\ run \in {"PENDING", "CANCELLATION_REQUESTED", "CANCELLED", Absent}
    /\ att = {}
    /\ \A t \in Tasks :
          /\ cps[t] \in {NoOutput, k.outputs[t]}
          /\ cps[t] # NoOutput => t \in k.reused /\ t <= k.task
          /\ t <= k.task /\ run \notin {"CANCELLED", Absent} =>
                /\ tasks[t] # Absent
                /\ t \in k.reused => tasks[t] = "REUSED" /\ cps[t] = k.outputs[t]

\* The call after a record of its current task is made.
LEMMA NextCreationKnows ==
    ASSUME NEW k \in CallRecords, CallShape(k),
           k.at \in {"create_tasks", "copy"},
           NEW run, NEW tasks, NEW att, NEW cps, MadeUpTo(k, run, tasks, att, cps),
           NEW j, j = NextCreation(k)
    PROVE  /\ j \in CallRecords /\ CallShape(j) /\ j.at \in Creating
           /\ j.run = k.run /\ j.reused = k.reused /\ j.outputs = k.outputs
           /\ OwnKnows(j, run, tasks, att, cps)
<1>1. PICK i : i = [k EXCEPT !.at = "create_tasks"]
    OBVIOUS
<1>2. /\ i \in CallRecords /\ i.at = "create_tasks" /\ i.task = k.task /\ i.run = k.run
      /\ i.reused = k.reused /\ i.outputs = k.outputs /\ "start_run" \in CallSteps
    BY <1>1 DEF CallRecords, CallSteps, Creating
<1>3. /\ j \in CallRecords
      /\ j.run = k.run /\ j.reused = k.reused /\ j.outputs = k.outputs
      /\ \/ k.task = TaskCount /\ j.at = "start_run" /\ j.task = 1
         \/ j.at = "create_tasks" /\ j.task = k.task + 1
    <2>1. j = NextEntryOr(i, "start_run")
        BY <1>1 DEF NextCreation
    <2>. QED
        BY <1>2, <2>1, NextEntry
<1>4. k.task \in Int /\ TaskCount \in Int /\ \A t \in Tasks : t \in Int /\ t <= TaskCount
    BY HistoryBounds DEF CallRecords, Tasks
<1>5. CallShape(j)
    <2>1. ReuseIsClosed(j)
        BY <1>3 DEF CallShape, ReuseIsClosed
    <2>. QED
        BY <1>3, <2>1 DEF CallShape
<1>6. ASSUME NEW t \in Tasks
      PROVE  Made(j, t) <=> t <= k.task
    BY <1>3, <1>4 DEF Made
<1>7. MadeSoFar(j, run, tasks, att, cps)
    BY <1>3, <1>4, <1>6 DEF MadeSoFar, MadeUpTo
<1>8. j.at \in Creating /\ j.at \notin Executing
    BY <1>3 DEF Creating, Executing
<1>9. OwnKnows(j, run, tasks, att, cps)
    BY <1>3, <1>7, <1>8 DEF OwnKnows, Done, MadeUpTo
<1>. QED
    BY <1>3, <1>5, <1>8, <1>9

\* A task run is created.
LEMMA CreateTaskKeepsInv ==
    ASSUME ResumeInv, NEW c \in Callers, CreateTask(c)
    PROVE  ResumeInv'
<1>1. PICK k, r : k = call[c] /\ r = k.run
    OBVIOUS
<1>2. k.at = "create_tasks" /\ k.at \in Owning
    BY <1>1 DEF CreateTask, Owning, Creating
<1>3. PICK run, tasks, att, cps : /\ run = runs[r] /\ tasks = taskRuns[r]
                                  /\ att = attempted[r] /\ cps = checkpoints[r]
    OBVIOUS
<1>4. /\ k \in CallRecords /\ CallShape(k) /\ ReuseIsClosed(k)
      /\ r \in Runs /\ k.task \in Tasks
      /\ OwnKnows(k, run, tasks, att, cps) /\ RunStands(r, run, tasks, att, cps)
      /\ run \in WorkflowRunStatus \cup {Absent}
      /\ tasks \in [Tasks -> TaskRunStatus \cup {Absent}]
      /\ att \in SUBSET Tasks /\ cps \in [Tasks -> Outputs \cup {NoOutput}]
    BY <1>1, <1>2, <1>3, OwnerIsKnown
<1>5. PICK new : new = [tasks EXCEPT ![k.task] = "PENDING"]
    OBVIOUS
<1>6. PICK j : j = IF k.task \in k.reused THEN [k EXCEPT !.at = "reuse"] ELSE NextCreation(k)
    OBVIOUS
<1>7. /\ run # Absent
      /\ call' = [call EXCEPT ![c] = j]
      /\ SetTaskRun(k, "PENDING")
    BY <1>1, <1>2, <1>3, <1>6 DEF CreateTask, Accepts
<1>8. /\ runs' = [runs EXCEPT ![r] = run]
      /\ taskRuns' = [taskRuns EXCEPT ![r] = new]
      /\ attempted' = [attempted EXCEPT ![r] = att]
      /\ checkpoints' = [checkpoints EXCEPT ![r] = cps]
      /\ UNCHANGED <<backend, created, pruneVars>>
    BY <1>1, <1>2, <1>3, <1>5, <1>7, OwnerIsKnown DEF SetTaskRun
<1>9. MadeSoFar(k, run, tasks, att, cps)
    BY <1>2, <1>4 DEF OwnKnows, Creating
<1>10. k.task \in Int /\ \A t \in Tasks : t \in Int /\ (Made(k, t) <=> t < k.task)
    BY <1>2, <1>4, HistoryBounds DEF Made, Tasks
<1>11. \A t \in Tasks : new[t] = IF t = k.task THEN "PENDING" ELSE tasks[t]
    BY <1>4, <1>5
<1>12. new \in [Tasks -> TaskRunStatus \cup {Absent}]
    BY <1>4, <1>5 DEF TaskRunStatus
<1>13. RunStands(r, run, new, att, cps)
    BY <1>4, <1>7 DEF RunStands
<1>14. \A t \in Tasks : /\ cps[t] \in {NoOutput, k.outputs[t]}
                        /\ cps[t] # NoOutput => t \in k.reused
    BY <1>2, <1>4 DEF OwnKnows, Done, Executing
<1>15. /\ j \in CallRecords /\ CallShape(j) /\ j.at \in Creating
       /\ j.run = k.run /\ j.reused = k.reused /\ j.outputs = k.outputs
       /\ OwnKnows(j, run, new, att, cps)
    <2>1. CASE k.task \in k.reused
        <3>1. /\ j \in CallRecords /\ j.at = "reuse" /\ j.task = k.task /\ j.run = k.run
              /\ j.reused = k.reused /\ j.outputs = k.outputs
            BY <1>4, <1>6, <2>1 DEF CallRecords, CallSteps, Creating
        <3>2. ReuseIsClosed(j)
            BY <1>4, <3>1 DEF ReuseIsClosed
        <3>3. CallShape(j)
            BY <2>1, <3>1, <3>2 DEF CallShape
        <3>4. \A t \in Tasks : Made(j, t) <=> t < k.task
            BY <3>1 DEF Made
        <3>5. MadeSoFar(j, run, new, att, cps)
            BY <1>9, <1>10, <1>11, <3>1, <3>4 DEF MadeSoFar
        <3>6. OwnKnows(j, run, new, att, cps)
            BY <1>14, <3>1, <3>5 DEF OwnKnows, Done, Executing
        <3>. QED
            BY <3>1, <3>3, <3>6 DEF Creating
    <2>2. CASE k.task \notin k.reused
        <3>1. j = NextCreation(k)
            BY <1>6, <2>2
        <3>2. MadeUpTo(k, run, new, att, cps)
            BY <1>9, <1>10, <1>11, <1>14, <2>2 DEF MadeSoFar, MadeUpTo, Absent
        <3>3. k.at \in {"create_tasks", "copy"}
            BY <1>2
        <3>. QED
            BY <1>4, <3>1, <3>2, <3>3, NextCreationKnows
    <2>. QED
        BY <2>1, <2>2
<1>16. /\ j.at \notin Reading
       /\ HoldsOn(k, j) /\ StoresHeld(k, checkpoints[r], cps)
    BY <1>2, <1>3, <1>15 DEF Reading, Creating, Done, Executing, HoldsOn, StoresHeld
<1>. QED
    BY <1>1, <1>2, <1>3, <1>4, <1>7, <1>8, <1>12, <1>13, <1>15, <1>16, RecordsStepKeepsInv

\* A task run is marked as reused.
LEMMA MarkReusedKeepsInv ==
    ASSUME ResumeInv, NEW c \in Callers, MarkReused(c)
    PROVE  ResumeInv'
<1>1. PICK k, r : k = call[c] /\ r = k.run
    OBVIOUS
<1>2. k.at = "reuse" /\ k.at \in Owning
    BY <1>1 DEF MarkReused, Owning, Creating
<1>3. PICK run, tasks, att, cps : /\ run = runs[r] /\ tasks = taskRuns[r]
                                  /\ att = attempted[r] /\ cps = checkpoints[r]
    OBVIOUS
<1>4. /\ k \in CallRecords /\ CallShape(k) /\ ReuseIsClosed(k)
      /\ r \in Runs /\ k.task \in Tasks
      /\ OwnKnows(k, run, tasks, att, cps) /\ RunStands(r, run, tasks, att, cps)
      /\ run \in WorkflowRunStatus \cup {Absent}
      /\ tasks \in [Tasks -> TaskRunStatus \cup {Absent}]
      /\ att \in SUBSET Tasks /\ cps \in [Tasks -> Outputs \cup {NoOutput}]
    BY <1>1, <1>2, <1>3, OwnerIsKnown
<1>5. PICK new : new = [tasks EXCEPT ![k.task] = "REUSED"]
    OBVIOUS
<1>6. PICK j : j = [k EXCEPT !.at = "copy"]
    OBVIOUS
<1>7. /\ tasks[k.task] = "PENDING"
      /\ call' = [call EXCEPT ![c] = j]
      /\ SetTaskRun(k, "REUSED")
    BY <1>1, <1>2, <1>3, <1>4, <1>6 DEF MarkReused, Accepts, CallRecords, ResumeInv,
                                        ResumeTypeOK
<1>8. /\ runs' = [runs EXCEPT ![r] = run]
      /\ taskRuns' = [taskRuns EXCEPT ![r] = new]
      /\ attempted' = [attempted EXCEPT ![r] = att]
      /\ checkpoints' = [checkpoints EXCEPT ![r] = cps]
      /\ UNCHANGED <<backend, created, pruneVars>>
    BY <1>1, <1>2, <1>3, <1>5, <1>7, OwnerIsKnown DEF SetTaskRun
<1>9. MadeSoFar(k, run, tasks, att, cps)
    BY <1>2, <1>4 DEF OwnKnows, Creating
<1>10. /\ j \in CallRecords /\ j.at = "copy" /\ j.task = k.task /\ j.run = k.run
       /\ j.reused = k.reused /\ j.outputs = k.outputs
    BY <1>4, <1>6 DEF CallRecords, CallSteps, Creating
<1>11. CallShape(j)
    <2>1. ReuseIsClosed(j) /\ k.task \in k.reused
        BY <1>2, <1>4, <1>10 DEF CallShape, ReuseIsClosed
    <2>. QED
        BY <1>10, <2>1 DEF CallShape
<1>12. \A t \in Tasks : new[t] = IF t = k.task THEN "REUSED" ELSE tasks[t]
    BY <1>4, <1>5
<1>13. new \in [Tasks -> TaskRunStatus \cup {Absent}]
    BY <1>4, <1>5 DEF TaskRunStatus
<1>14. RunStands(r, run, new, att, cps)
    BY <1>4, <1>7 DEF RunStands, Absent
<1>15. \A t \in Tasks : Made(k, t) <=> Made(j, t)
    BY <1>2, <1>10 DEF Made
<1>16. MadeSoFar(j, run, new, att, cps)
    BY <1>2, <1>4, <1>9, <1>10, <1>12, <1>15 DEF MadeSoFar, Absent
<1>17. OwnKnows(j, run, new, att, cps)
    BY <1>2, <1>4, <1>10, <1>16 DEF OwnKnows, Done, Executing
<1>18. /\ j.at \notin Reading
       /\ HoldsOn(k, j) /\ StoresHeld(k, checkpoints[r], cps)
    BY <1>2, <1>3, <1>10 DEF Reading, Done, Executing, HoldsOn, StoresHeld
<1>. QED
    BY <1>1, <1>2, <1>3, <1>4, <1>7, <1>8, <1>10, <1>11, <1>13, <1>14, <1>17, <1>18,
       RecordsStepKeepsInv

\* The output of a reused task is copied.
LEMMA CopyCheckpointKeepsInv ==
    ASSUME ResumeInv, NEW c \in Callers, CopyCheckpoint(c)
    PROVE  ResumeInv'
<1>1. PICK k, r : k = call[c] /\ r = k.run
    OBVIOUS
<1>2. k.at = "copy" /\ k.at \in Owning
    BY <1>1 DEF CopyCheckpoint, Owning, Creating
<1>3. PICK run, tasks, att, cps : /\ run = runs[r] /\ tasks = taskRuns[r]
                                  /\ att = attempted[r] /\ cps = checkpoints[r]
    OBVIOUS
<1>4. /\ k \in CallRecords /\ CallShape(k) /\ ReuseIsClosed(k)
      /\ r \in Runs /\ k.task \in Tasks /\ k.reused \subseteq Tasks
      /\ k.outputs \in [Tasks -> Outputs \cup {NoOutput}]
      /\ OwnKnows(k, run, tasks, att, cps) /\ RunStands(r, run, tasks, att, cps)
      /\ run \in WorkflowRunStatus \cup {Absent}
      /\ tasks \in [Tasks -> TaskRunStatus \cup {Absent}]
      /\ att \in SUBSET Tasks /\ cps \in [Tasks -> Outputs \cup {NoOutput}]
    BY <1>1, <1>2, <1>3, OwnerIsKnown
<1>5. PICK new : new = [cps EXCEPT ![k.task] = k.outputs[k.task]]
    OBVIOUS
<1>6. PICK j : j = NextCreation(k)
    OBVIOUS
<1>7. /\ tasks[k.task] = "REUSED"
      /\ call' = [call EXCEPT ![c] = j]
    BY <1>1, <1>2, <1>3, <1>6 DEF CopyCheckpoint, Accepts
<1>8. /\ runs' = [runs EXCEPT ![r] = run]
      /\ taskRuns' = [taskRuns EXCEPT ![r] = tasks]
      /\ attempted' = [attempted EXCEPT ![r] = att]
      /\ checkpoints' = [checkpoints EXCEPT ![r] = new]
      /\ UNCHANGED <<backend, created, pruneVars>>
    BY <1>1, <1>2, <1>3, <1>5, OwnerIsKnown DEF CopyCheckpoint, CopiedOutput
<1>9. MadeSoFar(k, run, tasks, att, cps)
    BY <1>2, <1>4 DEF OwnKnows, Creating
<1>10. k.task \in Int /\ \A t \in Tasks : t \in Int /\ (Made(k, t) <=> t < k.task)
    BY <1>2, <1>4, HistoryBounds DEF Made, Tasks
<1>11. /\ \A t \in Tasks : new[t] = IF t = k.task THEN k.outputs[t] ELSE cps[t]
       /\ new \in [Tasks -> Outputs \cup {NoOutput}]
    BY <1>4, <1>5
<1>12. k.task \in k.reused
    BY <1>2, <1>4 DEF CallShape
<1>13. run # Absent
    BY <1>4, <1>7 DEF RunStands, Absent
<1>14. RunStands(r, run, tasks, att, new)
    <2>1. ASSUME NEW t \in Tasks, new[t] # NoOutput, NEW d \in Upstream[t]
          PROVE  IF new[d] # NoOutput THEN new[t].from[d] = new[d].by
                 ELSE new[t].from[d] = r \/ (run = "CANCELLED" /\ att = {})
        <3>1. d \in Tasks /\ d < t
            BY <2>1, UpstreamPrecedes
        <3>2. CASE t = k.task
            <4>1. d \in k.reused /\ k.outputs[t].from[d] = k.outputs[d].by /\ Made(k, d)
                BY <1>4, <1>10, <1>12, <3>1, <3>2 DEF ReuseIsClosed
            <4>2. cps[d] \in {NoOutput, k.outputs[d]} /\ k.outputs[d] # NoOutput
                BY <1>4, <3>1, <4>1 DEF OwnKnows, ReuseIsClosed
            <4>3. cps[d] = NoOutput => run = "CANCELLED" /\ att = {}
                BY <1>9, <1>13, <3>1, <4>1, <4>2 DEF MadeSoFar
            <4>4. new[t] = k.outputs[t] /\ new[d] = cps[d]
                BY <1>10, <1>11, <3>1, <3>2
            <4>. QED
                BY <4>1, <4>2, <4>3, <4>4
        <3>3. CASE t # k.task
            <4>1. cps[t] # NoOutput /\ new[t] = cps[t] /\ Made(k, t)
                BY <1>9, <1>11, <2>1, <3>3 DEF MadeSoFar
            <4>2. new[d] = cps[d]
                BY <1>10, <1>11, <3>1, <4>1
            <4>. QED
                BY <1>4, <4>1, <4>2 DEF RunStands
        <3>. QED
            BY <3>2, <3>3
    <2>. QED
        BY <1>13, <2>1 DEF RunStands
<1>15. StoresHeld(k, checkpoints[r], new)
    BY <1>3, <1>4, <1>11, <1>12 DEF StoresHeld, ReuseIsClosed
<1>16. MadeUpTo(k, run, tasks, att, new)
    <2>1. \A t \in Tasks : /\ cps[t] \in {NoOutput, k.outputs[t]}
                           /\ cps[t] # NoOutput => t \in k.reused
        BY <1>2, <1>4 DEF OwnKnows, Done, Executing
    <2>. QED
        BY <1>7, <1>9, <1>10, <1>11, <1>12, <2>1 DEF MadeSoFar, MadeUpTo, Absent
<1>17. k.at \in {"create_tasks", "copy"}
    BY <1>2
<1>18. /\ j \in CallRecords /\ CallShape(j) /\ j.at \in Creating
       /\ j.run = k.run /\ j.reused = k.reused /\ j.outputs = k.outputs
       /\ OwnKnows(j, run, tasks, att, new)
    BY <1>4, <1>6, <1>16, <1>17, NextCreationKnows
<1>19. j.at \notin Reading /\ HoldsOn(k, j)
    BY <1>2, <1>18 DEF Reading, Creating, Done, Executing, HoldsOn
<1>. QED
    BY <1>1, <1>2, <1>3, <1>4, <1>7, <1>8, <1>11, <1>14, <1>15, <1>18, <1>19,
       RecordsStepKeepsInv

\* The run starts: it is complete.
LEMMA StartRunKeepsInv ==
    ASSUME ResumeInv, NEW c \in Callers, StartRun(c)
    PROVE  ResumeInv'
<1>1. PICK k, r : k = call[c] /\ r = k.run
    OBVIOUS
<1>2. k.at = "start_run" /\ k.at \in Owning
    BY <1>1 DEF StartRun, Owning, Creating
<1>3. PICK run, tasks, att, cps : /\ run = runs[r] /\ tasks = taskRuns[r]
                                  /\ att = attempted[r] /\ cps = checkpoints[r]
    OBVIOUS
<1>4. /\ k \in CallRecords /\ CallShape(k) /\ ReuseIsClosed(k)
      /\ r \in Runs /\ k.task \in Tasks /\ k.reused \subseteq Tasks
      /\ k.outputs \in [Tasks -> Outputs \cup {NoOutput}]
      /\ OwnKnows(k, run, tasks, att, cps) /\ RunStands(r, run, tasks, att, cps)
      /\ run \in WorkflowRunStatus \cup {Absent}
      /\ tasks \in [Tasks -> TaskRunStatus \cup {Absent}]
      /\ att \in SUBSET Tasks /\ cps \in [Tasks -> Outputs \cup {NoOutput}]
    BY <1>1, <1>2, <1>3, OwnerIsKnown
<1>5. PICK j : j = [k EXCEPT !.at = "execute"]
    OBVIOUS
<1>6. /\ run = "PENDING"
      /\ call' = [call EXCEPT ![c] = j]
    BY <1>1, <1>2, <1>3, <1>4, <1>5 DEF StartRun, Accepts, CallRecords, ResumeInv, ResumeTypeOK
<1>7. /\ runs' = [runs EXCEPT ![r] = "RUNNING"]
      /\ taskRuns' = [taskRuns EXCEPT ![r] = tasks]
      /\ attempted' = [attempted EXCEPT ![r] = att]
      /\ checkpoints' = [checkpoints EXCEPT ![r] = cps]
      /\ UNCHANGED <<backend, created, pruneVars>>
    BY <1>1, <1>2, <1>3, OwnerIsKnown DEF StartRun
<1>8. MadeSoFar(k, run, tasks, att, cps) /\ \A t \in Tasks : Made(k, t)
    BY <1>2, <1>4 DEF OwnKnows, Creating, Made
<1>9. /\ j \in CallRecords /\ j.at = "execute" /\ j.task = 1 /\ j.run = k.run
      /\ j.reused = k.reused /\ j.outputs = k.outputs
    BY <1>2, <1>4, <1>5 DEF CallRecords, CallSteps, Executing, CallShape
<1>10. CallShape(j)
    <2>1. ReuseIsClosed(j)
        BY <1>4, <1>9 DEF ReuseIsClosed
    <2>2. \A t \in Tasks : ~ (t < j.task)
        BY <1>9, HistoryBounds DEF Tasks
    <2>. QED
        BY <1>9, <2>1, <2>2 DEF CallShape
<1>11. RunStands(r, "RUNNING", tasks, att, cps)
    BY <1>4, <1>6 DEF RunStands, Absent
<1>12. ExecutedSoFar(j, "RUNNING", tasks, att, cps)
    BY <1>4, <1>6, <1>8, <1>9 DEF ExecutedSoFar, MadeSoFar, Absent
<1>13. OwnKnows(j, "RUNNING", tasks, att, cps)
    BY <1>2, <1>4, <1>9, <1>12 DEF OwnKnows, Done, Creating, Executing
<1>14. j.at \notin Reading /\ HoldsOn(k, j) /\ StoresHeld(k, checkpoints[r], cps)
    BY <1>2, <1>3, <1>9 DEF Reading, Done, Executing, HoldsOn, StoresHeld
<1>15. /\ "RUNNING" \in WorkflowRunStatus \cup {Absent}
       /\ run \notin WorkflowTerminal \cup {Absent}
    BY <1>6 DEF WorkflowRunStatus, WorkflowTerminal, Absent
<1>. QED
    BY <1>1, <1>2, <1>3, <1>4, <1>6, <1>7, <1>9, <1>10, <1>11, <1>13, <1>14, <1>15,
       RecordsStepKeepsInv

-----------------------------------------------------------------------------
(* The steps that execute a run.                                           *)

\* The call at the next plan entry, when its current task is one that it reused
\* or whose output it holds.
LEMMA NextExecutionKnows ==
    ASSUME NEW k \in CallRecords, CallShape(k),
           \/ k.at = "execute" /\ k.task \in k.reused
           \/ k.at = "checkpoint",
           NEW run, NEW tasks, NEW att \in SUBSET Tasks, NEW cps,
           ExecutedSoFar(k, run, tasks, att, cps),
           \A t \in Tasks : /\ cps[t] \in {NoOutput, k.outputs[t]}
                            /\ cps[t] # NoOutput => t \in k.reused \/ t <= k.task,
           NEW j, j = NextExecution(k)
    PROVE  /\ j \in CallRecords /\ CallShape(j) /\ j.at \in Executing
           /\ j.run = k.run /\ HoldsOn(k, j)
           /\ OwnKnows(j, run, tasks, att, cps)
<1>1. PICK i : i = [k EXCEPT !.at = "execute"]
    OBVIOUS
<1>2. /\ i \in CallRecords /\ i.at = "execute" /\ i.task = k.task /\ i.run = k.run
      /\ i.reused = k.reused /\ i.outputs = k.outputs /\ "finish" \in CallSteps
    BY <1>1 DEF CallRecords, CallSteps, Executing
<1>3. /\ j \in CallRecords
      /\ j.run = k.run /\ j.reused = k.reused /\ j.outputs = k.outputs
      /\ \/ k.task = TaskCount /\ j.at = "finish" /\ j.task = 1
         \/ j.at = "execute" /\ j.task = k.task + 1
    <2>1. j = NextEntryOr(i, "finish")
        BY <1>1 DEF NextExecution
    <2>. QED
        BY <1>2, <2>1, NextEntry
<1>4. k.task \in Int /\ TaskCount \in Int /\ \A t \in Tasks : t \in Int /\ t <= TaskCount
    BY HistoryBounds DEF CallRecords, Tasks
<1>5. CallShape(j)
    <2>1. ReuseIsClosed(j)
        BY <1>3 DEF CallShape, ReuseIsClosed
    <2>2. ASSUME NEW t \in Tasks \ j.reused, j.at = "execute", t < j.task
          PROVE  j.outputs[t].by = j.run
        <3>1. t <= k.task
            BY <1>3, <1>4, <2>2
        <3>2. CASE t < k.task
            BY <1>3, <2>2, <3>2 DEF CallShape
        <3>3. CASE t = k.task
            BY <1>3, <2>2, <3>3 DEF CallShape, Computed
        <3>. QED
            BY <1>4, <3>1, <3>2, <3>3
    <2>. QED
        BY <1>3, <2>1, <2>2 DEF CallShape
<1>6. k.at \in Executing /\ j.at \in Executing /\ j.at \notin Creating
    BY <1>3 DEF Executing, Creating
<1>7. \A t \in Tasks : t \in k.reused \/ t <= k.task => Done(j, t)
    BY <1>3, <1>4, <1>6 DEF Done
<1>8. HoldsOn(k, j)
    <2>1. \A t \in Tasks : Done(k, t) => t \in k.reused \/ t <= k.task
        BY <1>4 DEF Done
    <2>. QED
        BY <1>3, <1>7, <2>1 DEF HoldsOn
<1>9. ExecutedSoFar(j, run, tasks, att, cps)
    <2>1. \A t \in att : t \in Int
        BY <1>4
    <2>. QED
        BY <1>3, <1>4, <2>1 DEF ExecutedSoFar
<1>10. OwnKnows(j, run, tasks, att, cps)
    BY <1>3, <1>6, <1>7, <1>9 DEF OwnKnows
<1>. QED
    BY <1>3, <1>5, <1>6, <1>8, <1>10

\* A reused task is passed.
LEMMA SkipReusedKeepsInv ==
    ASSUME ResumeInv, NEW c \in Callers, SkipReused(c)
    PROVE  ResumeInv'
<1>1. PICK k, r : k = call[c] /\ r = k.run
    OBVIOUS
<1>2. k.at = "execute" /\ k.task \in k.reused /\ k.at \in Owning
    BY <1>1 DEF SkipReused, Owning, Executing, PassesReused
<1>3. PICK run, tasks, att, cps : /\ run = runs[r] /\ tasks = taskRuns[r]
                                  /\ att = attempted[r] /\ cps = checkpoints[r]
    OBVIOUS
<1>4. /\ k \in CallRecords /\ CallShape(k) /\ ReuseIsClosed(k)
      /\ r \in Runs /\ k.task \in Tasks /\ k.reused \subseteq Tasks
      /\ k.outputs \in [Tasks -> Outputs \cup {NoOutput}]
      /\ OwnKnows(k, run, tasks, att, cps) /\ RunStands(r, run, tasks, att, cps)
      /\ run \in WorkflowRunStatus \cup {Absent}
      /\ tasks \in [Tasks -> TaskRunStatus \cup {Absent}]
      /\ att \in SUBSET Tasks /\ cps \in [Tasks -> Outputs \cup {NoOutput}]
    BY <1>1, <1>2, <1>3, OwnerIsKnown
<1>5. PICK j : j = NextExecution(k)
    OBVIOUS
<1>6. call' = [call EXCEPT ![c] = j] /\ UNCHANGED historyVars
    BY <1>1, <1>5 DEF SkipReused
<1>7. /\ runs' = [runs EXCEPT ![r] = run]
      /\ taskRuns' = [taskRuns EXCEPT ![r] = tasks]
      /\ attempted' = [attempted EXCEPT ![r] = att]
      /\ checkpoints' = [checkpoints EXCEPT ![r] = cps]
      /\ UNCHANGED <<backend, created, pruneVars>>
    BY <1>1, <1>2, <1>3, <1>6, OwnerIsKnown DEF historyVars, records
<1>8. ExecutedSoFar(k, run, tasks, att, cps)
    BY <1>2, <1>4 DEF OwnKnows, Executing
<1>9. \A t \in Tasks : /\ cps[t] \in {NoOutput, k.outputs[t]}
                       /\ cps[t] # NoOutput => t \in k.reused \/ t <= k.task
    <2>1. k.task \in Int /\ \A t \in Tasks : t \in Int
        BY <1>4, HistoryBounds DEF Tasks
    <2>. QED
        BY <1>2, <1>4, <2>1 DEF OwnKnows, Done
<1>10. /\ j \in CallRecords /\ CallShape(j) /\ j.at \in Executing
       /\ j.run = k.run /\ HoldsOn(k, j)
       /\ OwnKnows(j, run, tasks, att, cps)
    BY <1>2, <1>4, <1>5, <1>8, <1>9, NextExecutionKnows
<1>11. j.at \notin Reading /\ StoresHeld(k, checkpoints[r], cps)
    BY <1>3, <1>10 DEF Reading, Executing, StoresHeld
<1>. QED
    BY <1>1, <1>2, <1>3, <1>4, <1>6, <1>7, <1>10, <1>11, RecordsStepKeepsInv

\* A task starts, in a run that nobody has cancelled.
LEMMA StartTaskKeepsInv ==
    ASSUME ResumeInv, NEW c \in Callers, StartTask(c)
    PROVE  ResumeInv'
<1>1. PICK k, r : k = call[c] /\ r = k.run
    OBVIOUS
<1>2. k.at = "execute" /\ k.task \notin k.reused /\ k.at \in Owning
    BY <1>1 DEF StartTask, Owning, Executing, PassesReused
<1>3. PICK run, tasks, att, cps : /\ run = runs[r] /\ tasks = taskRuns[r]
                                  /\ att = attempted[r] /\ cps = checkpoints[r]
    OBVIOUS
<1>4. /\ k \in CallRecords /\ CallShape(k) /\ ReuseIsClosed(k)
      /\ r \in Runs /\ k.task \in Tasks /\ k.reused \subseteq Tasks
      /\ k.outputs \in [Tasks -> Outputs \cup {NoOutput}]
      /\ OwnKnows(k, run, tasks, att, cps) /\ RunStands(r, run, tasks, att, cps)
      /\ run \in WorkflowRunStatus \cup {Absent}
      /\ tasks \in [Tasks -> TaskRunStatus \cup {Absent}]
      /\ att \in SUBSET Tasks /\ cps \in [Tasks -> Outputs \cup {NoOutput}]
    BY <1>1, <1>2, <1>3, OwnerIsKnown
<1>5. PICK new : new = [tasks EXCEPT ![k.task] = "RUNNING"]
    OBVIOUS
<1>6. PICK j : j = [k EXCEPT !.at = "append"]
    OBVIOUS
<1>7. /\ tasks[k.task] = "PENDING"
      /\ call' = [call EXCEPT ![c] = j]
      /\ SetTaskRun(k, "RUNNING")
    BY <1>1, <1>2, <1>3, <1>4, <1>6 DEF StartTask, Accepts, CallRecords, ResumeInv,
                                        ResumeTypeOK
<1>8. /\ runs' = [runs EXCEPT ![r] = run]
      /\ taskRuns' = [taskRuns EXCEPT ![r] = new]
      /\ attempted' = [attempted EXCEPT ![r] = att]
      /\ checkpoints' = [checkpoints EXCEPT ![r] = cps]
      /\ UNCHANGED <<backend, created, pruneVars>>
    BY <1>1, <1>2, <1>3, <1>5, <1>7, OwnerIsKnown DEF SetTaskRun
<1>9. ExecutedSoFar(k, run, tasks, att, cps)
    BY <1>2, <1>4 DEF OwnKnows, Executing
<1>10. /\ j \in CallRecords /\ j.at = "append" /\ j.task = k.task /\ j.run = k.run
       /\ j.reused = k.reused /\ j.outputs = k.outputs
    BY <1>4, <1>6 DEF CallRecords, CallSteps, Executing
<1>11. CallShape(j)
    <2>1. ReuseIsClosed(j)
        BY <1>4, <1>10 DEF ReuseIsClosed
    <2>. QED
        BY <1>2, <1>4, <1>10, <2>1 DEF CallShape
<1>12. /\ \A t \in Tasks : new[t] = IF t = k.task THEN "RUNNING" ELSE tasks[t]
       /\ new \in [Tasks -> TaskRunStatus \cup {Absent}]
    BY <1>4, <1>5 DEF TaskRunStatus
<1>13. run \notin {"CANCELLED", Absent}
    BY <1>4, <1>7, <1>9 DEF ExecutedSoFar
<1>14. RunStands(r, run, new, att, cps)
    BY <1>4, <1>13 DEF RunStands
<1>15. ExecutedSoFar(j, run, new, att, cps)
    BY <1>2, <1>4, <1>9, <1>10, <1>12, <1>13 DEF ExecutedSoFar, Absent
<1>16. OwnKnows(j, run, new, att, cps)
    BY <1>2, <1>4, <1>10, <1>15 DEF OwnKnows, Done, Creating, Executing
<1>17. j.at \notin Reading /\ HoldsOn(k, j) /\ StoresHeld(k, checkpoints[r], cps)
    BY <1>2, <1>3, <1>10 DEF Reading, Done, Executing, HoldsOn, StoresHeld
<1>. QED
    BY <1>1, <1>2, <1>3, <1>4, <1>7, <1>8, <1>10, <1>11, <1>12, <1>14, <1>16, <1>17,
       RecordsStepKeepsInv

\* The first attempt of a task is appended.
LEMMA AppendAttemptKeepsInv ==
    ASSUME ResumeInv, NEW c \in Callers, AppendAttempt(c)
    PROVE  ResumeInv'
<1>1. PICK k, r : k = call[c] /\ r = k.run
    OBVIOUS
<1>2. k.at = "append" /\ k.at \in Owning
    BY <1>1 DEF AppendAttempt, Owning, Executing
<1>3. PICK run, tasks, att, cps : /\ run = runs[r] /\ tasks = taskRuns[r]
                                  /\ att = attempted[r] /\ cps = checkpoints[r]
    OBVIOUS
<1>4. /\ k \in CallRecords /\ CallShape(k) /\ ReuseIsClosed(k)
      /\ r \in Runs /\ k.task \in Tasks /\ k.reused \subseteq Tasks
      /\ k.outputs \in [Tasks -> Outputs \cup {NoOutput}]
      /\ OwnKnows(k, run, tasks, att, cps) /\ RunStands(r, run, tasks, att, cps)
      /\ run \in WorkflowRunStatus \cup {Absent}
      /\ tasks \in [Tasks -> TaskRunStatus \cup {Absent}]
      /\ att \in SUBSET Tasks /\ cps \in [Tasks -> Outputs \cup {NoOutput}]
    BY <1>1, <1>2, <1>3, OwnerIsKnown
<1>5. PICK new : new = att \cup {k.task}
    OBVIOUS
<1>6. PICK j : j = [k EXCEPT !.at = "work"]
    OBVIOUS
<1>7. call' = [call EXCEPT ![c] = j]
    BY <1>1, <1>2, <1>4, <1>6 DEF AppendAttempt, CallRecords, ResumeInv, ResumeTypeOK
<1>8. /\ runs' = [runs EXCEPT ![r] = run]
      /\ taskRuns' = [taskRuns EXCEPT ![r] = tasks]
      /\ attempted' = [attempted EXCEPT ![r] = new]
      /\ checkpoints' = [checkpoints EXCEPT ![r] = cps]
      /\ UNCHANGED <<backend, created, pruneVars>>
    BY <1>1, <1>2, <1>3, <1>5, OwnerIsKnown DEF AppendAttempt
<1>9. ExecutedSoFar(k, run, tasks, att, cps) /\ new \in SUBSET Tasks
    BY <1>2, <1>4, <1>5 DEF OwnKnows, Executing
<1>10. /\ j \in CallRecords /\ j.at = "work" /\ j.task = k.task /\ j.run = k.run
       /\ j.reused = k.reused /\ j.outputs = k.outputs
    BY <1>4, <1>6 DEF CallRecords, CallSteps, Executing
<1>11. CallShape(j)
    <2>1. ReuseIsClosed(j)
        BY <1>4, <1>10 DEF ReuseIsClosed
    <2>. QED
        BY <1>2, <1>4, <1>10, <2>1 DEF CallShape
<1>12. run \notin {"CANCELLED", Absent}
    BY <1>2, <1>9 DEF ExecutedSoFar
<1>13. RunStands(r, run, tasks, new, cps)
    BY <1>4, <1>12 DEF RunStands
<1>14. ExecutedSoFar(j, run, tasks, new, cps)
    <2>1. k.task \in Int /\ \A t \in Tasks : t \in Int
        BY <1>4, HistoryBounds DEF Tasks
    <2>2. \A t \in new : t <= k.task
        BY <1>2, <1>4, <1>5, <1>9, <2>1 DEF ExecutedSoFar
    <2>. QED
        BY <1>5, <1>9, <1>10, <1>12, <2>2 DEF ExecutedSoFar
<1>15. OwnKnows(j, run, tasks, new, cps)
    BY <1>2, <1>4, <1>10, <1>14 DEF OwnKnows, Done, Creating, Executing
<1>16. j.at \notin Reading /\ HoldsOn(k, j) /\ StoresHeld(k, checkpoints[r], cps)
    BY <1>2, <1>3, <1>10 DEF Reading, Done, Executing, HoldsOn, StoresHeld
<1>. QED
    BY <1>1, <1>2, <1>3, <1>4, <1>7, <1>8, <1>9, <1>10, <1>11, <1>13, <1>15, <1>16,
       RecordsStepKeepsInv

\* An attempt succeeds.
LEMMA SucceedTaskKeepsInv ==
    ASSUME ResumeInv, NEW c \in Callers, SucceedTask(c)
    PROVE  ResumeInv'
<1>1. PICK k, r : k = call[c] /\ r = k.run
    OBVIOUS
<1>2. k.at = "work" /\ k.at \in Owning
    BY <1>1 DEF SucceedTask, Owning, Executing, AtWork
<1>3. PICK run, tasks, att, cps : /\ run = runs[r] /\ tasks = taskRuns[r]
                                  /\ att = attempted[r] /\ cps = checkpoints[r]
    OBVIOUS
<1>4. /\ k \in CallRecords /\ CallShape(k) /\ ReuseIsClosed(k)
      /\ r \in Runs /\ k.task \in Tasks /\ k.reused \subseteq Tasks
      /\ k.outputs \in [Tasks -> Outputs \cup {NoOutput}]
      /\ OwnKnows(k, run, tasks, att, cps) /\ RunStands(r, run, tasks, att, cps)
      /\ run \in WorkflowRunStatus \cup {Absent}
      /\ tasks \in [Tasks -> TaskRunStatus \cup {Absent}]
      /\ att \in SUBSET Tasks /\ cps \in [Tasks -> Outputs \cup {NoOutput}]
    BY <1>1, <1>2, <1>3, OwnerIsKnown
<1>5. PICK new : new = [tasks EXCEPT ![k.task] = "SUCCEEDED"]
    OBVIOUS
<1>6. PICK j : j = [k EXCEPT !.at = "checkpoint", !.outputs[k.task] = Computed(k)]
    OBVIOUS
<1>7. /\ tasks[k.task] = "RUNNING"
      /\ call' = [call EXCEPT ![c] = j]
      /\ SetTaskRun(k, "SUCCEEDED")
    BY <1>1, <1>3, <1>6 DEF SucceedTask, AtWork
<1>8. /\ runs' = [runs EXCEPT ![r] = run]
      /\ taskRuns' = [taskRuns EXCEPT ![r] = new]
      /\ attempted' = [attempted EXCEPT ![r] = att]
      /\ checkpoints' = [checkpoints EXCEPT ![r] = cps]
      /\ UNCHANGED <<backend, created, pruneVars>>
    BY <1>1, <1>2, <1>3, <1>5, <1>7, OwnerIsKnown DEF SetTaskRun
<1>9. ExecutedSoFar(k, run, tasks, att, cps)
    BY <1>2, <1>4 DEF OwnKnows, Executing
<1>10. Computed(k) \in Outputs
    <2>1. \A d \in Tasks : k.outputs[d].by \in Runs \cup {NoRun}
        BY <1>4 DEF Outputs, NoOutput
    <2>. QED
        BY <1>1, <1>4, <2>1 DEF Computed, Outputs
<1>11. /\ j \in CallRecords /\ j.at = "checkpoint" /\ j.task = k.task /\ j.run = k.run
       /\ j.reused = k.reused
       /\ \A t \in Tasks : j.outputs[t] = IF t = k.task THEN Computed(k) ELSE k.outputs[t]
    <2>1. j.outputs = [k.outputs EXCEPT ![k.task] = Computed(k)]
        BY <1>4, <1>6 DEF CallRecords
    <2>2. j.outputs \in [Tasks -> Outputs \cup {NoOutput}]
        BY <1>4, <1>10, <2>1
    <2>3. /\ j.at = "checkpoint" /\ j.task = k.task /\ j.run = k.run
          /\ j.reused = k.reused
        BY <1>4, <1>6 DEF CallRecords
    <2>4. j \in CallRecords
        BY <1>4, <1>6, <1>10 DEF CallRecords, CallSteps, Executing
    <2>. QED
        BY <1>4, <2>1, <2>3, <2>4
<1>12. k.task \notin k.reused /\ k.task \in Int /\ \A t \in Tasks : t \in Int
    BY <1>2, <1>4, HistoryBounds DEF CallShape, Tasks
<1>13. CallShape(j)
    <2>1. ReuseIsClosed(j)
        <3>1. \A t \in k.reused : t # k.task /\ j.outputs[t] = k.outputs[t]
            BY <1>4, <1>11, <1>12
        <3>. QED
            BY <1>4, <1>11, <3>1 DEF ReuseIsClosed
    <2>2. \A t \in Tasks \ j.reused : t < j.task => j.outputs[t].by = j.run
        <3>1. \A t \in Tasks \ k.reused : t < k.task => k.outputs[t].by = k.run
            BY <1>2, <1>4 DEF CallShape
        <3>. QED
            BY <1>11, <1>12, <3>1
    <2>3. j.outputs[j.task] = Computed(j)
        <3>1. \A d \in Upstream[k.task] : d \in Tasks /\ d # k.task
            BY <1>4, <1>12, UpstreamPrecedes
        <3>2. \A d \in Upstream[k.task] : j.outputs[d] = k.outputs[d]
            BY <1>11, <3>1
        <3>3. Computed(j) = Computed(k)
            BY <1>11, <3>2 DEF Computed
        <3>. QED
            BY <1>4, <1>11, <3>3
    <2>. QED
        BY <1>11, <1>12, <2>1, <2>2, <2>3 DEF CallShape
<1>14. /\ \A t \in Tasks : new[t] = IF t = k.task THEN "SUCCEEDED" ELSE tasks[t]
       /\ new \in [Tasks -> TaskRunStatus \cup {Absent}]
    BY <1>4, <1>5 DEF TaskRunStatus
<1>15. run # Absent
    BY <1>4, <1>7 DEF RunStands, Absent
<1>16. RunStands(r, run, new, att, cps)
    BY <1>4, <1>15 DEF RunStands
<1>17. ASSUME NEW t \in Tasks, Done(k, t)
       PROVE  t # k.task /\ Done(j, t) /\ j.outputs[t] = k.outputs[t]
    BY <1>2, <1>11, <1>12, <1>17 DEF Done, Executing
<1>18. ExecutedSoFar(j, run, new, att, cps)
    <2>1. \A t \in j.reused : t \in Tasks /\ t # k.task /\ j.outputs[t] = k.outputs[t]
        BY <1>4, <1>11, <1>12
    <2>. QED
        BY <1>2, <1>4, <1>9, <1>11, <1>14, <1>15, <2>1 DEF ExecutedSoFar, Absent
<1>19. OwnKnows(j, run, new, att, cps)
    <2>1. \A t \in Tasks : /\ cps[t] \in {NoOutput, j.outputs[t]}
                           /\ cps[t] # NoOutput => Done(j, t)
        BY <1>4, <1>17 DEF OwnKnows
    <2>. QED
        BY <1>11, <1>18, <2>1 DEF OwnKnows, Creating
<1>20. j.at \notin Reading /\ HoldsOn(k, j) /\ StoresHeld(k, checkpoints[r], cps)
    BY <1>3, <1>11, <1>17 DEF Reading, HoldsOn, StoresHeld
<1>. QED
    BY <1>1, <1>2, <1>3, <1>4, <1>7, <1>8, <1>11, <1>13, <1>14, <1>15, <1>16, <1>19, <1>20,
       RecordsStepKeepsInv

\* The output of a task is stored, or has no portable form.
LEMMA CheckpointKeepsInv ==
    ASSUME ResumeInv, NEW c \in Callers, Checkpoint(c)
    PROVE  ResumeInv'
<1>1. PICK k, r : k = call[c] /\ r = k.run
    OBVIOUS
<1>2. k.at = "checkpoint" /\ k.at \in Owning
    BY <1>1 DEF Checkpoint, Owning, Executing
<1>3. PICK run, tasks, att, cps : /\ run = runs[r] /\ tasks = taskRuns[r]
                                  /\ att = attempted[r] /\ cps = checkpoints[r]
    OBVIOUS
<1>4. /\ k \in CallRecords /\ CallShape(k) /\ ReuseIsClosed(k)
      /\ r \in Runs /\ k.task \in Tasks /\ k.reused \subseteq Tasks
      /\ k.outputs \in [Tasks -> Outputs \cup {NoOutput}]
      /\ OwnKnows(k, run, tasks, att, cps) /\ RunStands(r, run, tasks, att, cps)
      /\ run \in WorkflowRunStatus \cup {Absent}
      /\ tasks \in [Tasks -> TaskRunStatus \cup {Absent}]
      /\ att \in SUBSET Tasks /\ cps \in [Tasks -> Outputs \cup {NoOutput}]
    BY <1>1, <1>2, <1>3, OwnerIsKnown
<1>5. PICK new : /\ new = [cps EXCEPT ![k.task] = k.outputs[k.task]] \/ new = cps
                 /\ checkpoints' = [checkpoints EXCEPT ![r] = new]
    <2>1. CASE checkpoints' = [checkpoints EXCEPT ![k.run][k.task] = k.outputs[k.task]]
        BY <1>1, <1>2, <1>3, <2>1, OwnerIsKnown
    <2>2. CASE UNCHANGED checkpoints
        <3>1. checkpoints' = [checkpoints EXCEPT ![r] = cps]
            BY <1>1, <1>2, <1>3, <2>2, OwnerIsKnown
        <3>. QED
            BY <3>1
    <2>. QED
        BY <1>1, <2>1, <2>2 DEF Checkpoint
<1>6. PICK j : j = IF run = "CANCELLATION_REQUESTED" THEN [k EXCEPT !.at = "stop"]
                                                     ELSE NextExecution(k)
    OBVIOUS
<1>7. tasks[k.task] = "SUCCEEDED" /\ call' = [call EXCEPT ![c] = j]
    BY <1>1, <1>2, <1>3, <1>6 DEF Checkpoint, Accepts
<1>8. /\ runs' = [runs EXCEPT ![r] = run]
      /\ taskRuns' = [taskRuns EXCEPT ![r] = tasks]
      /\ attempted' = [attempted EXCEPT ![r] = att]
      /\ UNCHANGED <<backend, created, pruneVars>>
    BY <1>1, <1>2, <1>3, OwnerIsKnown DEF Checkpoint
<1>9. ExecutedSoFar(k, run, tasks, att, cps)
    BY <1>2, <1>4 DEF OwnKnows, Executing
<1>10. /\ \A t \in Tasks : t # k.task => new[t] = cps[t]
       /\ new[k.task] \in {cps[k.task], k.outputs[k.task]}
       /\ new \in [Tasks -> Outputs \cup {NoOutput}]
    BY <1>4, <1>5
<1>11. k.task \notin k.reused /\ k.task \in Int /\ \A t \in Tasks : t \in Int
    BY <1>2, <1>4, HistoryBounds DEF CallShape, Tasks
<1>12. run # Absent /\ k.task \in att
    BY <1>2, <1>4, <1>7, <1>9 DEF RunStands, Absent, ExecutedSoFar
<1>13. \A t \in Tasks : cps[t] # NoOutput =>
           cps[t] = k.outputs[t] /\ (t \in k.reused \/ t < k.task)
    BY <1>2, <1>4 DEF OwnKnows, Done
<1>14. \A t \in Tasks : new[t] # NoOutput =>
           new[t] = k.outputs[t] /\ (t \in k.reused \/ t <= k.task)
    BY <1>10, <1>11, <1>13
<1>15. \A d \in Upstream[k.task] : d \in Tasks /\ d < k.task
    BY <1>4, UpstreamPrecedes
<1>16. \A d \in Upstream[k.task] : k.outputs[k.task].from[d] = k.outputs[d].by
    BY <1>2, <1>4, <1>15 DEF CallShape, Computed
<1>17. RunStands(r, run, tasks, att, new)
    <2>1. ASSUME NEW t \in Tasks, new[t] # NoOutput, NEW d \in Upstream[t]
          PROVE  IF new[d] # NoOutput THEN new[t].from[d] = new[d].by
                 ELSE new[t].from[d] = r \/ (run = "CANCELLED" /\ att = {})
        <3>1. d \in Tasks /\ d < t
            BY <2>1, UpstreamPrecedes
        <3>2. CASE t = k.task
            <4>1. new[t] = k.outputs[t] /\ k.outputs[t].from[d] = k.outputs[d].by
                BY <1>14, <1>16, <2>1, <3>2
            <4>2. new[d] # NoOutput => new[d] = k.outputs[d]
                BY <1>14, <3>1
            <4>3. CASE d \in k.reused
                <5>1. cps[d] = k.outputs[d] /\ k.outputs[d] # NoOutput
                    BY <1>4, <1>9, <1>12, <4>3 DEF ExecutedSoFar, ReuseIsClosed
                <5>2. new[d] = cps[d]
                    BY <1>10, <1>11, <3>1, <4>3
                <5>. QED
                    BY <4>1, <5>1, <5>2
            <4>4. CASE d \notin k.reused
                <5>1. k.outputs[d].by = r
                    BY <1>1, <1>2, <1>4, <3>1, <3>2, <4>4 DEF CallShape
                <5>. QED
                    BY <4>1, <4>2, <5>1
            <4>. QED
                BY <4>3, <4>4
        <3>3. CASE t # k.task
            <4>1. new[t] = cps[t] /\ (t \in k.reused \/ t < k.task)
                BY <1>10, <1>13, <2>1, <3>3
            <4>2. d # k.task
                BY <1>4, <1>11, <2>1, <3>1, <4>1 DEF ReuseIsClosed
            <4>3. new[d] = cps[d]
                BY <1>10, <3>1, <4>2
            <4>. QED
                BY <1>4, <2>1, <4>1, <4>3 DEF RunStands
        <3>. QED
            BY <3>2, <3>3
    <2>. QED
        BY <1>12, <2>1 DEF RunStands
<1>18. StoresHeld(k, checkpoints[r], new)
    BY <1>3, <1>5, <1>10, <1>16 DEF StoresHeld
<1>19. ExecutedSoFar(k, run, tasks, att, new)
    <2>1. \A t \in k.reused : t \in Tasks /\ new[t] = cps[t]
        BY <1>4, <1>10, <1>11
    <2>. QED
        BY <1>9, <2>1 DEF ExecutedSoFar
<1>20. /\ j \in CallRecords /\ CallShape(j) /\ j.at \in Executing
       /\ j.run = k.run /\ HoldsOn(k, j)
       /\ OwnKnows(j, run, tasks, att, new)
    <2>1. CASE run = "CANCELLATION_REQUESTED"
        <3>1. /\ j \in CallRecords /\ j.at = "stop" /\ j.task = k.task /\ j.run = k.run
              /\ j.reused = k.reused /\ j.outputs = k.outputs
            BY <1>4, <1>6, <2>1 DEF CallRecords, CallSteps, Executing
        <3>2. ReuseIsClosed(j)
            BY <1>4, <3>1 DEF ReuseIsClosed
        <3>3. CallShape(j)
            BY <1>11, <3>1, <3>2 DEF CallShape
        <3>4. \A t \in Tasks : Done(j, t)
            BY <3>1 DEF Done, Executing
        <3>5. ExecutedSoFar(j, run, tasks, att, new)
            BY <1>2, <1>12, <1>19, <3>1 DEF ExecutedSoFar
        <3>6. OwnKnows(j, run, tasks, att, new)
            BY <1>14, <3>1, <3>4, <3>5 DEF OwnKnows, Creating
        <3>. QED
            BY <3>1, <3>3, <3>4, <3>6 DEF HoldsOn, Executing
    <2>2. CASE run # "CANCELLATION_REQUESTED"
        <3>1. j = NextExecution(k)
            BY <1>6, <2>2
        <3>2. \A t \in Tasks : /\ new[t] \in {NoOutput, k.outputs[t]}
                               /\ new[t] # NoOutput => t \in k.reused \/ t <= k.task
            BY <1>14
        <3>. QED
            BY <1>2, <1>4, <1>19, <3>1, <3>2, NextExecutionKnows DEF Executing
    <2>. QED
        BY <2>1, <2>2
<1>21. j.at \notin Reading
    BY <1>20 DEF Reading, Executing
<1>. QED
    BY <1>1, <1>2, <1>3, <1>4, <1>5, <1>7, <1>8, <1>10, <1>17, <1>18, <1>20, <1>21,
       RecordsStepKeepsInv

\* The last attempt of a task fails.
LEMMA FailTaskKeepsInv ==
    ASSUME ResumeInv, NEW c \in Callers, FailTask(c)
    PROVE  ResumeInv'
<1>1. PICK k, r : k = call[c] /\ r = k.run
    OBVIOUS
<1>2. k.at = "work" /\ k.at \in Owning
    BY <1>1 DEF FailTask, Owning, Executing, AtWork
<1>3. PICK run, tasks, att, cps : /\ run = runs[r] /\ tasks = taskRuns[r]
                                  /\ att = attempted[r] /\ cps = checkpoints[r]
    OBVIOUS
<1>4. /\ k \in CallRecords /\ CallShape(k) /\ ReuseIsClosed(k)
      /\ r \in Runs /\ k.task \in Tasks /\ k.reused \subseteq Tasks
      /\ k.outputs \in [Tasks -> Outputs \cup {NoOutput}]
      /\ OwnKnows(k, run, tasks, att, cps) /\ RunStands(r, run, tasks, att, cps)
      /\ run \in WorkflowRunStatus \cup {Absent}
      /\ tasks \in [Tasks -> TaskRunStatus \cup {Absent}]
      /\ att \in SUBSET Tasks /\ cps \in [Tasks -> Outputs \cup {NoOutput}]
    BY <1>1, <1>2, <1>3, OwnerIsKnown
<1>5. PICK end \in {"FAILED", "TIMED_OUT", "CANCELLED"} : SetTaskRun(k, end)
    BY <1>1 DEF FailTask
<1>6. PICK new, j : new = [tasks EXCEPT ![k.task] = end] /\ j = [k EXCEPT !.at = "fail_fast"]
    OBVIOUS
<1>7. /\ tasks[k.task] = "RUNNING"
      /\ call' = [call EXCEPT ![c] = j]
    BY <1>1, <1>3, <1>4, <1>6 DEF FailTask, AtWork, CallRecords, ResumeInv, ResumeTypeOK
<1>8. /\ runs' = [runs EXCEPT ![r] = run]
      /\ taskRuns' = [taskRuns EXCEPT ![r] = new]
      /\ attempted' = [attempted EXCEPT ![r] = att]
      /\ checkpoints' = [checkpoints EXCEPT ![r] = cps]
      /\ UNCHANGED <<backend, created, pruneVars>>
    BY <1>1, <1>2, <1>3, <1>5, <1>6, OwnerIsKnown DEF SetTaskRun
<1>9. ExecutedSoFar(k, run, tasks, att, cps)
    BY <1>2, <1>4 DEF OwnKnows, Executing
<1>10. /\ j \in CallRecords /\ j.at = "fail_fast" /\ j.task = k.task /\ j.run = k.run
       /\ j.reused = k.reused /\ j.outputs = k.outputs
    BY <1>4, <1>6 DEF CallRecords, CallSteps, Executing
<1>11. k.task \notin k.reused
    BY <1>2, <1>4 DEF CallShape
<1>12. CallShape(j)
    <2>1. ReuseIsClosed(j)
        BY <1>4, <1>10 DEF ReuseIsClosed
    <2>. QED
        BY <1>10, <1>11, <2>1 DEF CallShape
<1>13. /\ \A t \in Tasks : new[t] = IF t = k.task THEN end ELSE tasks[t]
       /\ new \in [Tasks -> TaskRunStatus \cup {Absent}]
       /\ end # Absent /\ end # "PENDING"
    BY <1>4, <1>5, <1>6 DEF TaskRunStatus, Absent
<1>14. run # Absent
    BY <1>4, <1>7 DEF RunStands, Absent
<1>15. RunStands(r, run, new, att, cps)
    BY <1>4, <1>14 DEF RunStands
<1>16. ExecutedSoFar(j, run, new, att, cps)
    <2>1. \A t \in k.reused : t \in Tasks /\ t # k.task
        BY <1>4, <1>11
    <2>. QED
        BY <1>2, <1>9, <1>10, <1>13, <1>14, <2>1 DEF ExecutedSoFar
<1>17. \A t \in Tasks : Done(j, t)
    BY <1>10 DEF Done, Executing
<1>18. OwnKnows(j, run, new, att, cps)
    BY <1>4, <1>10, <1>16, <1>17 DEF OwnKnows, Creating
<1>19. j.at \notin Reading /\ HoldsOn(k, j) /\ StoresHeld(k, checkpoints[r], cps)
    BY <1>3, <1>10, <1>17 DEF Reading, HoldsOn, StoresHeld
<1>. QED
    BY <1>1, <1>2, <1>3, <1>4, <1>7, <1>8, <1>10, <1>12, <1>13, <1>15, <1>18, <1>19,
       RecordsStepKeepsInv

\* A call ends, with its run or without.
LEMMA EndCallKeepsInv ==
    ASSUME ResumeInv, NEW c \in Callers, call[c].at \in Owning,
           runs[call[c].run] # Absent,
           NEW open, NEW status \in TaskRunStatus, NEW end, EndCall(c, open, status, end)
    PROVE  ResumeInv'
<1>1. PICK k, r : k = call[c] /\ r = k.run
    OBVIOUS
<1>2. k.at \in Owning
    BY <1>1
<1>3. PICK run, tasks, att, cps : /\ run = runs[r] /\ tasks = taskRuns[r]
                                  /\ att = attempted[r] /\ cps = checkpoints[r]
    OBVIOUS
<1>4. /\ k \in CallRecords /\ r \in Runs
      /\ RunStands(r, run, tasks, att, cps)
      /\ run \in WorkflowRunStatus
      /\ tasks \in [Tasks -> TaskRunStatus \cup {Absent}]
      /\ att \in SUBSET Tasks /\ cps \in [Tasks -> Outputs \cup {NoOutput}]
    BY <1>1, <1>2, <1>3, OwnerIsKnown
<1>5. PICK new, last : /\ new = [t \in Tasks |-> IF tasks[t] \in open THEN status ELSE tasks[t]]
                       /\ last = IF end \in WorkflowTransitions[run] THEN end ELSE run
    OBVIOUS
<1>6. /\ runs' = [runs EXCEPT ![r] = last]
      /\ taskRuns' = [taskRuns EXCEPT ![r] = new]
      /\ attempted' = [attempted EXCEPT ![r] = att]
      /\ checkpoints' = [checkpoints EXCEPT ![r] = cps]
      /\ UNCHANGED <<backend, created, pruneVars>>
      /\ call' = [call EXCEPT ![c] = NoCall]
    <2>1. runs' = [runs EXCEPT ![r] = last]
        BY <1>1, <1>2, <1>3, <1>5, OwnerIsKnown DEF EndCall
    <2>2. taskRuns' = [taskRuns EXCEPT ![r] = new]
        BY <1>1, <1>2, <1>3, <1>5, OwnerIsKnown DEF EndCall
    <2>. QED
        BY <1>1, <1>2, <1>3, <2>1, <2>2, OwnerIsKnown DEF EndCall
<1>7. last \in WorkflowRunStatus /\ (run \in WorkflowTerminal => last = run)
    BY <1>4, <1>5 DEF WorkflowTransitions, WorkflowRunStatus, WorkflowTerminal
<1>8. new \in [Tasks -> TaskRunStatus \cup {Absent}]
    BY <1>4, <1>5
<1>9. run # Absent /\ last # Absent
    BY <1>4, <1>7 DEF WorkflowRunStatus, Absent
<1>10. RunStands(r, last, new, att, cps)
    BY <1>4, <1>7, <1>9 DEF RunStands, WorkflowTerminal
<1>11. StoresHeld(k, checkpoints[r], cps)
    BY <1>3 DEF StoresHeld
<1>12. NoCall \in CallRecords /\ CallShape(NoCall) /\ NoCall.at \notin Reading
       /\ NoCall.at \notin Owning
    BY NoCallKnows
<1>13. runs[r] \in WorkflowTerminal \cup {Absent} => last = runs[r]
    BY <1>3, <1>7, <1>9
<1>. QED
    BY <1>1, <1>2, <1>4, <1>6, <1>7, <1>8, <1>10, <1>11, <1>12, <1>13, RecordsStepKeepsInv

\* A call ends because a task failed, because its run is being cancelled, or
\* because every plan entry is passed.
LEMMA EndsKeepInv ==
    ASSUME ResumeInv, NEW c \in Callers, FailRun(c) \/ StopCancelled(c) \/ SucceedRun(c)
    PROVE  ResumeInv'
<1>. DEFINE r == call[c].run
<1>1. /\ call[c].at \in {"fail_fast", "stop", "work", "finish"}
      /\ Accepts(call[c])
    BY DEF FailRun, StopCancelled, SucceedRun, AtWork
<1>2. call[c].at \in Owning
    BY <1>1 DEF Owning, Executing
<1>3. /\ call[c].task \in Tasks
      /\ RunStands(r, runs[r], taskRuns[r], attempted[r], checkpoints[r])
    BY <1>2, OwnerIsKnown
<1>4. runs[r] # Absent \/ taskRuns[r][call[c].task] # Absent
    BY <1>1 DEF Accepts, Absent
<1>5. runs[r] # Absent
    BY <1>3, <1>4 DEF RunStands
<1>6. PICK status \in TaskRunStatus : \E open, end : EndCall(c, open, status, end)
    <2>1. {"SKIPPED", "CANCELLED", "SUCCEEDED"} \subseteq TaskRunStatus
        BY DEF TaskRunStatus
    <2>. QED
        BY <2>1 DEF FailRun, StopCancelled, SucceedRun
<1>7. PICK open, end : EndCall(c, open, status, end)
    BY <1>6
<1>. QED
    BY <1>2, <1>5, <1>7, EndCallKeepsInv

-----------------------------------------------------------------------------
(* Cancelling.                                                             *)

\* A step of cancel() that gives the run r these values keeps the invariant when
\* r is over only if it was, and when who owns r goes on knowing of it.
LEMMA CancelStepKeepsInv ==
    ASSUME ResumeInv, NEW r \in Runs,
           NEW run \in WorkflowRunStatus,
           NEW tasks \in [Tasks -> TaskRunStatus \cup {Absent}],
           runs' = [runs EXCEPT ![r] = run],
           taskRuns' = [taskRuns EXCEPT ![r] = tasks],
           UNCHANGED <<backend, attempted, checkpoints, created, pruneVars, call>>,
           runs[r] \in WorkflowTerminal \cup {Absent} => run = runs[r],
           RunStands(r, run, tasks, attempted[r], checkpoints[r]),
           \A c \in Callers : \A k : k = call[c] /\ k.at \in Owning /\ k.run = r =>
              OwnKnows(k, run, tasks, attempted[r], checkpoints[r])
    PROVE  ResumeInv'
<1>1. HistoryTypeOK
    BY DEF ResumeInv, ResumeTypeOK
<1>2. /\ runs'[r] = run /\ taskRuns'[r] = tasks
      /\ \A s \in Runs \ {r} : runs'[s] = runs[s] /\ taskRuns'[s] = taskRuns[s]
      /\ attempted' = attempted /\ checkpoints' = checkpoints
      /\ runs' \in [Runs -> WorkflowRunStatus \cup {Absent}]
      /\ taskRuns' \in [Runs -> [Tasks -> TaskRunStatus \cup {Absent}]]
    BY <1>1 DEF HistoryTypeOK
<1>3. HistoryTypeOK'
    BY <1>1, <1>2 DEF HistoryTypeOK, pruneVars
<1>4. SelectedRunsEnded'
    <2>1. pruning' = pruning /\ pruning.todo \subseteq Runs
        BY <1>1 DEF HistoryTypeOK, pruneVars
    <2>2. \A s \in pruning.todo : runs[s] \in WorkflowTerminal
        BY DEF ResumeInv, SelectedRunsEnded
    <2>. QED
        BY <1>2, <2>1, <2>2 DEF SelectedRunsEnded
<1>5. \A s \in Runs : runs[s] = Absent => runs'[s] = Absent
    BY <1>2
<1>6. ASSUME NEW s \in Runs
      PROVE  RunStands(s, runs'[s], taskRuns'[s], attempted'[s], checkpoints'[s])
    <2>1. CASE s = r
        BY <1>2, <2>1
    <2>2. CASE s # r
        BY <1>2, <2>2, RunIsKnown
    <2>. QED
        BY <2>1, <2>2
<1>7. ASSUME NEW c \in Callers, NEW k, k = call[c]
      PROVE  /\ k.at \in Reading => ParentKnows(k, runs'[k.parent], checkpoints'[k.parent])
             /\ k.at \in Owning => OwnKnows(k, runs'[k.run], taskRuns'[k.run],
                                            attempted'[k.run], checkpoints'[k.run])
    <2>1. ASSUME k.at \in Reading
          PROVE  ParentKnows(k, runs'[k.parent], checkpoints'[k.parent])
        <3>1. k.parent \in Runs /\ ParentKnows(k, runs[k.parent], checkpoints[k.parent])
            BY <1>7, <2>1, CallIsKnown
        <3>2. runs'[k.parent] = runs[k.parent]
            BY <1>2, <3>1 DEF ParentKnows
        <3>. QED
            BY <1>2, <3>1, <3>2
    <2>2. ASSUME k.at \in Owning
          PROVE  OwnKnows(k, runs'[k.run], taskRuns'[k.run], attempted'[k.run],
                          checkpoints'[k.run])
        <3>1. CASE k.run = r
            BY <1>2, <1>7, <2>2, <3>1
        <3>2. CASE k.run # r
            <4>1. k.run \in Runs \ {r}
                BY <1>7, <2>2, <3>2, CallIsKnown
            <4>2. runs'[k.run] = runs[k.run] /\ taskRuns'[k.run] = taskRuns[k.run]
                BY <1>2, <4>1
            <4>. QED
                BY <1>2, <1>7, <2>2, <4>2, CallIsKnown
        <3>. QED
            BY <3>1, <3>2
    <2>. QED
        BY <2>1, <2>2
<1>. QED
    BY <1>3, <1>4, <1>5, <1>6, <1>7, StoreStepKeepsInv

\* The cancellation of a run is requested.
LEMMA RequestCancellationKeepsInv ==
    ASSUME ResumeInv, NEW r \in Runs, RequestCancellation(r), UNCHANGED call
    PROVE  ResumeInv'
<1>1. PICK run, tasks, att, cps : /\ run = runs[r] /\ tasks = taskRuns[r]
                                  /\ att = attempted[r] /\ cps = checkpoints[r]
    OBVIOUS
<1>2. /\ RunStands(r, run, tasks, att, cps)
      /\ tasks \in [Tasks -> TaskRunStatus \cup {Absent}]
    BY <1>1, RunIsKnown
<1>3. run \in {"PENDING", "RUNNING"}
    BY <1>1 DEF RequestCancellation
<1>4. /\ runs' = [runs EXCEPT ![r] = "CANCELLATION_REQUESTED"]
      /\ taskRuns' = [taskRuns EXCEPT ![r] = tasks]
      /\ UNCHANGED <<backend, attempted, checkpoints, created, pruneVars, call>>
    BY <1>1 DEF RequestCancellation, ResumeInv, ResumeTypeOK, HistoryTypeOK
<1>5. RunStands(r, "CANCELLATION_REQUESTED", tasks, att, cps)
    BY <1>2, <1>3 DEF RunStands, Absent
<1>6. ASSUME NEW c \in Callers, NEW k, k = call[c], k.at \in Owning, k.run = r
      PROVE  OwnKnows(k, "CANCELLATION_REQUESTED", tasks, att, cps)
    <2>1. OwnKnows(k, run, tasks, att, cps)
        BY <1>1, <1>6, CallIsKnown
    <2>2. ASSUME MadeSoFar(k, run, tasks, att, cps)
          PROVE  MadeSoFar(k, "CANCELLATION_REQUESTED", tasks, att, cps)
        BY <1>3, <2>2 DEF MadeSoFar, Absent
    <2>3. ASSUME ExecutedSoFar(k, run, tasks, att, cps)
          PROVE  ExecutedSoFar(k, "CANCELLATION_REQUESTED", tasks, att, cps)
        BY <1>3, <2>3 DEF ExecutedSoFar, Absent
    <2>. QED
        BY <2>1, <2>2, <2>3 DEF OwnKnows
<1>7. /\ "CANCELLATION_REQUESTED" \in WorkflowRunStatus
      /\ run \notin WorkflowTerminal \cup {Absent}
    BY <1>3 DEF WorkflowRunStatus, WorkflowTerminal, Absent
<1>. QED
    BY <1>1, <1>2, <1>4, <1>5, <1>6, <1>7, CancelStepKeepsInv

\* A task run that has not started is cancelled.
LEMMA CancelNotStartedKeepsInv ==
    ASSUME ResumeInv, NEW r \in Runs, CancelNotStarted(r), UNCHANGED call
    PROVE  ResumeInv'
<1>1. PICK run, tasks, att, cps : /\ run = runs[r] /\ tasks = taskRuns[r]
                                  /\ att = attempted[r] /\ cps = checkpoints[r]
    OBVIOUS
<1>2. /\ RunStands(r, run, tasks, att, cps)
      /\ tasks \in [Tasks -> TaskRunStatus \cup {Absent}]
    BY <1>1, RunIsKnown
<1>3. run \in {"CANCELLATION_REQUESTED", "CANCELLED"}
    BY <1>1 DEF CancelNotStarted
<1>4. PICK u \in Tasks : /\ tasks[u] = "PENDING"
                         /\ taskRuns' = [taskRuns EXCEPT ![r][u] = "CANCELLED"]
    BY <1>1 DEF CancelNotStarted
<1>5. PICK new : new = [tasks EXCEPT ![u] = "CANCELLED"]
    OBVIOUS
<1>6. /\ runs' = [runs EXCEPT ![r] = run]
      /\ taskRuns' = [taskRuns EXCEPT ![r] = new]
      /\ UNCHANGED <<backend, attempted, checkpoints, created, pruneVars, call>>
    BY <1>1, <1>4, <1>5 DEF CancelNotStarted, ResumeInv, ResumeTypeOK, HistoryTypeOK
<1>7. /\ \A t \in Tasks : new[t] = IF t = u THEN "CANCELLED" ELSE tasks[t]
      /\ new \in [Tasks -> TaskRunStatus \cup {Absent}]
    BY <1>2, <1>5 DEF TaskRunStatus
<1>8. RunStands(r, run, new, att, cps)
    BY <1>2, <1>3 DEF RunStands, Absent
<1>9. ASSUME NEW c \in Callers, NEW k, k = call[c], k.at \in Owning, k.run = r
      PROVE  OwnKnows(k, run, new, att, cps)
    <2>1. OwnKnows(k, run, tasks, att, cps) /\ k \in CallRecords
        BY <1>1, <1>9, CallIsKnown
    <2>2. k.task \in Tasks /\ k.reused \subseteq Tasks
        BY <2>1 DEF CallRecords
    <2>3. ASSUME MadeSoFar(k, run, tasks, att, cps)
          PROVE  MadeSoFar(k, run, new, att, cps)
        BY <1>4, <1>7, <2>2, <2>3 DEF MadeSoFar, Absent
    <2>4. ASSUME ExecutedSoFar(k, run, tasks, att, cps)
          PROVE  ExecutedSoFar(k, run, new, att, cps)
        BY <1>4, <1>7, <2>2, <2>4 DEF ExecutedSoFar, Absent
    <2>. QED
        BY <2>1, <2>3, <2>4 DEF OwnKnows
<1>10. run \in WorkflowRunStatus
    BY <1>3 DEF WorkflowRunStatus
<1>. QED
    BY <1>1, <1>6, <1>7, <1>8, <1>9, <1>10, CancelStepKeepsInv

\* The run is cancelled: nothing of it is pending if it is executed, and nothing
\* runs without an attempt.
LEMMA ConfirmCancellationKeepsInv ==
    ASSUME ResumeInv, NEW r \in Runs, ConfirmCancellation(r), UNCHANGED call
    PROVE  ResumeInv'
<1>1. PICK run, tasks, att, cps : /\ run = runs[r] /\ tasks = taskRuns[r]
                                  /\ att = attempted[r] /\ cps = checkpoints[r]
    OBVIOUS
<1>2. /\ RunStands(r, run, tasks, att, cps)
      /\ tasks \in [Tasks -> TaskRunStatus \cup {Absent}]
      /\ att \in SUBSET Tasks
    BY <1>1, RunIsKnown
<1>3. /\ run = "CANCELLATION_REQUESTED"
      /\ \A t \in Tasks : tasks[t] = "RUNNING" => t \in att
      /\ \A t \in Tasks : tasks[t] = "PENDING" =>
            \A c \in Callers : call[c].run = r => call[c].at \in Creating
    BY <1>1 DEF ConfirmCancellation
<1>4. PICK new : /\ \/ new = tasks
                    \/ new = [t \in Tasks |-> IF tasks[t] = "RUNNING" THEN "CANCELLED"
                                                                     ELSE tasks[t]]
                 /\ taskRuns' = [taskRuns EXCEPT ![r] = new]
    <2>1. CASE UNCHANGED taskRuns
        <3>1. taskRuns' = [taskRuns EXCEPT ![r] = tasks]
            BY <1>1, <2>1 DEF ResumeInv, ResumeTypeOK, HistoryTypeOK
        <3>. QED
            BY <3>1
    <2>2. CASE taskRuns' = [taskRuns EXCEPT ![r] =
                  [t \in Tasks |-> IF @[t] = "RUNNING" THEN "CANCELLED" ELSE @[t]]]
        <3>1. taskRuns' = [taskRuns EXCEPT ![r] =
                  [t \in Tasks |-> IF tasks[t] = "RUNNING" THEN "CANCELLED" ELSE tasks[t]]]
            BY <1>1, <2>2 DEF ResumeInv, ResumeTypeOK, HistoryTypeOK
        <3>. QED
            BY <3>1
    <2>. QED
        BY <2>1, <2>2 DEF ConfirmCancellation
<1>5. /\ runs' = [runs EXCEPT ![r] = "CANCELLED"]
      /\ UNCHANGED <<backend, attempted, checkpoints, created, pruneVars, call>>
    BY DEF ConfirmCancellation
<1>6. /\ \A t \in Tasks :
            new[t] = tasks[t] \/ (tasks[t] = "RUNNING" /\ new[t] = "CANCELLED")
      /\ new \in [Tasks -> TaskRunStatus \cup {Absent}]
    <2>1. CASE new = tasks
        BY <1>2, <2>1
    <2>2. CASE new = [t \in Tasks |-> IF tasks[t] = "RUNNING" THEN "CANCELLED" ELSE tasks[t]]
        <3>1. "CANCELLED" \in TaskRunStatus
            BY DEF TaskRunStatus
        <3>. QED
            BY <1>2, <2>2, <3>1
    <2>. QED
        BY <1>4, <2>1, <2>2
<1>7. RunStands(r, "CANCELLED", new, att, cps)
    BY <1>2, <1>3 DEF RunStands, Absent
<1>8. ASSUME NEW c \in Callers, NEW k, k = call[c], k.at \in Owning, k.run = r
      PROVE  OwnKnows(k, "CANCELLED", new, att, cps)
    <2>1. OwnKnows(k, run, tasks, att, cps) /\ k \in CallRecords
        BY <1>1, <1>8, CallIsKnown
    <2>2. k.task \in Tasks /\ k.reused \subseteq Tasks /\ \A t \in Tasks : t \in Int
        BY <2>1, HistoryBounds DEF CallRecords, Tasks
    <2>3. ASSUME MadeSoFar(k, run, tasks, att, cps)
          PROVE  MadeSoFar(k, "CANCELLED", new, att, cps)
        BY <1>6, <2>2, <2>3 DEF MadeSoFar, Absent
    <2>4. ASSUME ExecutedSoFar(k, run, tasks, att, cps), k.at \in Executing
          PROVE  ExecutedSoFar(k, "CANCELLED", new, att, cps)
        <3>1. k.at \notin Creating
            BY <2>4 DEF Creating, Executing
        <3>2. \A t \in Tasks : tasks[t] # "PENDING" /\ new[t] # "PENDING"
            BY <1>3, <1>6, <1>8, <3>1
        <3>3. \A t \in k.reused : new[t] = "REUSED" /\ cps[t] = k.outputs[t]
            BY <1>3, <1>6, <2>2, <2>4 DEF ExecutedSoFar, Absent
        <3>4. k.at # "append"
            BY <1>3, <2>2, <2>4 DEF ExecutedSoFar
        <3>. QED
            BY <1>3, <2>4, <3>2, <3>3, <3>4 DEF ExecutedSoFar, Absent
    <2>. QED
        BY <2>1, <2>3, <2>4 DEF OwnKnows
<1>9. /\ "CANCELLED" \in WorkflowRunStatus
      /\ run \notin WorkflowTerminal \cup {Absent}
    BY <1>3 DEF WorkflowRunStatus, WorkflowTerminal, Absent
<1>. QED
    BY <1>1, <1>4, <1>5, <1>6, <1>7, <1>8, <1>9, CancelStepKeepsInv

-----------------------------------------------------------------------------
(* Pruning.                                                                *)

Emptied(r) ==
    /\ attempted[r] = {}
    /\ \A t \in Tasks : taskRuns[r][t] = Absent /\ checkpoints[r][t] = NoOutput

\* Deleting runs that have ended, or the checkpoints of those of them that have
\* no attempt: who owns one of them finds out, and who resumes one of them
\* either has read all it will use or finds nothing any more.
LEMMA PruningKeepsInv ==
    ASSUME ResumeInv, HistoryTypeOK', UNCHANGED <<call, created>>,
           NEW doomed \in SUBSET Runs,
           \A r \in doomed : runs[r] \in WorkflowTerminal,
           \A r \in Runs \ doomed : RecordsKept(r),
           \A r \in doomed :
               \/ runs'[r] = Absent /\ Emptied(r)'
               \/ /\ runs'[r] = runs[r] /\ taskRuns'[r] = taskRuns[r]
                  /\ attempted[r] = {} /\ attempted'[r] = {}
                  /\ \A t \in Tasks : checkpoints'[r][t] = NoOutput,
           SelectedRunsEnded'
    PROVE  ResumeInv'
<1>1. ASSUME NEW r \in doomed
      PROVE  /\ \A t \in Tasks : checkpoints'[r][t] = NoOutput
             /\ \/ /\ runs'[r] = Absent /\ attempted'[r] = {}
                   /\ \A t \in Tasks : taskRuns'[r][t] = Absent
                \/ /\ runs'[r] = runs[r] /\ taskRuns'[r] = taskRuns[r]
                   /\ attempted[r] = {} /\ attempted'[r] = {}
    BY <1>1 DEF Emptied
<1>2. \A r \in Runs : runs[r] = Absent => runs'[r] = Absent
    BY DEF RecordsKept, WorkflowTerminal, Absent
<1>3. ASSUME NEW r \in Runs
      PROVE  RunStands(r, runs'[r], taskRuns'[r], attempted'[r], checkpoints'[r])
    <2>1. CASE r \in doomed
        BY <1>1, <2>1 DEF RunStands, WorkflowTerminal, Absent
    <2>2. CASE r \notin doomed
        BY <2>2, RunIsKnown DEF RecordsKept
    <2>. QED
        BY <2>1, <2>2
<1>4. ASSUME NEW c \in Callers, NEW k, k = call[c]
      PROVE  /\ k.at \in Reading => ParentKnows(k, runs'[k.parent], checkpoints'[k.parent])
             /\ k.at \in Owning => OwnKnows(k, runs'[k.run], taskRuns'[k.run],
                                            attempted'[k.run], checkpoints'[k.run])
    <2>1. ASSUME k.at \in Reading
          PROVE  ParentKnows(k, runs'[k.parent], checkpoints'[k.parent])
        <3>1. k.parent \in Runs /\ ParentKnows(k, runs[k.parent], checkpoints[k.parent])
            BY <1>4, <2>1, CallIsKnown
        <3>2. CASE k.parent \in doomed
            BY <1>1, <3>1, <3>2 DEF ParentKnows
        <3>3. CASE k.parent \notin doomed
            BY <3>1, <3>3 DEF RecordsKept
        <3>. QED
            BY <3>2, <3>3
    <2>2. ASSUME k.at \in Owning
          PROVE  OwnKnows(k, runs'[k.run], taskRuns'[k.run], attempted'[k.run],
                          checkpoints'[k.run])
        <3>1. PICK r, run, tasks, att, cps :
                 /\ r = k.run /\ run = runs[r] /\ tasks = taskRuns[r]
                 /\ att = attempted[r] /\ cps = checkpoints[r]
            OBVIOUS
        <3>2. PICK newRun, newTasks, newAtt, newCps :
                 /\ newRun = runs'[r] /\ newTasks = taskRuns'[r]
                 /\ newAtt = attempted'[r] /\ newCps = checkpoints'[r]
            OBVIOUS
        <3>3. r \in Runs /\ OwnKnows(k, run, tasks, att, cps) /\ k \in CallRecords
            BY <1>4, <2>2, <3>1, CallIsKnown
        <3>4. CASE r \notin doomed
            BY <3>1, <3>3, <3>4 DEF RecordsKept
        <3>5. CASE r \in doomed
            <4>1. run \in WorkflowTerminal /\ \A t \in Tasks : newCps[t] = NoOutput
                BY <1>1, <3>1, <3>2, <3>5
            <4>2. \/ newRun = Absent /\ newAtt = {} /\ \A t \in Tasks : newTasks[t] = Absent
                  \/ newRun = run /\ newTasks = tasks /\ att = {} /\ newAtt = {}
                BY <1>1, <3>1, <3>2, <3>5
            <4>3. k.task \in Tasks /\ k.reused \subseteq Tasks
                BY <3>3 DEF CallRecords
            <4>4. ASSUME MadeSoFar(k, run, tasks, att, cps)
                  PROVE  MadeSoFar(k, newRun, newTasks, newAtt, newCps)
                <5>1. run = "CANCELLED"
                    BY <4>1, <4>4 DEF MadeSoFar, WorkflowTerminal, Absent
                <5>. QED
                    BY <4>1, <4>2, <4>3, <4>4, <5>1 DEF MadeSoFar
            <4>5. ASSUME ExecutedSoFar(k, run, tasks, att, cps)
                  PROVE  ExecutedSoFar(k, newRun, newTasks, newAtt, newCps)
                <5>1. run = "CANCELLED"
                    BY <4>1, <4>5 DEF ExecutedSoFar, WorkflowTerminal, Absent
                <5>. QED
                    BY <4>1, <4>2, <4>3, <4>5, <5>1 DEF ExecutedSoFar, Absent
            <4>6. OwnKnows(k, newRun, newTasks, newAtt, newCps)
                BY <3>3, <4>1, <4>4, <4>5 DEF OwnKnows
            <4>. QED
                BY <3>1, <3>2, <4>6
        <3>. QED
            BY <3>4, <3>5
    <2>. QED
        BY <2>1, <2>2
<1>. QED
    BY <1>2, <1>3, <1>4, StoreStepKeepsInv

\* What DeleteRuns does to every run.
LEMMA DeletedAndKept ==
    ASSUME HistoryTypeOK, NEW doomed \in SUBSET Runs, DeleteRuns(doomed)
    PROVE  /\ \A r \in Runs \ doomed : RecordsKept(r)
           /\ \A r \in doomed : runs'[r] = Absent /\ Emptied(r)'
           /\ runs' \in [Runs -> WorkflowRunStatus \cup {Absent}]
           /\ taskRuns' \in [Runs -> [Tasks -> TaskRunStatus \cup {Absent}]]
           /\ attempted' \in [Runs -> SUBSET Tasks]
           /\ checkpoints' \in [Runs -> [Tasks -> Outputs \cup {NoOutput}]]
<1>. USE DEF DeleteRuns, WithoutOutputs
<1>1. \A r \in Runs \ doomed : RecordsKept(r)
    BY DEF RecordsKept
<1>2. \A r \in doomed : runs'[r] = Absent /\ Emptied(r)'
    BY DEF Emptied
<1>3. runs' \in [Runs -> WorkflowRunStatus \cup {Absent}]
    BY DEF HistoryTypeOK
<1>4. taskRuns' \in [Runs -> [Tasks -> TaskRunStatus \cup {Absent}]]
    BY DEF HistoryTypeOK
<1>5. attempted' \in [Runs -> SUBSET Tasks]
    BY DEF HistoryTypeOK
<1>6. checkpoints' \in [Runs -> [Tasks -> Outputs \cup {NoOutput}]]
    BY DEF HistoryTypeOK
<1>. QED
    BY <1>1, <1>2, <1>3, <1>4, <1>5, <1>6

\* prune_runs selects stored runs that have ended.
LEMMA EligibleRunsEnded ==
    ASSUME NEW old, NEW oldFailed
    PROVE  /\ Eligible(old, oldFailed) \in SUBSET Runs
           /\ \A r \in Eligible(old, oldFailed) : runs[r] \in WorkflowTerminal
BY DEF Eligible, Stored, Prunable

\* The memory store, under its lock.
LEMMA PruneInMemoryKeepsInv ==
    ASSUME ResumeInv, PruneInMemory, UNCHANGED call
    PROVE  ResumeInv'
<1>1. PICK old \in 0..RunBound, oldFailed \in 0..RunBound :
          /\ DeleteRuns(Eligible(old, oldFailed))
          /\ pruning' = [at |-> "done", eligible |-> Eligible(old, oldFailed), todo |-> {}]
    BY DEF PruneInMemory
<1>2. PICK doomed : doomed = Eligible(old, oldFailed)
    OBVIOUS
<1>3. doomed \in SUBSET Runs /\ \A r \in doomed : runs[r] \in WorkflowTerminal
    BY <1>2, EligibleRunsEnded
<1>4. HistoryTypeOK /\ DeleteRuns(doomed)
    BY <1>1, <1>2 DEF ResumeInv, ResumeTypeOK
<1>5. /\ \A r \in Runs \ doomed : RecordsKept(r)
      /\ \A r \in doomed : runs'[r] = Absent /\ Emptied(r)'
      /\ runs' \in [Runs -> WorkflowRunStatus \cup {Absent}]
      /\ taskRuns' \in [Runs -> [Tasks -> TaskRunStatus \cup {Absent}]]
      /\ attempted' \in [Runs -> SUBSET Tasks]
      /\ checkpoints' \in [Runs -> [Tasks -> Outputs \cup {NoOutput}]]
    BY <1>3, <1>4, DeletedAndKept
<1>6. UNCHANGED <<call, created, backend>> /\ prunes' \in 0..PruneBound
    BY <1>4, HistoryBounds DEF PruneInMemory, MayPrune, HistoryTypeOK
<1>7. HistoryTypeOK'
    BY <1>1, <1>2, <1>3, <1>4, <1>5, <1>6 DEF HistoryTypeOK
<1>8. SelectedRunsEnded'
    BY <1>1 DEF SelectedRunsEnded
<1>. QED
    BY <1>3, <1>5, <1>6, <1>7, <1>8, PruningKeepsInv

\* The session of the SQLite store that reads.
LEMMA SelectEligibleKeepsInv ==
    ASSUME ResumeInv, SelectEligible, UNCHANGED call
    PROVE  ResumeInv'
<1>1. PICK old \in 0..RunBound, oldFailed \in 0..RunBound :
          pruning' = [at |-> IF Eligible(old, oldFailed) = {} THEN "done" ELSE "deleting",
                      eligible |-> Eligible(old, oldFailed),
                      todo |-> Eligible(old, oldFailed)]
    BY DEF SelectEligible
<1>2. /\ Eligible(old, oldFailed) \in SUBSET Runs
      /\ \A r \in Eligible(old, oldFailed) : runs[r] \in WorkflowTerminal
    BY EligibleRunsEnded
<1>3. UNCHANGED <<call, created, backend, records>> /\ prunes' \in 0..PruneBound
    BY HistoryBounds DEF SelectEligible, MayPrune, ResumeInv, ResumeTypeOK, HistoryTypeOK
<1>4. HistoryTypeOK'
    <2>1. HistoryTypeOK
        BY DEF ResumeInv, ResumeTypeOK
    <2>2. pruning' \in [at : {"idle", "deleting", "done"}, eligible : SUBSET Runs,
                        todo : SUBSET Runs] /\ pruning'.todo \subseteq pruning'.eligible
        BY <1>1, <1>2
    <2>. QED
        BY <2>1, <2>2, <1>3 DEF HistoryTypeOK, records
<1>5. SelectedRunsEnded'
    BY <1>1, <1>2, <1>3 DEF SelectedRunsEnded, records
<1>6. \A r \in Runs : RecordsKept(r)
    BY <1>3 DEF RecordsKept, records
<1>7. {} \in SUBSET Runs
    OBVIOUS
<1>. QED
    BY <1>3, <1>4, <1>5, <1>6, <1>7, PruningKeepsInv

\* One batch of the SQLite store: whole runs, or the checkpoints of runs that
\* never had an attempt.
LEMMA PruneBatchKeepsInv ==
    ASSUME ResumeInv, PruneBatch, UNCHANGED call
    PROVE  ResumeInv'
<1>1. PICK doomed : doomed = Batch
    OBVIOUS
<1>2. HistoryTypeOK /\ SelectedRunsEnded
    BY DEF ResumeInv, ResumeTypeOK
<1>3. doomed \in SUBSET Runs /\ \A r \in doomed : r \in pruning.todo /\ runs[r] \in WorkflowTerminal
    BY <1>1, <1>2 DEF Batch, SelectedRunsEnded, HistoryTypeOK
<1>4. UNCHANGED <<call, created, backend, prunes>>
    BY DEF PruneBatch
<1>5. /\ pruning' \in [at : {"idle", "deleting", "done"}, eligible : SUBSET Runs,
                       todo : SUBSET Runs]
      /\ pruning'.todo = pruning.todo \ doomed
      /\ pruning'.eligible = pruning.eligible
    BY <1>1, <1>2 DEF PruneBatch, HistoryTypeOK
<1>6. CASE DeleteRuns(doomed)
    <2>1. /\ \A r \in Runs \ doomed : RecordsKept(r)
          /\ \A r \in doomed : runs'[r] = Absent /\ Emptied(r)'
          /\ runs' \in [Runs -> WorkflowRunStatus \cup {Absent}]
          /\ taskRuns' \in [Runs -> [Tasks -> TaskRunStatus \cup {Absent}]]
          /\ attempted' \in [Runs -> SUBSET Tasks]
          /\ checkpoints' \in [Runs -> [Tasks -> Outputs \cup {NoOutput}]]
        BY <1>2, <1>3, <1>6, DeletedAndKept
    <2>2. HistoryTypeOK'
        BY <1>2, <1>4, <1>5, <2>1 DEF HistoryTypeOK
    <2>3. SelectedRunsEnded'
        BY <1>2, <1>5, <2>1 DEF SelectedRunsEnded, RecordsKept, HistoryTypeOK
    <2>. QED
        BY <1>3, <1>4, <2>1, <2>2, <2>3, PruningKeepsInv
<1>7. CASE /\ \A r \in doomed : attempted[r] = {}
           /\ checkpoints' = WithoutOutputs(doomed)
           /\ UNCHANGED <<runs, taskRuns, attempted>>
    <2>1. \A r \in Runs \ doomed : RecordsKept(r)
        BY <1>7 DEF RecordsKept, WithoutOutputs
    <2>2. \A r \in doomed :
             /\ runs'[r] = runs[r] /\ taskRuns'[r] = taskRuns[r]
             /\ attempted[r] = {} /\ attempted'[r] = {}
             /\ \A t \in Tasks : checkpoints'[r][t] = NoOutput
        BY <1>3, <1>7 DEF WithoutOutputs
    <2>3. checkpoints' \in [Runs -> [Tasks -> Outputs \cup {NoOutput}]]
        BY <1>2, <1>7 DEF WithoutOutputs, HistoryTypeOK
    <2>4. HistoryTypeOK'
        BY <1>2, <1>4, <1>5, <1>7, <2>3 DEF HistoryTypeOK
    <2>5. SelectedRunsEnded'
        BY <1>2, <1>5, <1>7 DEF SelectedRunsEnded
    <2>. QED
        BY <1>3, <1>4, <2>1, <2>2, <2>4, <2>5, PruningKeepsInv
<1>. QED
    BY <1>1, <1>6, <1>7 DEF PruneBatch

-----------------------------------------------------------------------------
(* The theorems.                                                           *)

\* A store with no run and calls that have not begun.
LEMMA ResumeInitInv == Init => ResumeInv
<1>. SUFFICES ASSUME Init PROVE ResumeInv
    OBVIOUS
<1>. USE DEF Init, InitHistory
<1>1. HistoryTypeOK
    BY HistoryBounds DEF HistoryTypeOK
<1>2. ResumeTypeOK
    BY <1>1, NoCallKnows DEF ResumeTypeOK
<1>3. NothingIsAhead /\ SelectedRunsEnded
    BY DEF NothingIsAhead, SelectedRunsEnded
<1>4. RunsStand
    BY DEF RunsStand, RunStands
<1>5. CallsKnow
    BY NoCallKnows DEF CallsKnow
<1>6. CallsAgree
    BY NoCallKnows DEF CallsAgree
<1>. QED
    BY <1>2, <1>3, <1>4, <1>5, <1>6 DEF ResumeInv

\* Nothing changes.
LEMMA ResumeStutterKeepsInv == ResumeInv /\ UNCHANGED resumeVars => ResumeInv'
<1>. SUFFICES ASSUME ResumeInv, UNCHANGED resumeVars PROVE ResumeInv'
    OBVIOUS
<1>. USE DEF resumeVars, historyVars, records, pruneVars
<1>1. ResumeTypeOK'
    BY DEF ResumeInv, ResumeTypeOK, HistoryTypeOK
<1>2. NothingIsAhead' /\ SelectedRunsEnded' /\ RunsStand'
    BY DEF ResumeInv, NothingIsAhead, SelectedRunsEnded, RunsStand
<1>3. CallsKnow'
    <2>1. ASSUME NEW c \in Callers
          PROVE  \E k : /\ call'[c] = k
                        /\ CallShape(k)
                        /\ k.at \in Reading =>
                              /\ k.parent \in Runs /\ k.parent <= created'
                              /\ ParentKnows(k, runs'[k.parent], checkpoints'[k.parent])
                        /\ k.at \in Owning =>
                              /\ k.run \in Runs /\ k.run <= created'
                              /\ OwnKnows(k, runs'[k.run], taskRuns'[k.run], attempted'[k.run],
                                          checkpoints'[k.run])
        BY CallIsKnown
    <2>. QED
        BY <2>1, CallsKnowNext
<1>4. CallsAgree'
    <2>1. CallsAgree
        BY DEF ResumeInv
    <2>. QED
        BY <2>1 DEF CallsAgree
<1>. QED
    BY <1>1, <1>2, <1>3, <1>4 DEF ResumeInv

\* Every step of a call, of a cancellation and of a pruning keeps the invariant.
LEMMA ResumeStepKeepsInv == ResumeInv /\ [Next]_resumeVars => ResumeInv'
<1>. SUFFICES ASSUME ResumeInv, [Next]_resumeVars PROVE ResumeInv'
    OBVIOUS
<1>1. ASSUME NEW c \in Callers, BeginRun(c) \/ BeginResume(c)
      PROVE  ResumeInv'
    BY <1>1, BeginKeepsInv
<1>2. ASSUME NEW c \in Callers, CallStep(c)
      PROVE  ResumeInv'
    BY <1>2, ListParentTasksKeepsInv, ClassifyKeepsInv, CreateRunKeepsInv, RaiseKeepsInv,
       CreateTaskKeepsInv, MarkReusedKeepsInv, CopyCheckpointKeepsInv, StartRunKeepsInv,
       SkipReusedKeepsInv, StartTaskKeepsInv, AppendAttemptKeepsInv, SucceedTaskKeepsInv,
       CheckpointKeepsInv, FailTaskKeepsInv, EndsKeepInv
    DEF CallStep
<1>3. CASE Cancel /\ UNCHANGED call
    BY <1>3, RequestCancellationKeepsInv, CancelNotStartedKeepsInv,
       ConfirmCancellationKeepsInv DEF Cancel
<1>4. CASE Prune /\ UNCHANGED call
    BY <1>4, PruneInMemoryKeepsInv, SelectEligibleKeepsInv, PruneBatchKeepsInv DEF Prune
<1>5. CASE UNCHANGED resumeVars
    BY <1>5, ResumeStutterKeepsInv
<1>. QED
    BY <1>1, <1>2, <1>3, <1>4, <1>5 DEF Next

\* What each call of run() and resume_run knows of its parent and of its run,
\* through every interleaving with the others, with cancel() and with the
\* batches of prune_runs, and the types.
THEOREM ResumeInvariant == ResumeSpec => []ResumeInv
BY ResumeInitInv, ResumeStepKeepsInv, PTL DEF ResumeSpec

\* The outputs of a run fit together whatever resumes, forced recomputations,
\* cancellations and prunings led to it (_resume.py:27-68, workflow.py:309-352).
THEOREM OutputsAlwaysFitTogether == ResumeSpec => []OutputsFitTogether
<1>1. ResumeInv => OutputsFitTogether
    BY DEF ResumeInv, RunsStand, RunStands, OutputsFitTogether, CancelledUnexecuted
<1>. QED
    BY <1>1, ResumeInvariant, PTL

\* No step deletes a run that has not ended.
LEMMA OnlyEndedRunsAreDeleted ==
    ASSUME ResumeInv, Next, NEW r \in Runs, runs[r] \notin WorkflowTerminal \cup {Absent}
    PROVE  runs'[r] # Absent
<1>1. /\ runs \in [Runs -> WorkflowRunStatus \cup {Absent}]
      /\ call \in [Callers -> CallRecords]
    BY DEF ResumeInv, ResumeTypeOK, HistoryTypeOK
<1>2. ASSUME UNCHANGED runs
      PROVE  runs'[r] # Absent
    BY <1>2
<1>3. ASSUME NEW s \in Runs, NEW status \in WorkflowRunStatus,
             runs' = [runs EXCEPT ![s] = status]
      PROVE  runs'[r] # Absent
    BY <1>1, <1>3 DEF WorkflowRunStatus, Absent
<1>4. ASSUME NEW c \in Callers, BeginRun(c) \/ BeginResume(c) \/ ListParentTasks(c)
                                \/ Classify(c) \/ Raise(c) \/ SkipReused(c)
      PROVE  UNCHANGED runs
    BY <1>4 DEF BeginRun, BeginResume, ListParentTasks, Classify, Raise, SkipReused,
                historyVars, records
<1>5. ASSUME NEW c \in Callers, CreateTask(c) \/ MarkReused(c) \/ CopyCheckpoint(c)
                                \/ StartTask(c) \/ AppendAttempt(c) \/ SucceedTask(c)
                                \/ Checkpoint(c) \/ FailTask(c)
      PROVE  UNCHANGED runs
    BY <1>5 DEF CreateTask, MarkReused, CopyCheckpoint, StartTask, AppendAttempt, SucceedTask,
                Checkpoint, FailTask, SetTaskRun
<1>6. ASSUME NEW c \in Callers, CreateRun(c)
      PROVE  runs'[r] # Absent
    <2>1. runs' = [runs EXCEPT ![created + 1] = "PENDING"]
        BY <1>6 DEF CreateRun
    <2>. QED
        BY <1>1, <2>1 DEF Absent
<1>7. ASSUME NEW c \in Callers, StartRun(c)
      PROVE  runs'[r] # Absent
    BY <1>1, <1>7 DEF StartRun, Absent
<1>8. ASSUME NEW c \in Callers, NEW open, NEW status, NEW end, EndCall(c, open, status, end)
      PROVE  runs'[r] # Absent
    <2>1. runs' = [runs EXCEPT ![call[c].run] =
                      IF end \in WorkflowTransitions[@] THEN end ELSE @]
        BY <1>8 DEF EndCall
    <2>2. runs[r] \in WorkflowRunStatus
        BY <1>1
    <2>3. end \in WorkflowTransitions[runs[r]] => end \in WorkflowRunStatus
        BY <2>2 DEF WorkflowTransitions, WorkflowRunStatus, WorkflowTerminal
    <2>. QED
        BY <1>1, <2>1, <2>3 DEF WorkflowRunStatus, Absent
<1>9. ASSUME NEW c \in Callers, CallStep(c)
      PROVE  runs'[r] # Absent
    <2>1. ASSUME FailRun(c) \/ StopCancelled(c) \/ SucceedRun(c)
          PROVE  runs'[r] # Absent
        BY <1>8, <2>1 DEF FailRun, StopCancelled, SucceedRun
    <2>. QED
        BY <1>2, <1>4, <1>5, <1>6, <1>7, <1>9, <2>1 DEF CallStep
<1>10. ASSUME Cancel
       PROVE  runs'[r] # Absent
    BY <1>1, <1>10 DEF Cancel, RequestCancellation, CancelNotStarted, ConfirmCancellation, Absent
<1>11. ASSUME Prune
       PROVE  runs'[r] # Absent
    <2>1. ASSUME NEW doomed, DeleteRuns(doomed), r \notin doomed
          PROVE  runs'[r] # Absent
        BY <2>1 DEF DeleteRuns
    <2>2. ASSUME PruneInMemory
          PROVE  runs'[r] # Absent
        BY <2>1, <2>2, EligibleRunsEnded DEF PruneInMemory
    <2>3. ASSUME SelectEligible
          PROVE  runs'[r] # Absent
        BY <2>3 DEF SelectEligible, records
    <2>4. ASSUME PruneBatch
          PROVE  runs'[r] # Absent
        <3>1. r \notin Batch
            BY DEF Batch, ResumeInv, SelectedRunsEnded
        <3>. QED
            BY <2>1, <2>4, <3>1 DEF PruneBatch
    <2>. QED
        BY <1>11, <2>2, <2>3, <2>4 DEF Prune
<1>. QED
    BY <1>2, <1>4, <1>9, <1>10, <1>11 DEF Next

\* prune_runs takes a run whole or not at all, and a run that somebody fills or
\* executes only after somebody cancelled it under that call
\* (memory.py:483-627, sqlite.py:726-993).
THEOREM PruningIsAlwaysClean == ResumeSpec => PruningIsClean
<1>1. ResumeInv => ExecutedRunStandsAlone
    <2>. SUFFICES ASSUME ResumeInv, NEW c \in Callers, NEW k, k = call[c],
                         k.at \in Executing, runs[k.run] \notin {"CANCELLED", Absent}
                  PROVE  /\ runs[k.run] \in {"RUNNING", "CANCELLATION_REQUESTED"}
                         /\ \A t \in Tasks : taskRuns[k.run][t] # Absent
                         /\ \A t \in k.reused :
                               /\ taskRuns[k.run][t] = "REUSED"
                               /\ checkpoints[k.run][t] # NoOutput
                               /\ checkpoints[k.run][t] = k.outputs[t]
        BY DEF ExecutedRunStandsAlone
    <2>1. /\ ReuseIsClosed(k)
          /\ OwnKnows(k, runs[k.run], taskRuns[k.run], attempted[k.run], checkpoints[k.run])
        BY OwnerIsKnown DEF Owning
    <2>2. ExecutedSoFar(k, runs[k.run], taskRuns[k.run], attempted[k.run], checkpoints[k.run])
        BY <2>1 DEF OwnKnows
    <2>. QED
        BY <2>1, <2>2 DEF ExecutedSoFar, ReuseIsClosed
<1>2. ResumeInv => NothingOutlivesItsRun
    BY DEF ResumeInv, RunsStand, RunStands, NothingOutlivesItsRun
<1>3. ResumeInv /\ [Next]_resumeVars => [OnlyCancelledIsTaken]_resumeVars
    <2>. SUFFICES ASSUME ResumeInv, Next, NEW c \in Callers, NEW k, k = call[c],
                         k.at \in Creating \cup Executing, runs'[k.run] = Absent
                  PROVE  runs[k.run] \in {"CANCELLED", Absent}
        BY DEF OnlyCancelledIsTaken
    <2>1. /\ k.run \in Runs
          /\ OwnKnows(k, runs[k.run], taskRuns[k.run], attempted[k.run], checkpoints[k.run])
        BY OwnerIsKnown DEF Owning
    <2>2. runs[k.run] \in {"PENDING", "RUNNING", "CANCELLATION_REQUESTED", "CANCELLED", Absent}
        BY <2>1 DEF OwnKnows, MadeSoFar, ExecutedSoFar
    <2>3. runs[k.run] \in WorkflowTerminal \cup {Absent}
        BY <2>1, OnlyEndedRunsAreDeleted
    <2>. QED
        BY <2>2, <2>3 DEF WorkflowTerminal
<1>. QED
    BY <1>1, <1>2, <1>3, ResumeInvariant, PTL DEF ResumeSpec, PruningIsClean

=============================================================================
