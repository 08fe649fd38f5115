-------------------------- MODULE ExternalWorkloads --------------------------
(***************************************************************************)
(* One task whose work is a job of another runtime (integrations/): the    *)
(* V1 generic adapter and PyIngestKit adapter, and the V2 handlers of      *)
(* PyIngestKit and PyTransformKit.  The task is built, each attempt asks   *)
(* the sibling's wrapper to run the job once, and what the wrapper answers *)
(* is translated for the retry decision of the runtime at hand.            *)
(*                                                                         *)
(* A wrapper tells the truth when it names an end, but it may lose its     *)
(* job: it raises, returns something else or says it does not know, and    *)
(* the job goes on without it.  Time is left out: attempts follow at once. *)
(***************************************************************************)
EXTENDS RetryPolicy, Sequences

CONSTANTS
    Integrations,         \* the boundaries to look at
    ExternalPolicies,     \* V2 policies a task may declare
    LegacyPolicies        \* V1 policies: attempts and categories to retry

GenericV1 == "external_workload"
IngestV1 == "pyingestkit"
IngestV2 == "pyingestkit_v2"
TransformV2 == "pytransformkit_v2"
Generation2 == {IngestV2, TransformV2}

ASSUME ExternalConstants ==
    /\ Integrations \subseteq {GenericV1, IngestV1, IngestV2, TransformV2}
    /\ ExternalPolicies \subseteq RetryPolicies
    /\ \A p \in LegacyPolicies : p.max_attempts \in Nat \ {0}

VARIABLES
    integration, owner, terms,    \* the task asked for: its retry owner and policy
    stage,
    tries,                        \* number of the current attempt
    jobs,                         \* jobs[n]: what became of the n-th job started
    said,                         \* the last answer of a wrapper
    failed                        \* the failure the runtime was told of

externalVars == <<integration, owner, terms, stage, tries, jobs, said, failed>>

Stages == {"building", "refused", "ready", "running", "answered", "deciding", "over"}

\* What wrappers may answer at each boundary, once the job has ended so or,
\* for the last ones, when they have lost it.
Ends(job) ==
    CASE integration = TransformV2 /\ job = "failed" -> {"FAILED", "CANCELLED", "TIMED_OUT"}
      [] job = "failed" -> {"FAILED"}
      [] job = "succeeded" -> {"SUCCEEDED"}
      [] OTHER -> {}

Lost ==
    {"raises", "other"} \cup
    (IF integration = TransformV2 THEN {"UNKNOWN_OUTCOME", "REQUIRES_RECONCILIATION"}
     ELSE IF integration = IngestV2 THEN {"UNKNOWN_OUTCOME"} ELSE {})

InitExternal ==
    /\ integration \in Integrations
    /\ owner \in (IF integration = TransformV2 THEN {"pyworkflowkit"}
                  ELSE {"pyworkflowkit", "external"})
    /\ terms \in (IF integration \in Generation2 THEN ExternalPolicies ELSE LegacyPolicies)
    /\ stage = "building"
    /\ tries = 1
    /\ jobs = << >>
    /\ said = [says |-> "nothing", hint |-> FALSE]
    /\ failed = NoFailure

\* Mutant: any policy goes with any owner.
OwnershipUnchecked == TRUE

\* external_workload_task, pyingestkit_task and pyingestkit_v2_task: when the
\* other runtime owns retries, the policy may have one attempt only.
OwnershipClear == owner = "external" => terms.max_attempts = 1

BuildTask ==
    /\ stage = "building"
    /\ stage' = IF OwnershipClear THEN "ready" ELSE "refused"
    /\ UNCHANGED <<integration, owner, terms, tries, jobs, said, failed>>

\* The attempt calls the wrapper, which starts the job.
StartJob ==
    /\ stage = "ready"
    /\ stage' = "running"
    /\ jobs' = Append(jobs, "running")
    /\ UNCHANGED <<integration, owner, terms, tries, said, failed>>

Failure(category, retryability, uncertainty) ==
    [category |-> category, retryability |-> retryability, uncertainty |-> uncertainty]

BrokenContract == Failure("contract_violation", "non_retryable", "known")

\* PyTransformKitWorkloadHandler: inputs that are no JSON end the attempt
\* before there is a job.
RefuseInputs ==
    /\ stage = "ready" /\ integration = TransformV2
    /\ stage' = "deciding"
    /\ failed' = BrokenContract
    /\ UNCHANGED <<integration, owner, terms, tries, jobs, said>>

\* The world: any job still running may end, its wrapper there or not.
EndJob ==
    /\ \E n \in DOMAIN jobs, end \in {"succeeded", "failed"} :
          jobs[n] = "running" /\ jobs' = [jobs EXCEPT ![n] = end]
    /\ UNCHANGED <<integration, owner, terms, stage, tries, said, failed>>

Answer ==
    /\ stage = "running"
    /\ \E says \in Ends(jobs[Len(jobs)]) \cup Lost, hint \in BOOLEAN :
          said' = [says |-> says, hint |-> hint]
    /\ stage' = "answered"
    /\ UNCHANGED <<integration, owner, terms, tries, jobs, failed>>

Hinted == IF said.hint THEN "retryable" ELSE "non_retryable"

Uncertain == Failure("unknown_outcome", "retryable_after_reconciliation",
                     "requires_reconciliation")

\* PyIngestKitWorkloadHandler.__call__.
IngestFailure ==
    CASE said.says \in {"raises", "other"} -> BrokenContract
      [] said.says = "UNKNOWN_OUTCOME" -> Uncertain
      [] OTHER -> Failure("external_provider", Hinted, "known")

\* Mutant: an outcome to be reconciled counts as a failure.
TransformFailureTooSure ==
    CASE said.says \in {"raises", "other"} -> BrokenContract
      [] said.says = "UNKNOWN_OUTCOME" -> Uncertain
      [] said.says = "TIMED_OUT" -> Failure("timeout", Hinted, "known")
      [] OTHER -> Failure("external_provider", Hinted, "known")

\* PyTransformKitWorkloadHandler.__call__: what it ended cancelled is final.
TransformFailure ==
    CASE said.says \in {"raises", "other"} -> BrokenContract
      [] said.says \in {"UNKNOWN_OUTCOME", "REQUIRES_RECONCILIATION"} -> Uncertain
      [] said.says = "CANCELLED" -> Failure("external_provider", "non_retryable", "known")
      [] said.says = "TIMED_OUT" -> Failure("timeout", Hinted, "known")
      [] OTHER -> Failure("external_provider", Hinted, "known")

\* ExternalWorkloadAdapter.__call__ and invoke_python_handler: the category is
\* the wrapper's own for a failed job; hint stands for "temporary".
GenericCategory ==
    CASE said.says = "raises" -> "exception_type"
      [] said.says = "other" -> "integration_contract"
      [] OTHER -> IF said.hint THEN "temporary" ELSE "permanent"

\* PyIngestKitTaskAdapter.__call__ puts its category into an error that
\* executors know nothing of: the runtime reads the type of the exception.
LegacyIngestCategory == "PyIngestKitAdapterError"

LegacyFailure ==
    Failure(IF integration = GenericV1 THEN GenericCategory ELSE LegacyIngestCategory,
            "retryable", "known")

\* The adapter or handler turns the answer into the end of the attempt.
Translate ==
    /\ stage = "answered"
    /\ \/ /\ said.says = "SUCCEEDED"
          /\ stage' = "over"
          /\ failed' = NoFailure
       \/ /\ said.says # "SUCCEEDED"
          /\ stage' = "deciding"
          /\ failed' = CASE integration = IngestV2 -> IngestFailure
                         [] integration = TransformV2 -> TransformFailure
                         [] OTHER -> LegacyFailure
    /\ UNCHANGED <<integration, owner, terms, tries, jobs, said>>

\* RetryEngine.decide of V1.
LegacyRetries ==
    /\ tries < terms.max_attempts
    /\ terms.categories # {} => failed.category \in terms.categories

Retries ==
    IF integration \in Generation2
    THEN \E e \in Evaluations(terms, failed, tries, 0) : e.decision = "retry"
    ELSE LegacyRetries

Decide ==
    /\ stage = "deciding"
    /\ \/ Retries /\ stage' = "ready" /\ tries' = tries + 1
       \/ ~ Retries /\ stage' = "over" /\ UNCHANGED tries
    /\ UNCHANGED <<integration, owner, terms, jobs, said, failed>>

TaskIsOver == stage \in {"refused", "over"} /\ UNCHANGED externalVars

ExternalNext ==
    \/ BuildTask \/ StartJob \/ RefuseInputs \/ EndJob \/ Answer \/ Translate
    \/ Decide \/ TaskIsOver

ExternalSpec == InitExternal /\ [][ExternalNext]_externalVars

-----------------------------------------------------------------------------
(* Properties.                                                             *)

\* The V1 policy names the categories to retry, all of them a wrapper's own.
OnlyFailedJobsRetried ==
    terms.categories # {} /\ terms.categories \subseteq {"temporary", "permanent"}

\* A job whose retries belong to the other runtime is started at most once,
\* however its only attempt ends: the two runtimes never multiply their
\* retries (integrations/workload.py:185, integrations/pyingestkit.py:190,472).
ExternallyOwnedRunsOnce == owner = "external" => Len(jobs) <= 1

\* A V2 task starts a further job only when the one before it has failed: a
\* job its wrapper has lost, which may still run or have succeeded, is left to
\* reconciliation.  In V1 that takes a policy that names the categories to
\* retry, and only those of jobs that failed
\* (integrations/pytransformkit.py:322, integrations/pyingestkit.py:407).
LostJobIsNotRepeated ==
    \/ integration = IngestV1
    \/ integration = GenericV1 /\ ~ OnlyFailedJobsRetried
    \/ \A n \in DOMAIN jobs : n < Len(jobs) => jobs[n] = "failed"

=============================================================================
