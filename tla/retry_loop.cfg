SPECIFICATION RetrySpec
CONSTANTS
    FloatExponentLimit = 2
    Policies <- SomePolicies
    Failures <- SomeFailures
    Durations <- ShortAndLong
    Integrations = {"external_workload", "pyingestkit", "pyingestkit_v2", "pytransformkit_v2"}
    ExternalPolicies <- JobPolicies
    LegacyPolicies <- LegacyJobPolicies
    LegacyDefinitions <- SomeDefinitions
    CategoryNamed <- SomeCategories
    ExecutorMap = {"local"}
INVARIANTS RetriesWithinPolicy ExternallyOwnedRunsOnce LostJobIsNotRepeated MigratedTaskRetriesAlike
PROPERTIES RetryOnlyAfterKnownFailure
