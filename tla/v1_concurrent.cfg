SPECIFICATION RunnerFairSpec
CONSTANTS
    Tasks <- MCTasks
    AttemptBound = 2
    Attempts <- MCAttempts
    ExecutorKeys <- MCExecutorKeys
    Executor = "process"
    GlobalLimit = 3
    ConfiguredLimit <- MCConfiguredLimit
    MaxConcurrency <- MCMaxConcurrency
    Definitions <- MCDefinitions
INVARIANTS LeasesWithinLimits WorkersAreAccountedFor RecordsFollowWork
PROPERTIES RunnerReturns
