SPECIFICATION ResumeSpec
CONSTANTS
    TaskCount = 2
    RunBound = 3
    Backends = {"memory", "sqlite"}
    MaxRuns = 1
    PruneStates = {"SUCCEEDED", "FAILED", "CANCELLED"}
    BatchSize = 1
    PruneBound = 1
    Callers = {1}
    Upstream <- Chain
    Deterministic = {1, 2}
    ForcedChoices <- NothingOrOneForced
    CancelBound = 1
CHECK_DEADLOCK FALSE
INVARIANTS OutputsFitTogether
PROPERTY PruningIsClean
