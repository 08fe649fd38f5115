SPECIFICATION InspectedFairSpec
CONSTANTS
    TaskCount = 3
    FloatExponentLimit = 1024
    Dependencies <- Join
    TriggerRule <- SkippingRules
    Policy <- TwoAttempts
    Outcomes <- EveryOutcome
    ReusedChoices <- AnythingReused
    ElapsedChoices <- Ages
    Callers = {}
    CancelReplies <- NoReplies
    Inspectors = {i1}
INVARIANTS UndisturbedRunSettles DispatchAfterDependencies InspectionSeesWork
PROPERTIES RunEnds
