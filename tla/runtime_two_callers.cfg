SPECIFICATION InspectedSpec
CONSTANTS
    TaskCount = 2
    FloatExponentLimit = 1024
    Dependencies <- Chain
    TriggerRule <- AllSuccess
    Policy <- OneAttempt
    Outcomes <- StoppedOrUncertain
    ReusedChoices <- NothingReused
    ElapsedChoices <- Young
    Callers = {c1, c2}
    CancelReplies <- MixedReplies
    Inspectors = {}
SYMMETRY CallersSymmetry
INVARIANTS CancellationsAreHonest ReturnedRunHasNoLiveAttempt
