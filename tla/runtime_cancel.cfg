SPECIFICATION InspectedFairSpec
CONSTANTS
    TaskCount = 2
    FloatExponentLimit = 1024
    Dependencies <- Chain
    TriggerRule <- AllSuccess
    Policy <- TwoAttempts
    Outcomes <- SomeOutcomes
    ReusedChoices <- NothingReused
    ElapsedChoices <- Young
    Callers = {c1}
    CancelReplies <- EveryReply
    Inspectors = {}
INVARIANTS TaskMatchesLastAttempt
PROPERTIES DurableStepsLegal TerminalManifestIsKept ImplementsLedger CallsEnd
