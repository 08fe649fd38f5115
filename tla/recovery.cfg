SPECIFICATION RecoveryFairSpec
CONSTANTS
    TaskCount = 2
    FloatExponentLimit = 1024
    Dependencies <- Chain
    TriggerRule <- AllSuccess
    Policy <- TwoAttempts
    Outcomes <- Ambiguous
    ReusedChoices = {{}, {1}, {1, 2}}
    ElapsedChoices = {0}
    Callers = {}
    CancelReplies <- NoReplies
    Reconcilers = {r1, r2}
    Observations = {"running", "succeeded", "failed", "cancelled", "unknown"}
INVARIANTS RecoveredRunIsJustified FullyResolvedReportIsTrue
PROPERTY ReconcileEnds
