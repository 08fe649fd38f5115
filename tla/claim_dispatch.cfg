SPECIFICATION RecoverySpec
CONSTANTS
    TaskCount = 1
    FloatExponentLimit = 1024
    Dependencies <- Chain
    TriggerRule <- AllSuccess
    Policy <- UnlimitedRetries
    Outcomes <- SuccessOrTransient
    ReusedChoices = {{}}
    ElapsedChoices = {0}
    Callers = {c1}
    CancelReplies <- OnlyConfirmed
    Reconcilers = {}
    Observations = {"succeeded", "failed"}
PROPERTY CancelStopsDispatch
