SPECIFICATION MCSpec
CONSTANTS
    first = first
    second = second
    Attempts <- TwoAttempts
    MaxWorkers = 1
    Deadlined <- FirstDeadlined
    Handles <- TwoAttempts
    Endless <- SecondEndless
    Kinds = {"thread", "async", "process", "subprocess"}
CHECK_DEADLOCK FALSE
INVARIANTS ToldOutcomesAreFinal ConfirmedProgramIsNotResult WorkIsHeld HandlesAreAccountedFor
PROPERTIES ExecuteReturns CompletionArrives
