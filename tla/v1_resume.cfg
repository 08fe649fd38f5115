SPECIFICATION SequentialFairSpec
CONSTANTS
    TaskCount = 2
    Upstream <- SecondAfterFirst
    AttemptBound = 2
    ExternalTasks = {1}
    Processes = {1, 2}
INVARIANTS ExecutionIsClaimed ManifestCanBeBuilt LiveWorkIsSeen
PROPERTIES ResumeEnds
