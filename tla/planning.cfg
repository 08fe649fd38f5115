SPECIFICATION PlanningFairSpec
CONSTANTS
    TaskCount = 3
    Objects = {o1, o2, o3}
    Versions = {"v1", "v2"}
    GivenChoices <- AnyTasks
CHECK_DEADLOCK FALSE
INVARIANTS PlanningIsSound
