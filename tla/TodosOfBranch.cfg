CONSTANTS
    Plans <- MCPlans
    Updates <- MCUpdates
    TodoSessions = {1, 2}
    MaxSnapshots = 2
    MaxTodoRevision = 3
    MaxPoints = 1
SPECIFICATION RoamingSpec
INVARIANT TodosAreOfBranch
CHECK_DEADLOCK FALSE
