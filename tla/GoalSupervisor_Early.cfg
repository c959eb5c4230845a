SPECIFICATION Spec
CONSTANTS
    NumCriteria = 1
    MaxIterations = 2
    Requests <- QueuedGoal
    MaxUserSends = 0
    MaxTasks = 0
    MaxForms = 1
PROPERTIES
    GoalDelivered
CHECK_DEADLOCK FALSE
