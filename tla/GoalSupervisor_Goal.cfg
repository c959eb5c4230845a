SPECIFICATION FairSpec
CONSTANTS
    NumCriteria = 2
    MaxIterations = 2
    Requests <- AllGoals
    MaxUserSends = 1
    MaxTasks = 1
    MaxForms = 1
INVARIANTS
    WaitHasWaker
    AlwaysDriven
    OneVerdictEach
PROPERTIES
    JudgesSettledTarget
    SilentAfterEnd
    FollowsCourse
    GoalEnds
CHECK_DEADLOCK FALSE
