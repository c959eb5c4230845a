SPECIFICATION Spec
CONSTANTS
    Worktrees <- OneWorktree
    Submodules <- NoSubmodule
    Quiet = 1
    MaxWait = 1
    MaxChanges = 2
    MaxRequests = 1
    MaxFailures = 1
    MaxEvents = 3
INVARIANTS
    NothingForgotten
    BurstBounded
    PanelShowsRepo
    CountsFollowEntries
    NeverRestsOnRemoved
PROPERTIES
    ViewCatchesUp
CHECK_DEADLOCK FALSE
