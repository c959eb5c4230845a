SPECIFICATION Spec
CONSTANTS
    Worktrees <- OneWorktree
    Submodules <- OneSubmodule
    Quiet = 1
    MaxWait = 1
    MaxChanges = 1
    MaxRequests = 1
    MaxFailures = 0
    MaxEvents = 2
INVARIANTS
    LatestPickWins
CHECK_DEADLOCK FALSE
