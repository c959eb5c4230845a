SPECIFICATION FairSpec
CONSTANTS
    Prompts = {p1, p2}
    Calls = {c1}
    Permissions = {q1}
    Tasks = {}
    Overlap = "none"
    MayBeBusy = TRUE
    RetryInitialMs = 200
    RetryMaxDelayMs = 2000
    RetryGiveUpMs = 10000
    NoPrompt = NoPrompt
INVARIANTS
    BusyWaitBounded
    CountIsOwed
PROPERTIES
    TurnEnds
CHECK_DEADLOCK FALSE
