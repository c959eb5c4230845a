SPECIFICATION FairSpec
CONSTANTS
    Prompts = {p1, p2, p3}
    Calls = {c1}
    Permissions = {q1}
    Tasks = {t1, t2}
    Overlap = "open"
    MayBeBusy = FALSE
    RetryInitialMs = 200
    RetryMaxDelayMs = 400
    RetryGiveUpMs = 600
    NoPrompt = NoPrompt
INVARIANTS
    OpenPromptsExact
    NoPromptLost
    NoLostWakeup
PROPERTIES
    KeepsTargetContract
    EndMeansAnswered
    TurnEnds
    SupervisorResumes
CHECK_DEADLOCK FALSE
