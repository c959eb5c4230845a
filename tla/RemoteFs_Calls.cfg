SPECIFICATION Spec
CONSTANTS
    Ops <- LoadStreamMutateOps
    Kind <- LoadStreamMutate
    MaxRetries = 1
    FileChunks = 1
    MaxControl = 1
INVARIANTS
    PendingTracked
    ServedOnce
    StreamWhole
PROPERTIES
    KeepsContract
CHECK_DEADLOCK FALSE
