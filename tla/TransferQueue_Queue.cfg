SPECIFICATION Spec
CONSTANTS
    t1 = t1
    t2 = t2
    Transfers <- MCTransfers
    Offers <- MCOffers
    DirOf <- MCDirOf
    MaxFiles = 3
    MayOverlap = FALSE
CHECK_DEADLOCK FALSE
INVARIANTS
    CompletedWhole
    OneThingAtATime
    PendingExact
    NeverForgotten
    ArchiveRemoved
PROPERTIES
    KeepsJobOrder
    EveryTransferEnds
