SPECIFICATION FairSpec
CONSTANTS
    Ptys = {p1}
    LongExecs = {l1}
    ShortExecs = {s1, s2}
    ChannelCap = 4
    SftpReserved = 2
    MaxLongLived = 1
    MaxConnects = 2
INVARIANTS
    BudgetRespected
    NoIdleSlot
    QueuesExact
PROPERTIES
    AdmitsInOrder
    ShortNeverStarves
CHECK_DEADLOCK FALSE
