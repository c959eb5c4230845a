SPECIFICATION Spec
CONSTANTS
    t1 = t1
    t2 = t2
    Transfers <- MCTransfers
    Offers <- DownloadOffers
    DirOf <- OneDirOf
    MaxFiles = 2
    MayOverlap = TRUE
CHECK_DEADLOCK FALSE
PROPERTIES
    AnswerStaysHome
