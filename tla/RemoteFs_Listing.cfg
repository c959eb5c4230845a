SPECIFICATION FairSpec
CONSTANTS
    Ops <- ListingOps
    Kind <- Listing
    MaxRetries = 2
    FileChunks = 0
    MaxControl = 1
PROPERTIES
    Answered
CHECK_DEADLOCK FALSE
