SPECIFICATION FairSpec
CONSTANTS
    Producer = {a, b}
    Rotten = {b}
    Thread = {t1, t2}
    None = None
    Total = 2
    MaxChunk = 2
    Files = 2
    Budget = 3
    MaxCrashes = 1
    MaxLosses = None
CHECK_DEADLOCK FALSE
INVARIANTS
    StagedIsSafe
    PublishedIsSafe
PROPERTIES
    DropsOnlyDurable
    RotIsNotPublished
    UploadCompletes
