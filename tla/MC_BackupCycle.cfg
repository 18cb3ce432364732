SPECIFICATION FairSpec
CONSTANTS
    Repository = {r1, r2}
    Identity = {i1, i2, i3}
    None = None
    MaxSnapshots = 2
    MaxCopies = 2
    MaxDeaths = 1
    MaxRepoints = 1
INVARIANTS
    ReceiptInvariant
PROPERTIES
    PendingIsKept
    PendingCompletes
