SPECIFICATION FairSpec
CONSTANTS
    Call = {c1, c2}
    None = None
    MaxEpoch = 2
    MaxSnapshots = 3
    MaxDeaths = 1
    MaxOutages = 1
INVARIANTS
    OutboxInvariant
PROPERTIES
    RemovedIsConfirmed
    CatchesUpUnlessTorn
