SPECIFICATION FairSpec
CONSTANTS
    s1 = s1
    s2 = s2
    s3 = s3
    Snapshot = {s1, s2, s3}
    Epoch <- Epochs
    Worker = {w1, w2}
    Reader = {r1}
    None = None
    MaxFaults = 1
INVARIANTS
    Wholeness
PROPERTIES
    NeverBackward
    ImplementsStore
    NewestArrives
