SPECIFICATION FairSpec
CONSTANTS
    File = {f1, f2}
    Legacy = {f2}
    Repo = {r1, r2}
    None = None
    MaxAppends = 1
    MaxFaults = 1
INVARIANT OffloadInvariant
PROPERTIES RemovedIsRestorable EverythingLeaves
