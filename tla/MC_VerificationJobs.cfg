SPECIFICATION FairSpec
CONSTANTS
    Handler = {h1, h2}
    Job = {j1, j2, j3}
    Repositories = 2
    MaxJobs = 2
    None = None
    MaxFaults = 1
INVARIANT JobsInvariant
PROPERTIES RestoreIsUndisturbed JobsAreAnswered
