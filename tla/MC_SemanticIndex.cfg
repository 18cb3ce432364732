SPECIFICATION FairSpec
CONSTANTS
    e1 = e1
    e2 = e2
    c1 = c1
    c2 = c2
    Event = {e1, e2}
    Chunk = {c1, c2}
    ChunkOf <- MCChunkOf
    SegmentRows = 1
    Limit = 2
    Streak = 1
    None = None
    MaxFaults = 2
INVARIANTS ScoresAreExact CoverageIsExact
PROPERTY IndexCatchesUp
