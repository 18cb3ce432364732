SPECIFICATION FairInference
CONSTANTS
    Thread = {t1, t2, t3}
    Text = {x, y}
    Nothing = Nothing
    Slots = 2
    MaxWorkerFaults = 2
CHECK_DEADLOCK FALSE
INVARIANTS
    InferenceInvariant
PROPERTIES
    InferenceRecovers
