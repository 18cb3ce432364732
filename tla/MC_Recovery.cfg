SPECIFICATION Recovery
CONSTANTS
    Writer = {w1, w2}
    MaxWrites = 2
    Device = {d1}
    MaxTokens = 4
    Absent = Absent
    MaxFaults = 1
    MaxCredentialFaults = 1
    Unset = Unset
INVARIANTS
    HandoverInvariant
    CredentialInvariant
PROPERTIES
    StandbyConverges
