SPECIFICATION FairSpec
CONSTANTS
  Producer = {c1}
  Session = {s1, s2}
  None = None
  Refused = {s2}
  Brief = {s2}
  MaxRecords = 3
  MaxVersions = 3
  MaxRequests = 2
  Reverts = TRUE
INVARIANTS NoSelfConflict
PROPERTIES QueueDrains ImplementsHistory
