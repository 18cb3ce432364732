SPECIFICATION Spec
CONSTANTS
  Producer = {c1, c2}
  Session = {s1}
  None = None
  Refused = {}
  Brief = {}
  MaxRecords = 2
  MaxVersions = 2
  MaxRequests = 2
  Reverts = FALSE
SYMMETRY Symmetry
INVARIANTS CapturedIsKept
PROPERTIES HeadOnlyGrows ImplementsHistory
