SPECIFICATION TrustSpec
CONSTANTS
  Endpoints = {e1, e2}
  Keys = {k1, k2}
  Checks = {c1, c2, c3, c4}
  NoKey = NoKey
  NoCheck = NoCheck
  NoEndpoint = NoEndpoint
  MaxDeletes = 2
INVARIANTS OneKeyPerEndpoint
PROPERTIES ImplementsTOFU PinsOnlyDeleted
SYMMETRY Symmetry
CHECK_DEADLOCK FALSE
