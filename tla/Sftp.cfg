SPECIFICATION Spec
CONSTANTS
  Paths = {d1, d2}
  Names = {a, b}
  Home = d1
  Root = d2
  MaxClicks = 3
  None = None
INVARIANTS ListingTrue SessionReachable
PROPERTIES RenameInPlace LoadingEnds
CHECK_DEADLOCK FALSE
