SPECIFICATION Spec
CONSTANTS
  MaxClicks = 3
  MayFail = TRUE
INVARIANTS ReferencesKept StoreFresh AllShown
PROPERTIES CredentialsKept
CHECK_DEADLOCK FALSE
