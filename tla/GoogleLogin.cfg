SPECIFICATION LoginSpec
CONSTANTS
  Logins = {l1, l2, l3}
  NoLogin = NoLogin
INVARIANTS NoStaleSender
PROPERTIES CancelEnds
CHECK_DEADLOCK FALSE
