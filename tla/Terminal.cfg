SPECIFICATION Spec
CONSTANTS
    Panes = {p1, p2}
    NumAttempts = 3
    MaxRetries = 1
    None = None
INVARIANTS SessionsReachable SpinnerMeansWork NoSecretRecorded
PROPERTY DisposedEnds
CHECK_DEADLOCK FALSE
