SPECIFICATION Spec
CONSTANTS
    Providers = {openai, anthropic}
    Flows = {f1, f2}
    MAX_AUTONOMOUS_ITERATIONS = 1
    MaxClicks = 6
    MaxAsked = 3
    None = None
INVARIANTS DangerConfirmed HistoryWellFormed ActiveHasKey
PROPERTY FlowsEnd
CHECK_DEADLOCK FALSE
