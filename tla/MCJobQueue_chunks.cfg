SPECIFICATION Spec
CONSTANTS
    Calls = {c1}
    Workers = {w1, w2}
    NoCall = NoCall
    MaxOomRetries = 2
    MaxFiles = 2
    MaxEvents = 1
    Overlap = TRUE
INVARIANTS PartsPrivate RetryBudget
CHECK_DEADLOCK FALSE
