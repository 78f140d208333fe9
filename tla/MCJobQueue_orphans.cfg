SPECIFICATION Spec
CONSTANTS
    Calls = {c1}
    Workers = {w1, w2}
    NoCall = NoCall
    MaxOomRetries = 2
    MaxFiles = 2
    MaxEvents = 2
    Overlap = FALSE
INVARIANTS NoOrphanFiles
CHECK_DEADLOCK FALSE
