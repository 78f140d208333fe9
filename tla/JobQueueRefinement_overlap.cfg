SPECIFICATION FairHSpec
CONSTANTS
    Calls = {c1}
    Workers = {w1, w2}
    NoCall = NoCall
    MaxOomRetries = 1
    MaxFiles = 1
    Overlap = TRUE
    MaxEvents = 2
PROPERTIES ImplementsLifecycle EveryCallEnds
CHECK_DEADLOCK FALSE
