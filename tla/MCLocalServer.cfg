SPECIFICATION ServerSpec
CONSTANTS
    Calls = {c1, c2}
    Workers = {w1, w2}
    NoCall = NoCall
    MaxOomRetries = 0
    MaxFiles = 1
    Overlap = FALSE
    MaxEvents = 1
    Contents = {a, b}
    MaxQueue = 1
    MaxChunks = 1
    MaxInserts = 1
SYMMETRY Symmetry
INVARIANTS FilesHaveCalls
PROPERTIES ImplementsIngest
CHECK_DEADLOCK FALSE
