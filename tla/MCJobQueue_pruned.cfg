SPECIFICATION Spec
CONSTANTS
    Calls = {c1, c2}
    Workers = {w1, w2}
    NoCall = NoCall
    MaxOomRetries = 2
    MaxFiles = 1
    MaxEvents = 1
    Overlap = FALSE
PROPERTIES AcceptedIsProcessed RemovedForItself
CHECK_DEADLOCK FALSE
