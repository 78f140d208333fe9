SPECIFICATION Spec
CONSTANTS
    NumSpeakers = 3
    Duration = 3
    MaxSize = 4
    MaxWords = 2
    MinTurn = 2
    Pad = 1
    MaxAttempts = 1
    MinOverlap = 1
    InterruptionOverlap = 2
    Gap = 0
    MaxListed = 1
    MaxSpans = 2
    Confidences = {"low", "soft"}
INVARIANTS WordsPlaced RegionsRight DoubtReachesFindings MetricsMatchRoles
CHECK_DEADLOCK FALSE
