SPECIFICATION Spec
CONSTANTS
    NumSpeakers = 2
    Duration = 3
    MaxSize = 4
    MaxWords = 2
    MinTurn = 2
    Pad = 1
    MaxAttempts = 1
    MinOverlap = 1
    InterruptionOverlap = 2
    Gap = 0
    MaxListed = 2
    MaxSpans = 1
    Confidences = {"floor", "low", "soft"}
INVARIANTS RecoveredStaysUncertain
CHECK_DEADLOCK FALSE
