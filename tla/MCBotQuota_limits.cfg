SPECIFICATION Spec
CONSTANTS
    Uploads = {u1, u2, u3}
    Lengths = {1}
    Settings <- EveryKind
    DayLength = 4
    Offset = 1
    MaxTime = 8
    MaxUpdates = 1
    MaxConcurrent = 2
SYMMETRY Symmetry
INVARIANTS CallsCounted OverrunBounded
PROPERTIES FreshAllowance WindowKept
CHECK_DEADLOCK FALSE
