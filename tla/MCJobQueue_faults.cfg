SPECIFICATION Spec
CONSTANTS
    Calls = {c1, c2}
    Workers = {w1, w2}
    NoCall = NoCall
    MaxOomRetries = 1
    MaxFiles = 1
    Overlap = FALSE
    MaxEvents = 1
SYMMETRY Symmetry
INVARIANTS DeletedLeavesNoData AudioKept NoStrandedCall OneJobPerCall CompletedHasResults RetryBudget
PROPERTIES NoResurrection
CHECK_DEADLOCK FALSE
