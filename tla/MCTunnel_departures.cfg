SPECIFICATION TSpec
CONSTANTS
    Procs = {p1, p2}
    NoProc = NoProc
    Overlap = TRUE
    MaxFaults = 1
    Scripts = {s1}
    MaxSignals = 2
INVARIANTS OneAtWork AlwaysTakenDown
PROPERTIES StopReleases
CHECK_DEADLOCK FALSE
