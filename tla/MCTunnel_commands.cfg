SPECIFICATION TSpec
CONSTANTS
    Procs = {p1, p2}
    NoProc = NoProc
    Overlap = FALSE
    MaxFaults = 1
    Scripts = {s1}
    MaxSignals = 2
INVARIANTS OneAtWork TunnelClosed
PROPERTIES StoppedMeansStopped LaunchServes
CHECK_DEADLOCK FALSE
