SPECIFICATION FairSpec
CONSTANTS
    Uploads = {u1, u2}
    Contents = {a, b}
    NoUpload = NoUpload
    MaxQueue = 1
    MaxChunks = 1
    MaxFiles = 1
    MaxEvents = 3
INVARIANTS RefusedLeavesNothing OneCallPerRecording
PROPERTIES PrunerKeepsNewest PrunerCatchesUp
CHECK_DEADLOCK FALSE
