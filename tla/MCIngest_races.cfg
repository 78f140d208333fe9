SPECIFICATION Spec
CONSTANTS
    Uploads = {u1, u2, u3}
    Contents = {a, b}
    NoUpload = NoUpload
    MaxQueue = 1
    MaxChunks = 1
    MaxFiles = 1
    MaxEvents = 1
SYMMETRY Symmetry
INVARIANTS TypeOK RefusedLeavesNothing OneCallPerRecording
PROPERTIES PrunerKeepsNewest
CHECK_DEADLOCK FALSE
