SPECIFICATION FairSpec
CONSTANTS
    Uploads = {u1, u2}
    Contents = {a, b}
    NoUpload = NoUpload
    MaxEvents = 2
INVARIANTS JobsAreReady StageTruthful MinutesOnce
PROPERTIES NoGhostRow EveryCallEnds
CHECK_DEADLOCK FALSE
