SPECIFICATION FairSpec
CONSTANTS
    Uploads = {u1, u2}
    Contents = {a}
    NoUpload = NoUpload
    MaxEvents = 1
INVARIANTS PlaysConverted DuplicateIsOriginal AlwaysTruthful
PROPERTIES UnsentAreRetried ResultsArrive
CHECK_DEADLOCK FALSE
