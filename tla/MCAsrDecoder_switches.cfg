SPECIFICATION DecoderFairSpec
CONSTANTS
    Jobs = {j1, j2, j3}
    NoJob = NoJob
    MaxPasses = 2
    MaxFaults = 2
INVARIANTS EachPassItsDecoder
PROPERTIES EveryJobEnds
CHECK_DEADLOCK FALSE
