SPECIFICATION DecoderSpec
CONSTANTS
    Jobs = {j1, j2, j3}
    NoJob = NoJob
    MaxPasses = 2
    MaxFaults = 1
INVARIANTS FaultsAreContained
CHECK_DEADLOCK FALSE
