SPECIFICATION Spec
CONSTANTS
    Voices = {a, b}
    ChunkLength = 5
    ChunkOverlap = 2
    Threshold = 5
    MaxDuration = 8
    MaxWord = 2
SYMMETRY Symmetry
INVARIANTS HeardWhole EachWordOnce SpeechCovered LabelsAreVoices
CHECK_DEADLOCK FALSE
