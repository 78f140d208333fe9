SPECIFICATION Spec
CONSTANTS
    Uploads = {u1, u2}
    Lengths = {1, 2}
    Settings <- LimitsOnly
    DayLength = 4
    Offset = 1
    MaxTime = 8
    MaxUpdates = 0
    MaxConcurrent = 2
INVARIANTS CallLimitKept NoMinutesLost
PROPERTIES NoUploadWithoutMinutes MinutesOnBotsDay
CHECK_DEADLOCK FALSE
