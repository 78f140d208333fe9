SPECIFICATION GateSpec
CONSTANTS
    Logins = {r1, r2, r3, r4}
    Clients = {c1}
    MaxThreads = 2
    MaxSessions = 2
    MaxAttempts = 2
    Window = 2
    Lockout = 1
    Ttl = 2
    MaxTime = 5
INVARIANTS SessionsBounded BlockedEarned
CHECK_DEADLOCK FALSE
