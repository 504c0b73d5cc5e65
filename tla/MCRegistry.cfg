SPECIFICATION Spec
CONSTANTS
    f = f
    m = m
    t1 = t1
    t2 = t2
    Idle = Idle
    Hashes = {f, m}
    MagnetHashes = {m}
    Clients = {t1, t2}
    MaxSessions = 2
    MaxRestarts = 1
    InitMayFail = TRUE
SYMMETRY ClientSymmetry
CHECK_DEADLOCK FALSE
INVARIANTS
    TypeOK
    OnlyRegisteredRuns
    RegisteredIsRecorded
    QuitClosedOnce
