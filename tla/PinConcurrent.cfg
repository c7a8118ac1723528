\* Three requests in flight, four in all; every request ends, so the run may stop.
CONSTANTS
    p1 = p1
    p2 = p2
    malformed = malformed
    NoPin = NoPin
    NoLock = NoLock
    Pin <- MCPin
    ValidPin <- MCValidPin
    Request = {r1, r2, r3, r4}
    MaxFailed = 2
    Lockout = 1
    MaxActive = 3
    MaxTime = 2
SYMMETRY Interchangeable
SPECIFICATION Spec
CHECK_DEADLOCK FALSE
INVARIANTS
    TypeOK
    LockTracksCounter
    LockoutEarned
PROPERTIES
    AttemptsLeftMeansOpen
    FreshWriteIsAtomic
    ImplementsForgetfulLockout
