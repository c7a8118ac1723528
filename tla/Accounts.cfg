\* One member, three requests; every request ends, so the run may stop.
CONSTANTS
    ann = ann
    annName = annName
    Request = {r1, r2, r3}
    Member = {ann}
    Name = {annName, newName}
    MemberName <- MCMemberName
    NoOne = NoOne
    NoLock = NoLock
    MaxFailed = 2
    Lockout = 1
    MaxTries = 2
    MaxTime = 2
SYMMETRY Interchangeable
SPECIFICATION Spec
CHECK_DEADLOCK FALSE
INVARIANTS
    TypeOK
    RegisteredIsWhole
    LoginLockEarned
    InactiveStaysOut
