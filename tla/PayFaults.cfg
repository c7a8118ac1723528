\* Everything the surroundings may do; every call ends, so the run may stop.
CONSTANTS
    User = {alice, bob}
    Outside = {shop}
    Unknown = Unknown
    NoTx = NoTx
    NoUser = NoUser
    Payment = {t1, t2}
    Amount = {2}
    Funds = 6
    Reserve = 1
    Fee = 1
    Env = {"stream", "lost", "db", "crash"}
SPECIFICATION FairSpec
CHECK_DEADLOCK FALSE
INVARIANTS
    TypeOK
    CompletedIsApplied
    AnswerIsOnRecord
PROPERTIES
    ImplementsIdealTransfer
    CallsEnd
