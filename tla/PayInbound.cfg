\* Streams of both users are open and nothing fails; the run may stop when all
\* is done.
CONSTANTS
    User = {alice, bob}
    Outside = {shop}
    Unknown = Unknown
    NoTx = NoTx
    NoUser = NoUser
    Payment = {t1}
    Amount = {1}
    Funds = 3
    Reserve = 1
    Fee = 1
    Env = {"stream"}
SPECIFICATION FairSpec
CHECK_DEADLOCK FALSE
PROPERTY
    InboundIsRecorded
