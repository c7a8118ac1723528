\* Two jobs of one merchant, and everything the surroundings may do; every
\* job ends, so the run may stop.
CONSTANTS
    r1 = r1
    r2 = r2
    Request <- MCRequest
    Tx <- MCTx
    Merchant = {mia}
    Account = {mia}
    Env = {"rpc", "db", "crash"}
SPECIFICATION FairSpec
CHECK_DEADLOCK FALSE
INVARIANTS
    TypeOK
    RecordedIsReady
    UnrecordedIsReported
PROPERTY
    JobsEnd
