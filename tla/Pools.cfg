\* Three calls of two members, and everything the surroundings may do; every
\* call ends, so the run may stop.
CONSTANTS
    Request = {r1, r2, r3}
    Tx = {r1, r2, r3}
    Member = {mia, max}
    Account = {mia, max}
    Shares = {1, 2}
    Floor = {2}
    Price = 2
    NoRow = NoRow
    Env = {"rpc", "db", "market"}
SYMMETRY Interchangeable
SPECIFICATION Spec
CHECK_DEADLOCK FALSE
INVARIANTS
    TypeOK
    CalmPositionsAgree
    SwapsPayTheFloor
    SuccessIsReal
