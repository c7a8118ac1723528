\* One user and one tab, two PINs to choose from.
CONSTANTS
    User = {alice}
    Tab = {t1}
    Call = {c1, c2}
    Pin = {p1, p2}
    NewPin = {p1}
    NoPin = NoPin
    NoTime = NoTime
    NoUser = NoUser
    MaxFailed = 1
    Lockout = 2
    MaxTime = 2
    MaxUnsure = 1

SPECIFICATION FairSpec
INVARIANTS
    TypeOK
    EntryPaidOnce
    CountdownIsTheServers
PROPERTY InputsComeBack
