\* A user with a PIN signs in again.
CONSTANTS
    User = {alice}
    Tab = {t1}
    Call = {c1}
    Pin = {p1}
    NewPin = {p1}
    NoPin = NoPin
    NoTime = NoTime
    NoUser = NoUser
    MaxFailed = 2
    Lockout = 1
    MaxTime = 1
    MaxUnsure = 1
SPECIFICATION Spec
PROPERTY
    GateAsksForThePin
