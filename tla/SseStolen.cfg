\* A late hang-up of an old stream.
CONSTANTS
    Listener = {alice, bob}
    Connection = {c1, c2, c3}
    NoConnection = NoConnection
    MaxNotes = 2
SYMMETRY Interchangeable
SPECIFICATION StreamSpec
CHECK_DEADLOCK FALSE
PROPERTY
    ClosedForAReason
