\* Streams are pumped; the run stops when all have ended.
CONSTANTS
    Listener = {alice, bob}
    Connection = {c1, c2, c3}
    NoConnection = NoConnection
    MaxNotes = 2
SPECIFICATION FairStreamSpec
CHECK_DEADLOCK FALSE
INVARIANTS
    StreamTypeOK
    MapIsOpenStreams
PROPERTY
    AnnouncedIsRead
