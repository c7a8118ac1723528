\* Two pages, of one user or of two; one account to name.
CONSTANTS
    User = {alice, bob}
    Page = {p1, p2}
    Call = {c1, c2}
    Account = {carol}
    None = None
    MaxContacts = 2
SYMMETRY Interchangeable
SPECIFICATION Spec
INVARIANTS
    TypeOK
    ContactsAreDistinct
    QuietListIsCurrent
PROPERTY
    OnlyOwnersWrite
