\* One user, and clients without an address.
CONSTANTS
    alice = alice
    Person <- MCPerson
    Address = {}
    Key <- MCKey
    Slot = {s1}
    MaxRequests = 2
    Window = 2
    MaxTime = 3
SPECIFICATION ApiSpec
INVARIANTS
    ApiTypeOK
    WindowNeverExceeded
    AnswersAreHonest
    GuardsBeforeServices
    AnswersTellTheOutcome
