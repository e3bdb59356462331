CONSTANTS
    Plans <- MCPlans
    FragSizes = {1, 2, 4}
    HeaderSize = 2
    MaxHandshakeSize = 11
    MaxWireSize = 5
    ReadSize = 3
    SendLimit = 4
    ReceivedLimit = 2
    TrialLen = 3
SPECIFICATION Spec
INVARIANTS
    StreamIsPrefix
PROPERTIES
    EverythingArrives
CHECK_DEADLOCK FALSE
