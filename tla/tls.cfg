CONSTANTS
    Tls13MaxDroppedCcs = 2
    EarlyRecordLen = 2
    DefaultTrialLen = 4
    MaxTls13Tickets = 2
    CacheCapacity = 3
    Scenarios <- MCScenarios
    MaxConns = 2
    MaxFaults = 1
SPECIFICATION Spec
INVARIANTS
    Agreement
    Authenticated
    DataProtected
    StreamIntact
    CompatibleEndsConnect
    NeverStuck
CHECK_DEADLOCK FALSE
