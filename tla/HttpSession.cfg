CONSTANTS
    c1 = c1
    c2 = c2
    hc = hc
    NoTask = NoTask
    Caller <- TwoCallers
    Health <- NoHealth
    Startup = {"connected", "unreachable"}
    Styles <- Plain
    Faults = {"lost", "unauthorized", "no_token", "dropped"}
    MaxSessions = 7
    MaxCrashes = 1
    MaxFaults = 1

SPECIFICATION Spec
SYMMETRY Symmetry
INVARIANTS
    TypeOK
    OneRestartIsInvisible
    OneHandshakePerLoss
    NextCallReconnects
PROPERTIES
    ImplementsBackend
