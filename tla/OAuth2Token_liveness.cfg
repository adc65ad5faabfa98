CONSTANTS
    hub = hub
    auth = auth
    other = other
    h1 = h1
    h2 = h2
    a1 = a1
    NoTask = NoTask
    Manager <- HubAndAuth
    Daemon <- HubOnly
    Task <- OneEach
    Owner <- MCOwner
    Hubs <- HubOnly
    Neighbour <- OtherBackend
    Grant = "authorization_code"
    Rotates = TRUE
    MayOmit = TRUE
    Dynamic = TRUE
    Faults = {"unreachable", "lost", "crash", "dropped", "save", "overwrite", "denied"}
    MaxIssue = 3
    MaxClients = 2
    MaxFaults = 1

SPECIFICATION FairSpec
PROPERTIES
    GetTokenReturns
    StoredConsentReachesDaemon
