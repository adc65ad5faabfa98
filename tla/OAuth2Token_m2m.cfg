CONSTANTS
    hub = hub
    auth = auth
    other = other
    h1 = h1
    h2 = h2
    a1 = a1
    NoTask = NoTask
    Manager <- HubOnly
    Daemon <- HubOnly
    Task <- HubTasks
    Owner <- MCOwner
    Hubs <- HubOnly
    Neighbour <- OtherBackend
    Grant = "client_credentials"
    Rotates = TRUE
    MayOmit = FALSE
    Dynamic = FALSE
    Faults = {}
    MaxIssue = 3
    MaxClients = 0
    MaxFaults = 0

SPECIFICATION Spec
INVARIANTS
    CallsSucceed
