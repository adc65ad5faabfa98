CONSTANTS
    b1 = b1
    b2 = b2
    t1 = t1
    m = m
    x = x
    y = y
    NoTask = NoTask
    NoBackend = NoBackend
    Task <- OneCaller
    Monitor = m
    Backend <- Both
    Name <- Names
    Jobs = {"call", "connect_all", "health", "refresh", "unregister"}
    Modes <- AllModes
    Space <- Spaces
    Offers <- Clashing
    MaxJobs = 2
    MaxFaults = 1

SPECIFICATION Spec
INVARIANTS
    TypeOK
    NoToolsWithoutBackend
    
