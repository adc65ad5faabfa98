CONSTANTS
    t1 = t1
    t2 = t2
    NoTask = NoTask
    Task <- Two
    Jobs = {"connect", "per_call"}
    Conduct = {"exit", "hang", "garble"}
    Room = 1
    MaxRequests = 5
    MaxChildren = 1
    MaxCancels = 0

SPECIFICATION FairSpec
CHECK_DEADLOCK FALSE
PROPERTIES
    JobsEnd
    ImplementsBackend
