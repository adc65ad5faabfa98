CONSTANTS
    t1 = t1
    t2 = t2
    NoTask = NoTask
    Task <- Two
    Jobs = {"call", "reconnect"}
    Conduct = {"exit", "garble"}
    Room = 3
    MaxRequests = 4
    MaxChildren = 2
    MaxCancels = 1

SPECIFICATION Spec
SYMMETRY Symmetry
CHECK_DEADLOCK FALSE
INVARIANTS
    TypeOK
    AnswerIsFromItsChild
    OnlyACancelTearsALine
    NoStrayChild
    EndedReaderMeansDisconnected
