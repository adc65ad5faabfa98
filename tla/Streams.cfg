CONSTANTS
    MaxIds = 2
    NoStream = NoStream
    Capacity = 1
    MaxStreams = 2
    MaxChanges = 2

SPECIFICATION FairSpec
CHECK_DEADLOCK FALSE
INVARIANTS
    TypeOK
    StreamKeepsItsWord
PROPERTIES
    EveryChangeIsTold
    NothingLingers
