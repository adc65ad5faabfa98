CONSTANTS
    MaxText = 6
    MaxChunk = 2
    Arg = {p, q}
    Namespace <- MCNamespace
    Tool <- MCTool
    MaxAttempts = 70
    Backends = 2
    Uri = {u}
    NoUri = NoUri
    Task = {t1, t2}
    MaxRequests = 3
    MaxChanges = 2

SPECIFICATION MCSpec
CHECK_DEADLOCK FALSE
INVARIANTS
    TypeOK
    AnswersAreFit
    NamesLeadToOwners
    DecodesExactly
    PolicyHolds
    BackoffGrows
PROPERTIES
    NotFoundIsTrue
