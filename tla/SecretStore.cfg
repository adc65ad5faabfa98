CONSTANTS
    hub = hub
    auth = auth
    h1 = h1
    h2 = h2
    a1 = a1
    k1 = k1
    k2 = k2
    Nothing = Nothing
    NoTask = NoTask
    Torn = Torn
    Process <- Both
    Task <- AllTasks
    Owner <- MCOwner
    Key = {k1, k2}
    Secret = {s}
    MaxOps = 4
    MaxCrashes = 1

SPECIFICATION Spec
CHECK_DEADLOCK FALSE
INVARIANTS
    TypeOK
    NoTornFile
PROPERTIES
    OtherKeysStay
    ImplementsAtomicStore
