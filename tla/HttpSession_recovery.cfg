CONSTANTS
    c1 = c1
    c2 = c2
    hc = hc
    NoTask = NoTask
    Caller <- OneCaller
    Health <- OneHealth
    Startup = {"connected"}
    Styles <- Awkward
    Faults = {"lost", "unauthorized", "no_token", "dropped"}
    MaxSessions = 7
    MaxCrashes = 1
    MaxFaults = 1

SPECIFICATION FairSpec
PROPERTIES
    JobsEnd
    SessionRecovers
