SPECIFICATION FairSpec
CONSTANTS
    Nil = Nil
    Configs <- SomeConfigs
    Requests = {r1, r2}
    Calls <- SomeCalls
    Tokens = {"root", "user"}
    NoToken = NoToken
    Roles <- SomeRoles
    MaxChunks = 2
INVARIANTS
    TypeOK
    LogsNeedAdmin
    NamesNeedToken
    ReadIsSent
    InvalidDateIs400
    NoTempLeft
    StartNeverPanics
PROPERTIES
    RequestsEnd
CHECK_DEADLOCK FALSE
