SPECIFICATION Spec
CONSTANTS
    Messages = {"a", "b", "e", "f"}
    Logs = {"worker"}
    Hosts = {"h1"}
    LogOf <- SomeLogOf
    HostOf <- SomeHostOf
    RFC3164 = {"b"}
    Stamp <- SomeStamp
    Unrepresentable = {"e"}
    Refused = {"f"}
    Readers = {r1}
    Params <- SomeParams
    NoLog = NoLog
    NoHost = NoHost
    NoDate = NoDate
    NoMsg = NoMsg
    NoOne = NoOne
    MaxPoints = 2
    ChunkSize = 1
    LogRetentionPeriod = 1
    Day = 1
    MaxDuration = 3
    StopSignals = {}
    MaxClock = 2
INVARIANTS
    TypeOK
    NewestKept
    DownloadComplete
PROPERTIES
    RetentionRespected
    ImplementsLogStore
CHECK_DEADLOCK FALSE
