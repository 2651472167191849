SPECIFICATION Spec
CONSTANTS
    Messages = {"a"}
    Logs = {"worker"}
    Hosts = {"h1"}
    LogOf <- SomeLogOf
    HostOf <- SomeHostOf
    RFC3164 = {}
    Stamp <- SomeStamp
    Unrepresentable = {}
    Refused = {}
    Readers = {}
    Params <- SomeParams
    NoLog = NoLog
    NoHost = NoHost
    NoDate = NoDate
    NoMsg = NoMsg
    NoOne = NoOne
    MaxPoints = 1
    ChunkSize = 1
    LogRetentionPeriod = 6
    Day = 1
    MaxDuration = 3
    StopSignals = {}
    MaxClock = 2
PROPERTIES
    RetentionRespected
CHECK_DEADLOCK FALSE
