SPECIFICATION FairSpec
CONSTANTS
    Messages = {"a", "d"}
    Logs = {"worker", "api"}
    Hosts = {"h1"}
    LogOf <- SomeLogOf
    HostOf <- SomeHostOf
    RFC3164 = {}
    Stamp <- SomeStamp
    Unrepresentable = {}
    Refused = {}
    Readers = {}
    Params <- SomeParams
    NoLog = NoLog
    NoHost = NoHost
    NoDate = NoDate
    NoMsg = NoMsg
    NoOne = NoOne
    MaxPoints = 1
    ChunkSize = 1
    LogRetentionPeriod = 1
    Day = 1
    MaxDuration = 3
    StopSignals = {"ctx", "quit"}
    MaxClock = 2
INVARIANTS
    BufferBounded
PROPERTIES
    BufferedIsStored
    ExpiredIsDeleted
    WriteReturns
    StopEndsWorker
CHECK_DEADLOCK FALSE
