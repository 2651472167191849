SPECIFICATION FairSpec
CONSTANTS
    Sources = {s1, s2}
    Messages = {"a", "b", "bad"}
    Parts <- SomeParts
    Requests = {r1}
    NoMsg = NoMsg
    Nil = Nil
    Configs <- SomeConfigs
    Files <- SomeFiles
    Second = 2
    MaxDuration = 7
    BroadcastCap = 1
    MaxRestarts = 1
INVARIANTS
    TypeOK
    RestartFindsAddressFree
    ExitLeavesNoSocket
    EveryWriterCalled
    OnlyHubPanicsWhileServing
PROPERTIES
    ShutdownCompletes
CHECK_DEADLOCK FALSE
