SPECIFICATION Spec
CONSTANTS
    Sources = {s1, s2}
    Messages = {"a", "b"}
    Parts <- SomeParts
    Requests = {}
    NoMsg = NoMsg
    Nil = Nil
    Configs <- OnlyTcp
    Files <- SomeFiles
    Second = 2
    MaxDuration = 7
    BroadcastCap = 1
    MaxRestarts = 0
INVARIANTS
    ShutdownIsGraceful
CHECK_DEADLOCK FALSE
