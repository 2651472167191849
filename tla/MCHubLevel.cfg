SPECIFICATION Spec
CONSTANTS
    AppNames = {"worker", "api"}
    Nil = Nil
    NoMsg = NoMsg
    NoOptions = NoOptions
    Clients = {c1}
    Messages = {"debug"}
    Attr <- MixedAttr
    Queries <- SomeQueries
    Updates <- SomeUpdates
    SendCap = 1
    BroadcastCap = 1
    RegisterCap = 1
    UnregisterCap = 1
INVARIANTS
    LevelChangeTakesEffect
CHECK_DEADLOCK FALSE
