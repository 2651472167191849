SPECIFICATION FairSpec
CONSTANTS
    AppNames = {"worker", "api"}
    Nil = Nil
    NoMsg = NoMsg
    NoOptions = NoOptions
    Clients = {c1}
    Messages = {"debug", "notice"}
    Attr <- MixedAttr
    Queries <- SomeQueries
    Updates <- SomeUpdates
    SendCap = 1
    BroadcastCap = 1
    RegisterCap = 1
    UnregisterCap = 1
INVARIANTS
    FilterRespected
PROPERTIES
    DeliveredOrCut
    DisconnectCleansUp
CHECK_DEADLOCK FALSE
