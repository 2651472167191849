SPECIFICATION FairSpec
CONSTANTS
    AppNames = {"worker"}
    Nil = Nil
    NoMsg = NoMsg
    NoOptions = NoOptions
    Clients = {c1, c2}
    Messages = {m1}
    Attr <- PlainAttr
    Queries <- WatchAll
    Updates <- NoUpdates
    SendCap = 1
    BroadcastCap = 1
    RegisterCap = 1
    UnregisterCap = 1
PROPERTIES
    ListenerSeesMessage
CHECK_DEADLOCK FALSE
