SPECIFICATION Spec
CONSTANTS
    AppNames = {"worker"}
    Nil = Nil
    NoMsg = NoMsg
    NoOptions = NoOptions
    Clients = {c1}
    Messages = {m1}
    Attr <- PlainAttr
    Queries <- WatchAll
    Updates <- NoUpdates
    SendCap = 1
    BroadcastCap = 1
    RegisterCap = 1
    UnregisterCap = 1
INVARIANTS
    UnregisteredIsGone
CHECK_DEADLOCK FALSE
