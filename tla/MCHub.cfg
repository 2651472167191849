SPECIFICATION Spec
CONSTANTS
    AppNames = {"worker"}
    Nil = Nil
    NoMsg = NoMsg
    NoOptions = NoOptions
    Clients = {c1, c2}
    Messages = {m1, m2}
    Attr <- PlainAttr
    Queries <- WatchAll
    Updates <- NoUpdates
    SendCap = 1
    BroadcastCap = 1
    RegisterCap = 1
    UnregisterCap = 1
SYMMETRY Symmetry
INVARIANTS
    TypeOK
    ClosedNotRegistered
    NoDuplicates
    DroppedMeansClosed
CHECK_DEADLOCK FALSE
