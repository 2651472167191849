SPECIFICATION Spec
CONSTANTS
    Nil = Nil
    Configs <- OnlyNoAuth
    Requests = {r1}
    Calls <- SomeCalls
    Tokens = {"root", "user"}
    NoToken = NoToken
    Roles <- SomeRoles
    MaxChunks = 1
INVARIANTS
    AnyoneCanView
CHECK_DEADLOCK FALSE
