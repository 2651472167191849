----------------------------- MODULE MCApiServer -----------------------------
(***************************************************************************)
(* Instances of ApiServer for TLC.                                         *)
(***************************************************************************)
EXTENDS ApiServer

\* An administrator and another user.
SomeRoles == [t \in Tokens |-> IF t = "root" THEN {"admin", "member"} ELSE {"member"}]

Plain == [AuthMiddleware |-> "keystone",
          KeystoneAuth |-> [AuthURI |-> "uri", AdminRoles |-> {"admin"}],
          UseTLS |-> FALSE, TLSConfig |-> [CRT |-> "", Key |-> ""],
          Port |-> 9998, Bind |-> "ip", CORSOrigins |-> {}]
Tls == [Plain EXCEPT !.UseTLS = TRUE, !.TLSConfig = [CRT |-> "crt", Key |-> "key"],
                     !.CORSOrigins = {"*"}]
NoAuth == [Plain EXCEPT !.AuthMiddleware = "none", !.KeystoneAuth = Nil,
                        !.CORSOrigins = {"same"}]

\* Three that work, and the ones that do not.
SomeConfigs ==
    {Plain, Tls, NoAuth,
     [Plain EXCEPT !.KeystoneAuth = Nil],
     [Plain EXCEPT !.KeystoneAuth.AuthURI = ""],
     [Plain EXCEPT !.AuthMiddleware = ""],
     [Tls EXCEPT !.TLSConfig.Key = ""],
     [Plain EXCEPT !.Port = 65536],
     [Plain EXCEPT !.Bind = "name"]}
OnlyNoAuth == {NoAuth}

Ask == [route |-> "download", header |-> "root", auth_type |-> "", auth_token |-> NoToken,
        origin |-> "", start_date |-> "", end_date |-> "date", disable_chunked |-> FALSE]
SomeCalls ==
    {Ask,
     [Ask EXCEPT !.disable_chunked = TRUE],
     [Ask EXCEPT !.end_date = "garbage"],
     [Ask EXCEPT !.end_date = "garbage", !.disable_chunked = TRUE],
     [Ask EXCEPT !.header = "user"],
     [Ask EXCEPT !.header = NoToken, !.auth_token = "root"],
     [Ask EXCEPT !.route = "list", !.header = "user"],
     [Ask EXCEPT !.route = "list", !.header = NoToken],
     [Ask EXCEPT !.route = "ws", !.origin = "other"],
     [Ask EXCEPT !.route = "ws", !.origin = "same", !.header = NoToken,
                 !.auth_type = "keystone", !.auth_token = "root"]}
=============================================================================
