------------------------------ MODULE ApiServer ------------------------------
(***************************************************************************)
(* The API server: its start (apiserver/apiserver.go), the routes and      *)
(* their middleware (apiserver/routers/routers.go), authentication by      *)
(* Keystone (apiserver/auth) and the handlers of the three kinds of        *)
(* request (apiserver/controllers/controllers.go): a web socket, the list  *)
(* of the logs, and the download of a log, in chunks or through a          *)
(* temporary file.                                                         *)
(*                                                                         *)
(* Every request runs in a goroutine of net/http. Of a response the model  *)
(* keeps the status and how much of the log it carried; of the data store  *)
(* a reader that returns so many chunks and then EOF, and may fail at any  *)
(* call (InfluxDatastore has the rest). Severities and application names   *)
(* of web socket clients are in ClientFilter.                              *)
(***************************************************************************)
EXTENDS Config

CONSTANTS
    Configs,     \* the configurations of the API server
    Requests,    \* the requests
    Calls,       \* what a request may ask for
    Tokens,      \* Keystone tokens
    NoToken,     \* no token given
    Roles,       \* Roles[t]: the roles of the user of token t
    MaxChunks    \* bound on the chunks of a log

Call == [route : {"ws", "list", "download"},
         header : Tokens \cup {NoToken},              \* X-Auth-Token
         auth_type : {"", "keystone"},
         auth_token : Tokens \cup {NoToken},
         origin : {"", "same", "other"},              \* against the Host header
         start_date : {"", "date", "garbage"},
         end_date : {"", "date", "garbage"},
         disable_chunked : BOOLEAN]

ASSUME ApiServerAssumption ==
    /\ Configs \subseteq APIServerConfig
    /\ \A c \in Configs : {c.TLSConfig.CRT, c.TLSConfig.Key} \subseteq {"", "crt", "key"}
    /\ Calls \subseteq Call
    /\ Roles \in [Tokens -> SUBSET STRING]
    /\ NoToken \notin Tokens
    /\ MaxChunks \in Nat \ {0}

VARIABLES
    cfg,       \* the configuration of the API server
    files,     \* the state of the certificate and of the key
    srv,       \* where the start of the server is, or how it ended
    auth,      \* whether the routes use the authentication middleware
    valid,     \* the tokens Keystone accepts
    req,       \* the requests
    temps      \* the requests whose temporary file exists

serverVars == <<cfg, files, srv, auth>>
vars == <<serverVars, valid, req, temps>>

AuthDetails == [IsAdmin : BOOLEAN]

Request ==
    [pc : {"none", "auth", "handler", "streaming", "temp", "spool", "send",
           "first", "chunks", "done"},
     call : Call \cup {Nil},
     details : {Nil} \cup AuthDetails,          \* the context's auth_details
     status : {0, 101, 200, 400, 403, 500},     \* the status sent, 0 before that
     size : 0..MaxChunks,                       \* the chunks the reader returns before EOF
     read : 0..MaxChunks,                       \* the chunks read
     sent : 0..MaxChunks,                       \* the chunks written to the response
     names : BOOLEAN,                           \* whether it carried the list of logs
     cut : BOOLEAN,                             \* whether writing the response failed
     \* History, read by the properties only.
     vouched : Tokens \cup {NoToken},           \* the token Keystone accepted
     broken : BOOLEAN]                          \* a read failed after the first write

ServerStates == {"validate", "build", "start", "serving", "closing",
                 "refused", "panicked", "fatal"}

TypeOK ==
    /\ cfg \in Configs
    /\ files \in [{"crt", "key"} -> FileStates]
    /\ srv \in ServerStates
    /\ auth \in BOOLEAN
    /\ valid \subseteq Tokens
    /\ req \in [Requests -> Request]
    /\ temps \subseteq Requests

NewRequest == [pc |-> "none", call |-> Nil, details |-> Nil, status |-> 0,
               size |-> 0, read |-> 0, sent |-> 0, names |-> FALSE, cut |-> FALSE,
               vouched |-> NoToken, broken |-> FALSE]

Init ==
    /\ cfg \in Configs
    /\ files = [f \in {"crt", "key"} |-> "good"]
    /\ srv = "validate" /\ auth = FALSE
    /\ valid = Tokens
    /\ req = [r \in Requests |-> NewRequest]
    /\ temps = {}

-----------------------------------------------------------------------------
(* The start                                                               *)

\* Config.Validate, as far as it concerns the API server.
Validate ==
    /\ srv = "validate"
    /\ srv' = IF APIServerValidate(cfg, files) THEN "build" ELSE "refused"
    /\ UNCHANGED <<cfg, files, auth, valid, req, temps>>

\* What GetAuthMiddleware does: it installs the middleware, finds that there is
\* none to install, refuses the configuration or follows a nil pointer.
GetAuthMiddleware ==
    IF cfg.AuthMiddleware = "keystone"
      THEN IF cfg.KeystoneAuth = Nil THEN "panic"
           ELSE IF KeystoneAuthValidate(cfg.KeystoneAuth) THEN "middleware" ELSE "error"
    ELSE IF cfg.AuthMiddleware = "none" THEN "disabled"
    ELSE "error"

\* GetAPIServer: the handlers, the router, the certificate once more, and the
\* listener, which may fail.
GetAPIServer ==
    /\ srv = "build"
    /\ auth' = (GetAuthMiddleware = "middleware")
    /\ \/ GetAuthMiddleware = "panic" /\ srv' = "panicked"
       \/ GetAuthMiddleware # "panic" /\ srv' = "refused"
       \/ /\ GetAuthMiddleware \in {"middleware", "disabled"}
          /\ cfg.UseTLS => TLSConfigValidate(cfg.TLSConfig, files)
          /\ srv' = "start"
    /\ UNCHANGED <<cfg, files, valid, req, temps>>

\* The goroutine of Start. ServeTLS reads the certificate a third time.
Serve ==
    /\ srv = "start"
    /\ srv' = IF cfg.UseTLS => LoadX509KeyPair(cfg.TLSConfig.CRT, cfg.TLSConfig.Key, files)
              THEN "serving" ELSE "fatal"
    /\ UNCHANGED <<cfg, files, auth, valid, req, temps>>

\* Somebody replaces the certificate or the key. (Once the server serves it
\* does not read them again.)
FilesChange ==
    /\ cfg.UseTLS /\ srv \in {"validate", "build", "start"}
    /\ \E f \in {"crt", "key"}, s \in FileStates : files' = [files EXCEPT ![f] = s]
    /\ UNCHANGED <<cfg, srv, auth, valid, req, temps>>

\* Stop calls Shutdown: requests go on, no new one is accepted.
Shutdown ==
    /\ srv = "serving"
    /\ srv' = "closing"
    /\ UNCHANGED <<cfg, files, auth, valid, req, temps>>

\* Serve returns, with ErrServerClosed after Shutdown: log.Fatal.
Fatal ==
    /\ srv \in {"serving", "closing"}
    /\ srv' = "fatal"
    /\ UNCHANGED <<cfg, files, auth, valid, req, temps>>

-----------------------------------------------------------------------------
(* Responses. net/http sends the first status only, and 200 with the first *)
(* bytes or at the end of a handler that set none.                         *)

Up == srv \in {"serving", "closing"}
At(r, label) == Up /\ req[r].pc = label

WriteHeader(old, code) == IF old = 0 THEN code ELSE old

\* The handler writes this status and returns.
Return(r, code) ==
    req' = [req EXCEPT ![r].pc = "done", ![r].status = WriteHeader(@, code)]

-----------------------------------------------------------------------------
(* Routing and authentication                                              *)

Arrive(r, c) ==
    /\ srv = "serving" /\ req[r].pc = "none"
    /\ req' = [req EXCEPT ![r].pc = IF auth THEN "auth" ELSE "handler", ![r].call = c]
    /\ UNCHANGED <<serverVars, valid, temps>>

\* The token of a request: the header's, or the query's if it has none.
TokenOf(c) ==
    IF c.header # NoToken THEN c.header
    ELSE IF c.auth_type = "keystone" THEN c.auth_token
    ELSE NoToken

rolesAsMap == cfg.KeystoneAuth.AdminRoles

\* Whether one of the roles Keystone gives the user is an admin role.
IsAdmin(token) == Roles[token] \cap rolesAsMap # {}

\* Mutant: Keystone is asked until it accepts the token.
AuthenticateRetries(c) ==
    IF TokenOf(c) \in valid THEN {[IsAdmin |-> IsAdmin(TokenOf(c))]} ELSE {}

\* What Authenticate may return: the details, or Nil for an error, when there is
\* no token or Keystone does not accept it or cannot be asked.
Authenticate(c) ==
    {Nil} \cup IF TokenOf(c) \in valid THEN {[IsAdmin |-> IsAdmin(TokenOf(c))]} ELSE {}

\* Mutant: the handler runs although authentication failed.
ServeHTTPGoesOn(r) ==
    /\ At(r, "auth")
    /\ \E details \in Authenticate(req[r].call) :
         req' = [req EXCEPT ![r].pc = "handler", ![r].details = details,
                            ![r].vouched = IF details = Nil THEN NoToken
                                           ELSE TokenOf(req[r].call)]
    /\ UNCHANGED <<serverVars, valid, temps>>

\* The middleware of every route.
ServeHTTP(r) ==
    /\ At(r, "auth")
    /\ \E details \in Authenticate(req[r].call) :
         IF details = Nil THEN Return(r, 403)
         ELSE req' = [req EXCEPT ![r].pc = "handler", ![r].details = details,
                                 ![r].vouched = TokenOf(req[r].call)]
    /\ UNCHANGED <<serverVars, valid, temps>>

\* A token expires or is revoked.
TokenExpires(t) ==
    /\ t \in valid
    /\ valid' = valid \ {t}
    /\ UNCHANGED <<serverVars, req, temps>>

\* Mutant: without authentication everyone may see the logs.
canAccessNoDetails(r) == req[r].details = Nil \/ req[r].details.IsAdmin

\* Without authentication the context holds no details.
canAccess(r) == req[r].details # Nil /\ req[r].details.IsAdmin

Handles(r, route) == At(r, "handler") /\ req[r].call.route = route

\* WSHandler and DownloadLogHandler of a request that may not see logs.
Forbidden(r) ==
    /\ At(r, "handler") /\ req[r].call.route # "list" /\ ~canAccess(r)
    /\ Return(r, 403)
    /\ UNCHANGED <<serverVars, valid, temps>>

-----------------------------------------------------------------------------
(* WSHandler                                                               *)

\* The upgrader's CheckOrigin: getCORSChecker, or gorilla's own check.
CheckOrigin(origin) ==
    \/ origin = ""
    \/ cfg.CORSOrigins = {} /\ origin = "same"
    \/ cfg.CORSOrigins \cap {"*", origin} # {}

\* The connection is upgraded and the client registered with the hub. The
\* upgrader answers a refusal itself: the origin, or no handshake.
WSHandler(r) ==
    /\ Handles(r, "ws") /\ canAccess(r)
    /\ \/ /\ CheckOrigin(req[r].call.origin)
          /\ req' = [req EXCEPT ![r].pc = "streaming", ![r].status = 101]
       \/ ~CheckOrigin(req[r].call.origin) /\ Return(r, 403)
       \/ Return(r, 400)
    /\ UNCHANGED <<serverVars, valid, temps>>

StreamEnd(r) ==
    /\ At(r, "streaming")
    /\ req' = [req EXCEPT ![r].pc = "done"]
    /\ UNCHANGED <<serverVars, valid, temps>>

-----------------------------------------------------------------------------
(* ListLogsHandler                                                         *)

\* No administrator is needed. An error is answered with 500 and an empty list.
ListLogsHandler(r) ==
    /\ Handles(r, "list")
    /\ \/ req' = [req EXCEPT ![r].pc = "done", ![r].names = TRUE,
                             ![r].status = WriteHeader(@, 200)]
       \/ Return(r, 500)
    /\ UNCHANGED <<serverVars, valid, temps>>

-----------------------------------------------------------------------------
(* DownloadLogHandler                                                      *)

\* Mutant: the second date is not checked.
InvalidDatesFirst(c) == c.start_date = "garbage"

\* timestampToTime fails. Both dates are tried whatever the first one gives.
InvalidDates(c) == "garbage" \in {c.start_date, c.end_date}

\* An invalid date is answered with 400, and the handler goes on with a query
\* that has no limit in its place. (The router never matches an empty name.)
\* n is the number of chunks the reader will return.
DownloadLogHandler(r) ==
    /\ Handles(r, "download") /\ canAccess(r)
    /\ \E n \in 0..MaxChunks :
         req' = [req EXCEPT
                   ![r].pc = IF req[r].call.disable_chunked THEN "temp" ELSE "first",
                   ![r].size = n,
                   ![r].status = IF InvalidDates(req[r].call) THEN WriteHeader(@, 400)
                                 ELSE @]
    /\ UNCHANGED <<serverVars, valid, temps>>

AtEOF(r) == req[r].read = req[r].size

\* downloadAsFile: ioutil.TempFile
CreateTemp(r) ==
    /\ At(r, "temp")
    /\ \/ /\ req' = [req EXCEPT ![r].pc = "spool"]
          /\ temps' = temps \cup {r}
       \/ Return(r, 500) /\ UNCHANGED temps
    /\ UNCHANGED <<serverVars, valid>>

\* A chunk is read and appended to the file; or the log has ended.
Spool(r) ==
    /\ At(r, "spool")
    /\ req' = IF AtEOF(r) THEN [req EXCEPT ![r].pc = "send"]
                          ELSE [req EXCEPT ![r].read = @ + 1]
    /\ UNCHANGED <<serverVars, valid, temps>>

\* Mutant: any error of the reader is taken for the end of the log.
SpoolErrIsEOF(r) ==
    /\ At(r, "spool")
    /\ req' = [req EXCEPT ![r].pc = "send"]
    /\ UNCHANGED <<serverVars, valid, temps>>

\* Mutant: the file is removed at the end of the function only.
SpoolErrKeepsFile(r) ==
    /\ At(r, "spool")
    /\ Return(r, 500)
    /\ UNCHANGED <<serverVars, valid, temps>>

\* Reading a chunk, writing it to the file, Stat or Seek fails.
SpoolErr(r) ==
    /\ At(r, "spool")
    /\ Return(r, 500)
    /\ temps' = temps \ {r}
    /\ UNCHANGED <<serverVars, valid>>

\* io.Copy of the file, which may fail anywhere, and the deferred removal.
SendFile(r) ==
    /\ At(r, "send")
    /\ \E n \in 0..req[r].read :
         req' = [req EXCEPT ![r].pc = "done", ![r].sent = n, ![r].cut = n < req[r].read,
                            ![r].status = WriteHeader(@, 200)]
    /\ temps' = temps \ {r}
    /\ UNCHANGED <<serverVars, valid>>

\* downloadAsChuks: the first chunk, or nothing of an empty log, is written.
ChunkFirst(r) ==
    /\ At(r, "first")
    /\ LET n == IF AtEOF(r) THEN 0 ELSE 1 IN
         req' = [req EXCEPT ![r].pc = "chunks", ![r].read = n, ![r].sent = n,
                            ![r].status = WriteHeader(@, 200)]
    /\ UNCHANGED <<serverVars, valid, temps>>

\* The first read fails: the status can still tell.
ChunkFirstErr(r) ==
    /\ At(r, "first")
    /\ Return(r, 500)
    /\ UNCHANGED <<serverVars, valid, temps>>

\* Mutant: EOF is not told from a chunk.
ChunkNextPastEOF(r) ==
    /\ At(r, "chunks")
    /\ req' = [req EXCEPT ![r].read = @ + 1, ![r].sent = @ + 1]
    /\ UNCHANGED <<serverVars, valid, temps>>

\* The next chunk is written, or the log has ended.
ChunkNext(r) ==
    /\ At(r, "chunks")
    /\ req' = IF AtEOF(r) THEN [req EXCEPT ![r].pc = "done"]
                          ELSE [req EXCEPT ![r].read = @ + 1, ![r].sent = @ + 1]
    /\ UNCHANGED <<serverVars, valid, temps>>

\* A later read fails: the response ends like one that is complete.
ChunkNextErr(r) ==
    /\ At(r, "chunks")
    /\ req' = [req EXCEPT ![r].pc = "done", ![r].broken = TRUE]
    /\ UNCHANGED <<serverVars, valid, temps>>

\* A write fails: the client has gone.
ChunkCut(r) ==
    /\ At(r, "first") \/ At(r, "chunks")
    /\ ~AtEOF(r)
    /\ req' = [req EXCEPT ![r].pc = "done", ![r].read = @ + 1, ![r].cut = TRUE,
                          ![r].status = WriteHeader(@, 200)]
    /\ UNCHANGED <<serverVars, valid, temps>>

-----------------------------------------------------------------------------
StartStep == Validate \/ GetAPIServer \/ Serve

DownloadStep(r) ==
    \/ DownloadLogHandler(r)
    \/ CreateTemp(r) \/ Spool(r) \/ SpoolErr(r) \/ SendFile(r)
    \/ ChunkFirst(r) \/ ChunkFirstErr(r)
    \/ ChunkNext(r) \/ ChunkNextErr(r) \/ ChunkCut(r)

HandlerStep(r) ==
    ServeHTTP(r) \/ Forbidden(r) \/ WSHandler(r) \/ ListLogsHandler(r) \/ DownloadStep(r)

Next ==
    \/ StartStep \/ FilesChange \/ Shutdown \/ Fatal
    \/ \E t \in Tokens : TokenExpires(t)
    \/ \E r \in Requests :
         (\E c \in Calls : Arrive(r, c)) \/ HandlerStep(r) \/ StreamEnd(r)

Spec == Init /\ [][Next]_vars

(***************************************************************************)
(* Fairness. A goroutine that handles a request runs: Keystone, the data   *)
(* store and the client answer or fail. Requests, expiring tokens, clients *)
(* that hang up a web socket, and the end of the server are not fair.      *)
(***************************************************************************)
FairSpec == Spec /\ \A r \in Requests : WF_vars(HandlerStep(r))

-----------------------------------------------------------------------------
(* Properties                                                              *)

\* Lines of a log, by download or web socket, even in a response whose status
\* is an error, go only to a request that gave a token that Keystone accepted
\* and whose user has an admin role; to a web socket only if the origin is
\* allowed (keystone.go:44-78, controllers.go:43-51, 93-117 and 262-268).
LogsNeedAdmin ==
    \A r \in Requests :
        req[r].sent > 0 \/ req[r].status = 101 =>
            /\ req[r].vouched \in {req[r].call.header, req[r].call.auth_token} \cap Tokens
            /\ Roles[req[r].vouched] \cap cfg.KeystoneAuth.AdminRoles # {}
            /\ req[r].status = 101 /\ req[r].call.origin = "other"
                 => cfg.CORSOrigins \cap {"*", "other"} # {}

\* The names of the logs need no admin role, but a token that Keystone accepted,
\* unless the configuration says that there is no authentication: no other
\* configuration leads to routes without the middleware (config.go:123-136,
\* auth.go:67-82, routers.go:32-39).
NamesNeedToken ==
    \A r \in Requests :
        req[r].names => req[r].vouched \in Tokens \/ cfg.AuthMiddleware = "none"

\* A download that ended with status 200 and was not cut off carries everything
\* its reader returned up to EOF, unless it was sent in chunks and a ReadNext
\* returned an error after the first: through a file, the status tells every
\* error that ReadNext returns (controllers.go:183-223 and 227-258). Those it
\* takes for an end of the log are the data store's (influxdb.go:312, 335).
ReadIsSent ==
    \A r \in Requests :
        /\ req[r].pc = "done" /\ req[r].status = 200 /\ ~req[r].cut
        /\ req[r].call.route = "download"
        => \/ req[r].sent = req[r].size
           \/ req[r].broken /\ ~req[r].call.disable_chunked

\* A download with a date that is no date is never reported as a success or as
\* a failure of the server, although the handler goes on to serve it: 400 is
\* the first status it writes (controllers.go:282-294).
InvalidDateIs400 ==
    \A r \in Requests :
        /\ req[r].pc = "done" /\ req[r].call.route = "download"
        /\ "garbage" \in {req[r].call.start_date, req[r].call.end_date}
        => req[r].status \in {400, 403}

\* Temporary files do not pile up: while the server runs there is one only for
\* a download in progress, however it fails (controllers.go:171-222).
NoTempLeft ==
    Up => \A r \in temps : req[r].pc \in {"spool", "send"}

\* The start does not follow the nil pointer of a missing keystone section:
\* Validate was there first (config.go:126-128, auth.go:56-57).
StartNeverPanics == srv # "panicked"

\* Every request but an open web socket is answered, unless the process ends
\* before (controllers.go:112-327).
RequestsEnd ==
    \A r \in Requests :
        req[r].pc \notin {"none", "streaming"}
            ~> req[r].pc \in {"streaming", "done"} \/ srv = "fatal"

-----------------------------------------------------------------------------
(* What the configuration logs, and the code violates.                     *)

\* config.go:133 "authentication is disabled. Anyone can view your logs!": then no
\* download is forbidden. But without the middleware the context has no details,
\* and canAccess refuses everyone (controllers.go:44-47).
AnyoneCanView ==
    cfg.AuthMiddleware = "none" =>
        \A r \in Requests :
            req[r].pc = "done" /\ req[r].call.route = "download" => req[r].status # 403
=============================================================================
