--------------------------- MODULE ApiServerProofs ---------------------------
(***************************************************************************)
(* Proofs about the API server, for any configurations, certificate files, *)
(* requests, tokens and roles, and any length of the logs.                 *)
(***************************************************************************)
EXTENDS ApiServer, TLAPS

-----------------------------------------------------------------------------
(* The inductive invariant                                                 *)

\* What Validate leaves of the authentication settings.
AuthSettingsValid ==
    \/ cfg.AuthMiddleware = "none"
    \/ cfg.AuthMiddleware = "keystone" /\ cfg.KeystoneAuth # Nil

\* The start: settings that were not validated go no further, the middleware is
\* there when the settings ask for it, and no request comes before the end.
ServerInv ==
    /\ srv # "panicked"
    /\ srv \notin {"validate", "refused"} => AuthSettingsValid
    /\ srv \in {"start", "serving", "closing", "fatal"}
         => (auth <=> cfg.AuthMiddleware = "keystone")
    /\ srv \in {"validate", "build", "start", "refused"}
         => \A r \in Requests : req[r].pc = "none"

Downloading == {"temp", "spool", "send", "first", "chunks"}

\* A handler that has not been reached has written nothing; the counters of a
\* download are in order.
ProgressOK(q) ==
    /\ q.sent <= q.read /\ q.read <= q.size
    /\ q.pc # "none" => q.call \in Call
    /\ q.pc \in {"none", "auth", "handler"} =>
         q.status = 0 /\ q.size = 0 /\ ~q.names

\* The details a request carries are those of the token it gave, and Keystone
\* vouched for it. Only with them, and an admin role, does a handler get as far
\* as a log, and only with an allowed origin is a connection upgraded.
AccessOK(q) ==
    /\ q.details # Nil =>
         /\ q.vouched \in Tokens /\ q.vouched = TokenOf(q.call) /\ q.pc # "none"
         /\ q.details.IsAdmin => IsAdmin(q.vouched)
    /\ q.pc \in Downloading \cup {"streaming"} \/ q.sent > 0 \/ q.status = 101 =>
         q.details # Nil /\ q.details.IsAdmin
    /\ q.status = 101 => CheckOrigin(q.call.origin)
    /\ q.pc = "handler" \/ q.names =>
         q.vouched \in Tokens \/ cfg.AuthMiddleware = "none"

\* What is known of a download at each of its steps, and of one that has ended.
DownloadOK(q) ==
    /\ q.pc \in Downloading =>
         /\ q.call.route = "download"
         /\ q.call.disable_chunked <=> q.pc \in {"temp", "spool", "send"}
         /\ q.status \in (IF q.pc = "chunks" THEN {200, 400} ELSE {0, 400})
         /\ InvalidDates(q.call) => q.status = 400
    /\ q.pc = "streaming" => q.call.route = "ws"
    /\ q.pc \in {"temp", "spool", "send", "first"} => q.sent = 0
    /\ q.pc \in {"temp", "first"} => q.read = 0
    /\ q.pc = "send" => q.read = q.size
    /\ q.pc = "chunks" => q.sent = q.read
    /\ q.pc = "done" /\ q.call.route = "download" =>
         /\ q.status = 200 /\ ~q.cut =>
              q.sent = q.size \/ (q.broken /\ ~q.call.disable_chunked)
         /\ InvalidDates(q.call) => q.status \in {400, 403}

RequestOK(q) == ProgressOK(q) /\ AccessOK(q) /\ DownloadOK(q)

RequestsInv == \A r \in Requests : RequestOK(req[r])

\* A temporary file is that of a download that has it open.
TempsInv == \A r \in temps : req[r].pc \in {"spool", "send"}

\* The inductive invariant of the API server.
ApiInv == TypeOK /\ ServerInv /\ RequestsInv /\ TempsInv

-----------------------------------------------------------------------------
(* Requests as records                                                     *)

\* The facts about the constants that the proofs use.
LEMMA ConstantFacts ==
    Calls \subseteq Call /\ NoToken \notin Tokens /\ MaxChunks \in Nat
<1>1. MaxChunks \in Nat \ {0} /\ NoToken \notin Tokens /\ Calls \subseteq Call
  BY ApiServerAssumption, Zenon DEF ApiServerAssumption
<1>2. QED
  BY <1>1

\* The types of the fields.
LEMMA FieldTypes ==
    ASSUME NEW q \in Request
    PROVE  /\ q.status \in {0, 101, 200, 400, 403, 500}
           /\ q.size \in 0..MaxChunks /\ q.read \in 0..MaxChunks /\ q.sent \in 0..MaxChunks
           /\ q.size \in Nat /\ q.read \in Nat /\ q.sent \in Nat
           /\ q.names \in BOOLEAN /\ q.cut \in BOOLEAN /\ q.broken \in BOOLEAN
<1>1. /\ q.status \in {0, 101, 200, 400, 403, 500}
      /\ q.size \in 0..MaxChunks /\ q.read \in 0..MaxChunks /\ q.sent \in 0..MaxChunks
      /\ q.names \in BOOLEAN /\ q.cut \in BOOLEAN /\ q.broken \in BOOLEAN
  BY DEF Request
<1>2. QED
  BY <1>1, ConstantFacts

\* A request that may occur.
Good(q) == q \in Request /\ RequestOK(q)

FieldNames == {"pc", "call", "details", "status", "size", "read", "sent", "names",
               "cut", "vouched", "broken"}

\* The request n is q with another value of the field f.
Sets(q, n, f, x) ==
    n \in Request /\ n[f] = x /\ \A g \in FieldNames \ {f} : n[g] = q[g]

-----------------------------------------------------------------------------
(* What each step makes of a request                                       *)

\* The request q after a handler that writes this status and returns.
Returned(q, code) ==
    [q EXCEPT !.pc = "done", !.status = WriteHeader(q.status, code)]

\* A handler returns an error: the status of a download with an invalid date stays
\* 400, and no other one ends with 200.
LEMMA ReturnOK ==
    ASSUME NEW old, Good(old), NEW code \in {400, 403, 500},
           old.pc \in {"auth", "handler", "temp", "spool", "first"},
           old.pc \in {"auth", "handler"} /\ old.call.route = "download" => code = 403
    PROVE  Good(Returned(old, code))
<1> DEFINE status == WriteHeader(old.status, code)
           q1 == [old EXCEPT !.pc = "done"]
           q2 == [q1 EXCEPT !.status = status]
<1>1. /\ status \in {0, 101, 200, 400, 403, 500}
  BY FieldTypes, ConstantFacts DEF Good, WriteHeader
<1> HIDE DEF status
<1>2. Sets(old, q1, "pc", "done")
  BY <1>1 DEF Sets, FieldNames, Request, Good
<1> HIDE DEF q1
<1>3. Sets(q1, q2, "status", status)
  BY <1>1, <1>2 DEF Sets, FieldNames, Request
<1> HIDE DEF q2
<1>4. ProgressOK(q2)
  BY <1>1, <1>2, <1>3, FieldTypes
     DEF Sets, FieldNames, Good, RequestOK, ProgressOK
<1>5. AccessOK(q2)
  BY <1>1, <1>2, <1>3, FieldTypes
     DEF Sets, FieldNames, Good, RequestOK, AccessOK, ProgressOK, Downloading,
         WriteHeader, status
<1>6. DownloadOK(q2)
  BY <1>1, <1>2, <1>3, FieldTypes
     DEF Sets, FieldNames, Good, RequestOK, DownloadOK, ProgressOK, Downloading,
         WriteHeader, status
<1>7. QED
  BY <1>3, <1>4, <1>5, <1>6
     DEF Sets, Good, RequestOK, q1, q2, status, Returned

\* A request meets the middleware, or there is none because the settings say so.
LEMMA ArriveOK ==
    ASSUME NEW old, Good(old), old.pc = "none", NEW c \in Call,
           auth <=> cfg.AuthMiddleware = "keystone", AuthSettingsValid,
           NEW new, new = [old EXCEPT !.pc = IF auth THEN "auth" ELSE "handler",
                                      !.call = c]
    PROVE  Good(new)
<1> DEFINE pc == IF auth THEN "auth" ELSE "handler"
           q1 == [old EXCEPT !.pc = pc]
           q2 == [q1 EXCEPT !.call = c]
<1>1. /\ pc = "auth" \/ (pc = "handler" /\ cfg.AuthMiddleware = "none")
  BY FieldTypes, ConstantFacts DEF Good, AuthSettingsValid
<1> HIDE DEF pc
<1>2. Sets(old, q1, "pc", pc)
  BY <1>1 DEF Sets, FieldNames, Request, Good
<1> HIDE DEF q1
<1>3. Sets(q1, q2, "call", c)
  BY <1>1, <1>2 DEF Sets, FieldNames, Request
<1> HIDE DEF q2
<1>4. ProgressOK(q2)
  BY <1>1, <1>2, <1>3, FieldTypes
     DEF Sets, FieldNames, Good, RequestOK, ProgressOK
<1>5. AccessOK(q2)
  BY <1>1, <1>2, <1>3, FieldTypes
     DEF Sets, FieldNames, Good, RequestOK, AccessOK, ProgressOK, Downloading
<1>6. DownloadOK(q2)
  BY <1>1, <1>2, <1>3, FieldTypes
     DEF Sets, FieldNames, Good, RequestOK, DownloadOK, ProgressOK, Downloading
<1>7. QED
  BY <1>3, <1>4, <1>5, <1>6
     DEF Sets, Good, RequestOK, q1, q2, pc

\* The middleware lets a request pass with the details of its token.
LEMMA VouchedOK ==
    ASSUME NEW old, Good(old), old.pc = "auth", NEW details \in AuthDetails,
           details # Nil, TokenOf(old.call) \in Tokens,
           details.IsAdmin => IsAdmin(TokenOf(old.call)),
           NEW new, new = [old EXCEPT !.pc = "handler", !.details = details,
                                      !.vouched = TokenOf(old.call)]
    PROVE  Good(new)
<1> DEFINE token == TokenOf(old.call)
           q1 == [old EXCEPT !.pc = "handler"]
           q2 == [q1 EXCEPT !.details = details]
           q3 == [q2 EXCEPT !.vouched = token]
<1>1. /\ token \in Tokens /\ (details.IsAdmin => IsAdmin(token))
      /\ token = TokenOf(old.call)
  BY FieldTypes, ConstantFacts DEF Good
<1> HIDE DEF token
<1>2. Sets(old, q1, "pc", "handler")
  BY <1>1 DEF Sets, FieldNames, Request, Good
<1> HIDE DEF q1
<1>3. Sets(q1, q2, "details", details)
  BY <1>1, <1>2 DEF Sets, FieldNames, Request
<1> HIDE DEF q2
<1>4. Sets(q2, q3, "vouched", token)
  BY <1>1, <1>3 DEF Sets, FieldNames, Request
<1> HIDE DEF q3
<1>5. ProgressOK(q3)
  BY <1>1, <1>2, <1>3, <1>4, FieldTypes
     DEF Sets, FieldNames, Good, RequestOK, ProgressOK
<1>6. AccessOK(q3)
  BY <1>1, <1>2, <1>3, <1>4, FieldTypes
     DEF Sets, FieldNames, Good, RequestOK, AccessOK, ProgressOK, Downloading
<1>7. DownloadOK(q3)
  BY <1>1, <1>2, <1>3, <1>4, FieldTypes
     DEF Sets, FieldNames, Good, RequestOK, DownloadOK, ProgressOK, Downloading
<1>8. QED
  BY <1>4, <1>5, <1>6, <1>7
     DEF Sets, Good, RequestOK, q1, q2, q3, token

\* A connection is upgraded for an administrator from an allowed origin.
LEMMA UpgradeOK ==
    ASSUME NEW old, Good(old), old.pc = "handler", old.call.route = "ws",
           old.details # Nil, old.details.IsAdmin, CheckOrigin(old.call.origin),
           NEW new, new = [old EXCEPT !.pc = "streaming", !.status = 101]
    PROVE  Good(new)
<1> DEFINE q1 == [old EXCEPT !.pc = "streaming"]
           q2 == [q1 EXCEPT !.status = 101]
<1>1. Sets(old, q1, "pc", "streaming")
  BY DEF Sets, FieldNames, Request, Good
<1> HIDE DEF q1
<1>2. Sets(q1, q2, "status", 101)
  BY <1>1 DEF Sets, FieldNames, Request
<1> HIDE DEF q2
<1>3. ProgressOK(q2)
  BY <1>1, <1>2, FieldTypes
     DEF Sets, FieldNames, Good, RequestOK, ProgressOK
<1>4. AccessOK(q2)
  BY <1>1, <1>2, FieldTypes
     DEF Sets, FieldNames, Good, RequestOK, AccessOK, ProgressOK, Downloading
<1>5. DownloadOK(q2)
  BY <1>1, <1>2, FieldTypes
     DEF Sets, FieldNames, Good, RequestOK, DownloadOK, ProgressOK, Downloading
<1>6. QED
  BY <1>2, <1>3, <1>4, <1>5
     DEF Sets, Good, RequestOK, q1, q2

\* A web socket ends.
LEMMA StreamEndOK ==
    ASSUME NEW old, Good(old), old.pc = "streaming",
           NEW new, new = [old EXCEPT !.pc = "done"]
    PROVE  Good(new)
<1> DEFINE q1 == [old EXCEPT !.pc = "done"]
<1>1. Sets(old, q1, "pc", "done")
  BY DEF Sets, FieldNames, Request, Good
<1> HIDE DEF q1
<1>2. ProgressOK(q1)
  BY <1>1, FieldTypes
     DEF Sets, FieldNames, Good, RequestOK, ProgressOK
<1>3. AccessOK(q1)
  BY <1>1, FieldTypes
     DEF Sets, FieldNames, Good, RequestOK, AccessOK, ProgressOK, Downloading
<1>4. DownloadOK(q1)
  BY <1>1, FieldTypes
     DEF Sets, FieldNames, Good, RequestOK, DownloadOK, ProgressOK, Downloading
<1>5. QED
  BY <1>1, <1>2, <1>3, <1>4
     DEF Sets, Good, RequestOK, q1

\* The names of the logs are sent to a request that passed the middleware, if
\* there is one.
LEMMA ListOK ==
    ASSUME NEW old, Good(old), old.pc = "handler", old.call.route = "list",
           NEW new, new = [old EXCEPT !.pc = "done", !.names = TRUE,
                                      !.status = WriteHeader(old.status, 200)]
    PROVE  Good(new)
<1> DEFINE names == TRUE
           status == WriteHeader(old.status, 200)
           q1 == [old EXCEPT !.pc = "done"]
           q2 == [q1 EXCEPT !.names = names]
           q3 == [q2 EXCEPT !.status = status]
<1>1. /\ names \in BOOLEAN /\ status \in {0, 101, 200, 400, 403, 500}
  BY FieldTypes, ConstantFacts DEF Good, WriteHeader
<1> HIDE DEF names, status
<1>2. Sets(old, q1, "pc", "done")
  BY <1>1 DEF Sets, FieldNames, Request, Good
<1> HIDE DEF q1
<1>3. Sets(q1, q2, "names", names)
  BY <1>1, <1>2 DEF Sets, FieldNames, Request
<1> HIDE DEF q2
<1>4. Sets(q2, q3, "status", status)
  BY <1>1, <1>3 DEF Sets, FieldNames, Request
<1> HIDE DEF q3
<1>5. ProgressOK(q3)
  BY <1>1, <1>2, <1>3, <1>4, FieldTypes
     DEF Sets, FieldNames, Good, RequestOK, ProgressOK, names
<1>6. AccessOK(q3)
  BY <1>1, <1>2, <1>3, <1>4, FieldTypes
     DEF Sets, FieldNames, Good, RequestOK, AccessOK, ProgressOK, Downloading,
         WriteHeader, status, names
<1>7. DownloadOK(q3)
  BY <1>1, <1>2, <1>3, <1>4, FieldTypes
     DEF Sets, FieldNames, Good, RequestOK, DownloadOK, ProgressOK, Downloading,
         WriteHeader, status
<1>8. QED
  BY <1>4, <1>5, <1>6, <1>7
     DEF Sets, Good, RequestOK, q1, q2, q3, names, status

\* The request q when its download of n chunks begins.
Started(q, pc, n, code) == [q EXCEPT !.pc = pc, !.size = n, !.status = code]

\* A download through a file begins for an administrator, with the status of an
\* invalid date.
LEMMA StartFileOK ==
    ASSUME NEW old, Good(old), old.pc = "handler", old.call.route = "download",
           old.call.disable_chunked, old.details # Nil, old.details.IsAdmin,
           NEW n \in 0..MaxChunks, NEW code \in {0, 400},
           InvalidDates(old.call) => code = 400
    PROVE  Good(Started(old, "temp", n, code))
<1> DEFINE q1 == [old EXCEPT !.pc = "temp"]
           q2 == [q1 EXCEPT !.size = n]
           q3 == [q2 EXCEPT !.status = code]
<1>1. /\ n \in Nat
  BY FieldTypes, ConstantFacts DEF Good
<1>2. Sets(old, q1, "pc", "temp")
  BY <1>1 DEF Sets, FieldNames, Request, Good
<1> HIDE DEF q1
<1>3. Sets(q1, q2, "size", n)
  BY <1>1, <1>2 DEF Sets, FieldNames, Request
<1> HIDE DEF q2
<1>4. Sets(q2, q3, "status", code)
  BY <1>1, <1>3 DEF Sets, FieldNames, Request
<1> HIDE DEF q3
<1>5. ProgressOK(q3)
  BY <1>1, <1>2, <1>3, <1>4, FieldTypes
     DEF Sets, FieldNames, Good, RequestOK, ProgressOK
<1>6. AccessOK(q3)
  BY <1>1, <1>2, <1>3, <1>4, FieldTypes
     DEF Sets, FieldNames, Good, RequestOK, AccessOK, ProgressOK, Downloading
<1>7. DownloadOK(q3)
  BY <1>1, <1>2, <1>3, <1>4, FieldTypes
     DEF Sets, FieldNames, Good, RequestOK, DownloadOK, ProgressOK, Downloading
<1>8. QED
  BY <1>4, <1>5, <1>6, <1>7
     DEF Sets, Good, RequestOK, q1, q2, q3, Started

\* A download in chunks begins.
LEMMA StartChunksOK ==
    ASSUME NEW old, Good(old), old.pc = "handler", old.call.route = "download",
           ~old.call.disable_chunked, old.details # Nil, old.details.IsAdmin,
           NEW n \in 0..MaxChunks, NEW code \in {0, 400},
           InvalidDates(old.call) => code = 400
    PROVE  Good(Started(old, "first", n, code))
<1> DEFINE q1 == [old EXCEPT !.pc = "first"]
           q2 == [q1 EXCEPT !.size = n]
           q3 == [q2 EXCEPT !.status = code]
<1>1. /\ n \in Nat
  BY FieldTypes, ConstantFacts DEF Good
<1>2. Sets(old, q1, "pc", "first")
  BY <1>1 DEF Sets, FieldNames, Request, Good
<1> HIDE DEF q1
<1>3. Sets(q1, q2, "size", n)
  BY <1>1, <1>2 DEF Sets, FieldNames, Request
<1> HIDE DEF q2
<1>4. Sets(q2, q3, "status", code)
  BY <1>1, <1>3 DEF Sets, FieldNames, Request
<1> HIDE DEF q3
<1>5. ProgressOK(q3)
  BY <1>1, <1>2, <1>3, <1>4, FieldTypes
     DEF Sets, FieldNames, Good, RequestOK, ProgressOK
<1>6. AccessOK(q3)
  BY <1>1, <1>2, <1>3, <1>4, FieldTypes
     DEF Sets, FieldNames, Good, RequestOK, AccessOK, ProgressOK, Downloading
<1>7. DownloadOK(q3)
  BY <1>1, <1>2, <1>3, <1>4, FieldTypes
     DEF Sets, FieldNames, Good, RequestOK, DownloadOK, ProgressOK, Downloading
<1>8. QED
  BY <1>4, <1>5, <1>6, <1>7
     DEF Sets, Good, RequestOK, q1, q2, q3, Started

\* The temporary file was created.
LEMMA TempOK ==
    ASSUME NEW old, Good(old), old.pc = "temp",
           NEW new, new = [old EXCEPT !.pc = "spool"]
    PROVE  Good(new)
<1> DEFINE q1 == [old EXCEPT !.pc = "spool"]
<1>1. Sets(old, q1, "pc", "spool")
  BY DEF Sets, FieldNames, Request, Good
<1> HIDE DEF q1
<1>2. ProgressOK(q1)
  BY <1>1, FieldTypes
     DEF Sets, FieldNames, Good, RequestOK, ProgressOK
<1>3. AccessOK(q1)
  BY <1>1, FieldTypes
     DEF Sets, FieldNames, Good, RequestOK, AccessOK, ProgressOK, Downloading
<1>4. DownloadOK(q1)
  BY <1>1, FieldTypes
     DEF Sets, FieldNames, Good, RequestOK, DownloadOK, ProgressOK, Downloading
<1>5. QED
  BY <1>1, <1>2, <1>3, <1>4
     DEF Sets, Good, RequestOK, q1

\* A chunk is appended to the file.
LEMMA SpoolOK ==
    ASSUME NEW old, Good(old), old.pc = "spool", old.read # old.size,
           NEW new, new = [old EXCEPT !.read = old.read + 1]
    PROVE  Good(new)
<1> DEFINE read == old.read + 1
           q1 == [old EXCEPT !.read = read]
<1>1. /\ read \in 0..MaxChunks /\ read \in Nat /\ old.read <= read /\ read <= old.size
  BY FieldTypes, ConstantFacts DEF Good, RequestOK, ProgressOK
<1> HIDE DEF read
<1>2. Sets(old, q1, "read", read)
  BY <1>1 DEF Sets, FieldNames, Request, Good
<1> HIDE DEF q1
<1>3. ProgressOK(q1)
  BY <1>1, <1>2, FieldTypes
     DEF Sets, FieldNames, Good, RequestOK, ProgressOK
<1>4. AccessOK(q1)
  BY <1>1, <1>2, FieldTypes
     DEF Sets, FieldNames, Good, RequestOK, AccessOK, ProgressOK, Downloading
<1>5. DownloadOK(q1)
  BY <1>1, <1>2, FieldTypes
     DEF Sets, FieldNames, Good, RequestOK, DownloadOK, ProgressOK, Downloading
<1>6. QED
  BY <1>2, <1>3, <1>4, <1>5
     DEF Sets, Good, RequestOK, q1, read

\* All that the reader returned is in the file.
LEMMA SpooledOK ==
    ASSUME NEW old, Good(old), old.pc = "spool", old.read = old.size,
           NEW new, new = [old EXCEPT !.pc = "send"]
    PROVE  Good(new)
<1> DEFINE q1 == [old EXCEPT !.pc = "send"]
<1>1. Sets(old, q1, "pc", "send")
  BY DEF Sets, FieldNames, Request, Good
<1> HIDE DEF q1
<1>2. ProgressOK(q1)
  BY <1>1, FieldTypes
     DEF Sets, FieldNames, Good, RequestOK, ProgressOK
<1>3. AccessOK(q1)
  BY <1>1, FieldTypes
     DEF Sets, FieldNames, Good, RequestOK, AccessOK, ProgressOK, Downloading
<1>4. DownloadOK(q1)
  BY <1>1, FieldTypes
     DEF Sets, FieldNames, Good, RequestOK, DownloadOK, ProgressOK, Downloading
<1>5. QED
  BY <1>1, <1>2, <1>3, <1>4
     DEF Sets, Good, RequestOK, q1

\* The request q after n chunks of its file were copied to the response.
FileSent(q, n) ==
    [q EXCEPT !.pc = "done", !.sent = n, !.cut = n < q.read,
              !.status = WriteHeader(q.status, 200)]

\* The file is sent, up to where the client went away.
LEMMA SendOK ==
    ASSUME NEW old, Good(old), old.pc = "send", NEW n \in 0..old.read
    PROVE  Good(FileSent(old, n))
<1> DEFINE cut == n < old.read
           status == WriteHeader(old.status, 200)
           q1 == [old EXCEPT !.pc = "done"]
           q2 == [q1 EXCEPT !.sent = n]
           q3 == [q2 EXCEPT !.cut = cut]
           q4 == [q3 EXCEPT !.status = status]
<1>1. /\ n \in 0..MaxChunks /\ cut \in BOOLEAN /\ n <= old.read
      /\ status \in {0, 101, 200, 400, 403, 500}
  BY FieldTypes, ConstantFacts DEF Good, WriteHeader
<1> HIDE DEF cut, status
<1>2. Sets(old, q1, "pc", "done")
  BY <1>1 DEF Sets, FieldNames, Request, Good
<1> HIDE DEF q1
<1>3. Sets(q1, q2, "sent", n)
  BY <1>1, <1>2 DEF Sets, FieldNames, Request
<1> HIDE DEF q2
<1>4. Sets(q2, q3, "cut", cut)
  BY <1>1, <1>3 DEF Sets, FieldNames, Request
<1> HIDE DEF q3
<1>5. Sets(q3, q4, "status", status)
  BY <1>1, <1>4 DEF Sets, FieldNames, Request
<1> HIDE DEF q4
<1>6. ProgressOK(q4)
  BY <1>1, <1>2, <1>3, <1>4, <1>5, FieldTypes
     DEF Sets, FieldNames, Good, RequestOK, ProgressOK
<1>7. AccessOK(q4)
  BY <1>1, <1>2, <1>3, <1>4, <1>5, FieldTypes
     DEF Sets, FieldNames, Good, RequestOK, AccessOK, ProgressOK, Downloading,
         WriteHeader, status
<1>8. DownloadOK(q4)
  BY <1>1, <1>2, <1>3, <1>4, <1>5, FieldTypes
     DEF Sets, FieldNames, Good, RequestOK, DownloadOK, ProgressOK, Downloading,
         WriteHeader, status, cut
<1>9. QED
  BY <1>5, <1>6, <1>7, <1>8
     DEF Sets, Good, RequestOK, q1, q2, q3, q4, cut, status, FileSent

\* The request q after its first n chunks were sent.
FirstSent(q, n) ==
    [q EXCEPT !.pc = "chunks", !.read = n, !.sent = n,
              !.status = WriteHeader(q.status, 200)]

\* The first chunk is written, or the status of an empty log.
LEMMA FirstOK ==
    ASSUME NEW old, Good(old), old.pc = "first", NEW n,
           n = IF old.read = old.size THEN 0 ELSE 1
    PROVE  Good(FirstSent(old, n))
<1> DEFINE status == WriteHeader(old.status, 200)
           q1 == [old EXCEPT !.pc = "chunks"]
           q2 == [q1 EXCEPT !.read = n]
           q3 == [q2 EXCEPT !.sent = n]
           q4 == [q3 EXCEPT !.status = status]
<1>1. /\ n \in 0..MaxChunks /\ n \in Nat /\ n <= old.size
      /\ status \in {0, 101, 200, 400, 403, 500}
  BY FieldTypes, ConstantFacts DEF Good, WriteHeader, RequestOK, ProgressOK, DownloadOK
<1> HIDE DEF status
<1>2. Sets(old, q1, "pc", "chunks")
  BY <1>1 DEF Sets, FieldNames, Request, Good
<1> HIDE DEF q1
<1>3. Sets(q1, q2, "read", n)
  BY <1>1, <1>2 DEF Sets, FieldNames, Request
<1> HIDE DEF q2
<1>4. Sets(q2, q3, "sent", n)
  BY <1>1, <1>3 DEF Sets, FieldNames, Request
<1> HIDE DEF q3
<1>5. Sets(q3, q4, "status", status)
  BY <1>1, <1>4 DEF Sets, FieldNames, Request
<1> HIDE DEF q4
<1>6. ProgressOK(q4)
  BY <1>1, <1>2, <1>3, <1>4, <1>5, FieldTypes
     DEF Sets, FieldNames, Good, RequestOK, ProgressOK
<1>7. AccessOK(q4)
  BY <1>1, <1>2, <1>3, <1>4, <1>5, FieldTypes
     DEF Sets, FieldNames, Good, RequestOK, AccessOK, ProgressOK, Downloading,
         WriteHeader, status, DownloadOK
<1>8. DownloadOK(q4)
  BY <1>1, <1>2, <1>3, <1>4, <1>5, FieldTypes
     DEF Sets, FieldNames, Good, RequestOK, DownloadOK, ProgressOK, Downloading,
         WriteHeader, status
<1>9. QED
  BY <1>5, <1>6, <1>7, <1>8
     DEF Sets, Good, RequestOK, q1, q2, q3, q4, status, FirstSent

\* The next chunk is written.
LEMMA ChunkOK ==
    ASSUME NEW old, Good(old), old.pc = "chunks", old.read # old.size,
           NEW new, new = [old EXCEPT !.read = old.read + 1, !.sent = old.sent + 1]
    PROVE  Good(new)
<1> DEFINE read == old.read + 1
           sent == old.sent + 1
           q1 == [old EXCEPT !.read = read]
           q2 == [q1 EXCEPT !.sent = sent]
<1>1. /\ read \in 0..MaxChunks /\ sent \in 0..MaxChunks
      /\ read \in Nat /\ sent = read /\ read <= old.size
  BY FieldTypes, ConstantFacts DEF Good, RequestOK, ProgressOK, DownloadOK, Downloading
<1> HIDE DEF read, sent
<1>2. Sets(old, q1, "read", read)
  BY <1>1 DEF Sets, FieldNames, Request, Good
<1> HIDE DEF q1
<1>3. Sets(q1, q2, "sent", sent)
  BY <1>1, <1>2 DEF Sets, FieldNames, Request
<1> HIDE DEF q2
<1>4. ProgressOK(q2)
  BY <1>1, <1>2, <1>3, FieldTypes
     DEF Sets, FieldNames, Good, RequestOK, ProgressOK
<1>5. AccessOK(q2)
  BY <1>1, <1>2, <1>3, FieldTypes
     DEF Sets, FieldNames, Good, RequestOK, AccessOK, ProgressOK, Downloading
<1>6. DownloadOK(q2)
  BY <1>1, <1>2, <1>3, FieldTypes
     DEF Sets, FieldNames, Good, RequestOK, DownloadOK, ProgressOK, Downloading
<1>7. QED
  BY <1>3, <1>4, <1>5, <1>6
     DEF Sets, Good, RequestOK, q1, q2, read, sent

\* A download in chunks has reached the end of the log.
LEMMA ChunksEndOK ==
    ASSUME NEW old, Good(old), old.pc = "chunks", old.read = old.size,
           NEW new, new = [old EXCEPT !.pc = "done"]
    PROVE  Good(new)
<1> DEFINE q1 == [old EXCEPT !.pc = "done"]
<1>1. Sets(old, q1, "pc", "done")
  BY DEF Sets, FieldNames, Request, Good
<1> HIDE DEF q1
<1>2. ProgressOK(q1)
  BY <1>1, FieldTypes
     DEF Sets, FieldNames, Good, RequestOK, ProgressOK
<1>3. AccessOK(q1)
  BY <1>1, FieldTypes
     DEF Sets, FieldNames, Good, RequestOK, AccessOK, ProgressOK, Downloading
<1>4. DownloadOK(q1)
  BY <1>1, FieldTypes
     DEF Sets, FieldNames, Good, RequestOK, DownloadOK, ProgressOK, Downloading
<1>5. QED
  BY <1>1, <1>2, <1>3, <1>4
     DEF Sets, Good, RequestOK, q1

\* A read fails after the first chunk.
LEMMA BrokenOK ==
    ASSUME NEW old, Good(old), old.pc = "chunks",
           NEW new, new = [old EXCEPT !.pc = "done", !.broken = TRUE]
    PROVE  Good(new)
<1> DEFINE broken == TRUE
           q1 == [old EXCEPT !.pc = "done"]
           q2 == [q1 EXCEPT !.broken = broken]
<1>1. /\ broken \in BOOLEAN
  BY FieldTypes, ConstantFacts DEF Good
<1> HIDE DEF broken
<1>2. Sets(old, q1, "pc", "done")
  BY <1>1 DEF Sets, FieldNames, Request, Good
<1> HIDE DEF q1
<1>3. Sets(q1, q2, "broken", broken)
  BY <1>1, <1>2 DEF Sets, FieldNames, Request
<1> HIDE DEF q2
<1>4. ProgressOK(q2)
  BY <1>1, <1>2, <1>3, FieldTypes
     DEF Sets, FieldNames, Good, RequestOK, ProgressOK
<1>5. AccessOK(q2)
  BY <1>1, <1>2, <1>3, FieldTypes
     DEF Sets, FieldNames, Good, RequestOK, AccessOK, ProgressOK, Downloading
<1>6. DownloadOK(q2)
  BY <1>1, <1>2, <1>3, FieldTypes
     DEF Sets, FieldNames, Good, RequestOK, DownloadOK, ProgressOK, Downloading, broken
<1>7. QED
  BY <1>3, <1>4, <1>5, <1>6
     DEF Sets, Good, RequestOK, q1, q2, broken

\* Writing a chunk fails.
LEMMA CutOK ==
    ASSUME NEW old, Good(old), old.pc \in {"first", "chunks"}, old.read # old.size,
           NEW new, new = [old EXCEPT !.pc = "done", !.read = old.read + 1,
                                      !.cut = TRUE,
                                      !.status = WriteHeader(old.status, 200)]
    PROVE  Good(new)
<1> DEFINE read == old.read + 1
           cut == TRUE
           status == WriteHeader(old.status, 200)
           q1 == [old EXCEPT !.pc = "done"]
           q2 == [q1 EXCEPT !.read = read]
           q3 == [q2 EXCEPT !.cut = cut]
           q4 == [q3 EXCEPT !.status = status]
<1>1. /\ read \in 0..MaxChunks /\ read \in Nat /\ old.read <= read /\ read <= old.size
      /\ cut \in BOOLEAN /\ status \in {0, 101, 200, 400, 403, 500}
  BY FieldTypes, ConstantFacts DEF Good, WriteHeader, RequestOK, ProgressOK
<1> HIDE DEF read, cut, status
<1>2. Sets(old, q1, "pc", "done")
  BY <1>1 DEF Sets, FieldNames, Request, Good
<1> HIDE DEF q1
<1>3. Sets(q1, q2, "read", read)
  BY <1>1, <1>2 DEF Sets, FieldNames, Request
<1> HIDE DEF q2
<1>4. Sets(q2, q3, "cut", cut)
  BY <1>1, <1>3 DEF Sets, FieldNames, Request
<1> HIDE DEF q3
<1>5. Sets(q3, q4, "status", status)
  BY <1>1, <1>4 DEF Sets, FieldNames, Request
<1> HIDE DEF q4
<1>6. ProgressOK(q4)
  BY <1>1, <1>2, <1>3, <1>4, <1>5, FieldTypes
     DEF Sets, FieldNames, Good, RequestOK, ProgressOK
<1>7. AccessOK(q4)
  BY <1>1, <1>2, <1>3, <1>4, <1>5, FieldTypes
     DEF Sets, FieldNames, Good, RequestOK, AccessOK, ProgressOK, Downloading,
         WriteHeader, status
<1>8. DownloadOK(q4)
  BY <1>1, <1>2, <1>3, <1>4, <1>5, FieldTypes
     DEF Sets, FieldNames, Good, RequestOK, DownloadOK, ProgressOK, Downloading,
         WriteHeader, status, cut
<1>9. QED
  BY <1>5, <1>6, <1>7, <1>8
     DEF Sets, Good, RequestOK, q1, q2, q3, q4, read, cut, status

-----------------------------------------------------------------------------
(* Steps of the server                                                     *)

\* The step concerns request r only.
Only(r) ==
    /\ req' \in [Requests -> Request]
    /\ \A p \in Requests \ {r} : req'[p] = req[p]

\* A step that leaves one request in a state that is allowed keeps the
\* invariant of all of them: what is allowed depends on the settings alone.
LEMMA RequestsKept ==
    ASSUME RequestsInv, cfg' = cfg, NEW r \in Requests, Good(req'[r]), Only(r)
    PROVE  RequestsInv'
<1>1. ASSUME NEW p \in Requests PROVE RequestOK(req'[p])
  BY <1>1 DEF RequestsInv, Only, Good
<1>2. ASSUME NEW p \in Requests PROVE RequestOK(req[p])'
  <2>1. RequestOK(req'[p])
    BY <1>1
  <2>2. ProgressOK(req[p])' /\ DownloadOK(req[p])'
    BY <2>1 DEF RequestOK, ProgressOK, DownloadOK, InvalidDates
  <2>3. CheckOrigin(req'[p].call.origin) => CheckOrigin(req[p].call.origin)'
    BY Zenon DEF CheckOrigin
  <2>4. IsAdmin(req'[p].vouched) => IsAdmin(req[p].vouched)'
    BY DEF IsAdmin, rolesAsMap
  <2>5. AccessOK(req[p])'
    BY <2>1, <2>3, <2>4 DEF RequestOK, AccessOK, TokenOf
  <2>6. QED
    BY <2>2, <2>5 DEF RequestOK
<1>3. QED
  BY <1>2 DEF RequestsInv

\* A step of one request keeps the invariant if it leaves the request in a state
\* that is allowed, with a temporary file only while it is open.
LEMMA Keep ==
    ASSUME ApiInv, Up, UNCHANGED <<serverVars, valid>>,
           NEW r \in Requests, Good(req'[r]), Only(r),
           temps' \subseteq temps \cup {r},
           r \in temps' => req'[r].pc \in {"spool", "send"}
    PROVE  ApiInv'
<1>1. TypeOK'
  BY DEF ApiInv, TypeOK, Only, serverVars
<1>2. ServerInv'
  BY DEF ApiInv, ServerInv, AuthSettingsValid, serverVars, Up
<1>3. RequestsInv'
  BY RequestsKept DEF ApiInv, serverVars
<1>4. TempsInv'
  BY DEF ApiInv, TypeOK, TempsInv, Only
<1>5. QED
  BY <1>1, <1>2, <1>3, <1>4 DEF ApiInv

\* A request before a step of its own.
LEMMA Before ==
    ASSUME ApiInv, NEW r \in Requests
    PROVE  /\ Good(req[r]) /\ req \in [Requests -> Request]
           /\ r \in temps => req[r].pc \in {"spool", "send"}
  BY DEF ApiInv, TypeOK, RequestsInv, TempsInv, Good

\* A handler that returns an error keeps the invariant.
LEMMA ReturnKeeps ==
    ASSUME ApiInv, Up, UNCHANGED <<serverVars, valid>>,
           NEW r \in Requests, NEW code \in {400, 403, 500}, Return(r, code),
           req[r].pc \in {"auth", "handler", "temp", "spool", "first"},
           req[r].pc \in {"auth", "handler"} /\ req[r].call.route = "download"
             => code = 403,
           temps' = temps \ {r}
    PROVE  ApiInv'
<1>1. Good(req[r]) /\ req \in [Requests -> Request]
  BY Before
<1>2. /\ req'[r] = Returned(req[r], code)
      /\ \A p \in Requests \ {r} : req'[p] = req[p]
  BY <1>1 DEF Return, Returned
<1>3. Good(req'[r])
  BY <1>1, <1>2, ReturnOK
<1>4. Only(r)
  BY <1>1, <1>2, <1>3 DEF Only, Good, Return
<1>5. QED
  BY <1>3, <1>4, Keep

\* Every step of a download keeps the invariant.
LEMMA DownloadNext ==
    ASSUME ApiInv, NEW r \in Requests, DownloadStep(r)
    PROVE  ApiInv'
<1> USE Before
<1>1. CASE DownloadLogHandler(r)
  <2>1. /\ Up /\ UNCHANGED <<serverVars, valid>> /\ temps' = temps /\ r \notin temps
        /\ req[r].pc = "handler" /\ req[r].call.route = "download"
        /\ req[r].details # Nil /\ req[r].details.IsAdmin
    BY <1>1 DEF DownloadLogHandler, Handles, At, canAccess
  <2> DEFINE code == IF InvalidDates(req[r].call) THEN WriteHeader(req[r].status, 400)
                     ELSE req[r].status
  <2>2. code \in {0, 400} /\ (InvalidDates(req[r].call) => code = 400)
    BY <2>1 DEF Good, RequestOK, ProgressOK, WriteHeader
  <2>3. PICK n \in 0..MaxChunks :
          req' = [req EXCEPT
                    ![r].pc = IF req[r].call.disable_chunked THEN "temp" ELSE "first",
                    ![r].size = n, ![r].status = code]
    BY <1>1 DEF DownloadLogHandler
  <2> HIDE DEF code
  <2>4. CASE req[r].call.disable_chunked
    <3>1. /\ req'[r] = Started(req[r], "temp", n, code)
          /\ \A p \in Requests \ {r} : req'[p] = req[p]
      BY <2>3, <2>4 DEF Started
    <3>2. Good(req'[r])
      BY <2>1, <2>2, <2>4, <3>1, StartFileOK
    <3>3. Only(r)
      BY <2>3, <3>1, <3>2 DEF Only, Good
    <3>4. QED
      BY <2>1, <3>2, <3>3, Keep
  <2>5. CASE ~req[r].call.disable_chunked
    <3>1. /\ req'[r] = Started(req[r], "first", n, code)
          /\ \A p \in Requests \ {r} : req'[p] = req[p]
      BY <2>3, <2>5 DEF Started
    <3>2. Good(req'[r])
      BY <2>1, <2>2, <2>5, <3>1, StartChunksOK
    <3>3. Only(r)
      BY <2>3, <3>1, <3>2 DEF Only, Good
    <3>4. QED
      BY <2>1, <3>2, <3>3, Keep
  <2>6. QED
    BY <2>4, <2>5
<1>2. CASE CreateTemp(r)
  <2>1. Up /\ UNCHANGED <<serverVars, valid>> /\ req[r].pc = "temp" /\ r \notin temps
    BY <1>2 DEF CreateTemp, At
  <2>2. CASE req' = [req EXCEPT ![r].pc = "spool"] /\ temps' = temps \cup {r}
    <3>1. /\ req'[r] = [req[r] EXCEPT !.pc = "spool"]
          /\ \A p \in Requests \ {r} : req'[p] = req[p]
      BY <2>2
    <3>2. Good(req'[r])
      BY <2>1, <3>1, TempOK
    <3>3. Only(r)
      BY <2>2, <3>1, <3>2 DEF Only, Good
    <3>4. req'[r].pc = "spool"
      BY <3>1 DEF Good, Request
    <3>5. QED
      BY <2>1, <2>2, <3>2, <3>3, <3>4, Keep
  <2>3. CASE Return(r, 500) /\ temps' = temps
    BY <2>1, <2>3, ReturnKeeps
  <2>4. QED
    BY <1>2, <2>2, <2>3 DEF CreateTemp
<1>3. CASE Spool(r)
  <2>1. /\ Up /\ UNCHANGED <<serverVars, valid>> /\ temps' = temps
        /\ req[r].pc = "spool"
    BY <1>3 DEF Spool, At
  <2>2. CASE AtEOF(r)
    <3>1. /\ req'[r] = [req[r] EXCEPT !.pc = "send"]
          /\ \A p \in Requests \ {r} : req'[p] = req[p]
      BY <1>3, <2>2 DEF Spool
    <3>2. Good(req'[r])
      BY <2>1, <2>2, <3>1, SpooledOK DEF AtEOF
    <3>3. Only(r)
      BY <1>3, <2>2, <3>1, <3>2 DEF Only, Good, Spool
    <3>4. req'[r].pc = "send"
      BY <3>1 DEF Good, Request
    <3>5. QED
      BY <2>1, <3>2, <3>3, <3>4, Keep
  <2>3. CASE ~AtEOF(r)
    <3>1. /\ req'[r] = [req[r] EXCEPT !.read = req[r].read + 1]
          /\ \A p \in Requests \ {r} : req'[p] = req[p]
      BY <1>3, <2>3 DEF Spool
    <3>2. Good(req'[r])
      BY <2>1, <2>3, <3>1, SpoolOK DEF AtEOF
    <3>3. Only(r)
      BY <1>3, <2>3, <3>1, <3>2 DEF Only, Good, Spool
    <3>4. req'[r].pc = "spool"
      BY <2>1, <3>1 DEF Good, Request
    <3>5. QED
      BY <2>1, <3>2, <3>3, <3>4, Keep
  <2>4. QED
    BY <2>2, <2>3
<1>4. CASE SpoolErr(r)
  <2>1. /\ Up /\ UNCHANGED <<serverVars, valid>> /\ temps' = temps \ {r}
        /\ req[r].pc = "spool" /\ Return(r, 500)
    BY <1>4 DEF SpoolErr, At
  <2>2. QED
    BY <2>1, ReturnKeeps
<1>5. CASE SendFile(r)
  <2>1. /\ Up /\ UNCHANGED <<serverVars, valid>> /\ temps' = temps \ {r}
        /\ req[r].pc = "send"
    BY <1>5 DEF SendFile, At
  <2>2. PICK n \in 0..req[r].read :
          req' = [req EXCEPT ![r].pc = "done", ![r].sent = n, ![r].cut = n < req[r].read,
                             ![r].status = WriteHeader(@, 200)]
    BY <1>5 DEF SendFile
  <2>3. /\ req'[r] = FileSent(req[r], n)
        /\ \A p \in Requests \ {r} : req'[p] = req[p]
    BY <2>2 DEF FileSent
  <2>4. Good(req'[r])
    BY <2>1, <2>3, SendOK
  <2>5. Only(r)
    BY <2>2, <2>3, <2>4 DEF Only, Good
  <2>6. QED
    BY <2>1, <2>4, <2>5, Keep
<1>6. CASE ChunkFirst(r)
  <2>1. /\ Up /\ UNCHANGED <<serverVars, valid>> /\ temps' = temps /\ r \notin temps
        /\ req[r].pc = "first"
    BY <1>6 DEF ChunkFirst, At
  <2>2. PICK n : /\ n = IF req[r].read = req[r].size THEN 0 ELSE 1
                 /\ req' = [req EXCEPT ![r].pc = "chunks", ![r].read = n, ![r].sent = n,
                                       ![r].status = WriteHeader(@, 200)]
    BY <1>6 DEF ChunkFirst, AtEOF
  <2>3. /\ req'[r] = FirstSent(req[r], n)
        /\ \A p \in Requests \ {r} : req'[p] = req[p]
    BY <2>2 DEF FirstSent
  <2>4. Good(req'[r])
    BY <2>1, <2>2, <2>3, FirstOK
  <2>5. Only(r)
    BY <2>2, <2>3, <2>4 DEF Only, Good
  <2>6. QED
    BY <2>1, <2>4, <2>5, Keep
<1>7. CASE ChunkFirstErr(r)
  <2>1. /\ Up /\ UNCHANGED <<serverVars, valid>> /\ temps' = temps /\ r \notin temps
        /\ req[r].pc = "first" /\ Return(r, 500)
    BY <1>7 DEF ChunkFirstErr, At
  <2>2. QED
    BY <2>1, ReturnKeeps
<1>8. CASE ChunkNext(r)
  <2>1. /\ Up /\ UNCHANGED <<serverVars, valid>> /\ temps' = temps /\ r \notin temps
        /\ req[r].pc = "chunks"
    BY <1>8 DEF ChunkNext, At
  <2>2. CASE AtEOF(r)
    <3>1. /\ req'[r] = [req[r] EXCEPT !.pc = "done"]
          /\ \A p \in Requests \ {r} : req'[p] = req[p]
      BY <1>8, <2>2 DEF ChunkNext
    <3>2. Good(req'[r])
      BY <2>1, <2>2, <3>1, ChunksEndOK DEF AtEOF
    <3>3. Only(r)
      BY <1>8, <2>2, <3>1, <3>2 DEF Only, Good, ChunkNext
    <3>4. QED
      BY <2>1, <3>2, <3>3, Keep
  <2>3. CASE ~AtEOF(r)
    <3>1. /\ req'[r] = [req[r] EXCEPT !.read = req[r].read + 1, !.sent = req[r].sent + 1]
          /\ \A p \in Requests \ {r} : req'[p] = req[p]
      BY <1>8, <2>3 DEF ChunkNext
    <3>2. Good(req'[r])
      BY <2>1, <2>3, <3>1, ChunkOK DEF AtEOF
    <3>3. Only(r)
      BY <1>8, <2>3, <3>1, <3>2 DEF Only, Good, ChunkNext
    <3>4. QED
      BY <2>1, <3>2, <3>3, Keep
  <2>4. QED
    BY <2>2, <2>3
<1>9. CASE ChunkNextErr(r)
  <2>1. Up /\ UNCHANGED <<serverVars, valid>> /\ req[r].pc = "chunks"
    BY <1>9 DEF ChunkNextErr, At
  <2>2. /\ req'[r] = [req[r] EXCEPT !.pc = "done", !.broken = TRUE]
        /\ \A p \in Requests \ {r} : req'[p] = req[p]
    BY <1>9 DEF ChunkNextErr
  <2>3. Good(req'[r])
    BY <2>1, <2>2, BrokenOK
  <2>4. Only(r)
    BY <1>9, <2>2, <2>3 DEF Only, Good, ChunkNextErr
  <2>5. temps' = temps /\ r \notin temps
    BY <1>9, <2>1 DEF ChunkNextErr
  <2>6. QED
    BY <2>1, <2>3, <2>4, <2>5, Keep
<1>10. CASE ChunkCut(r)
  <2>1. Up /\ UNCHANGED <<serverVars, valid>> /\ req[r].pc \in {"first", "chunks"}
        /\ req[r].read # req[r].size
    BY <1>10 DEF ChunkCut, At, AtEOF
  <2>2. /\ req'[r] = [req[r] EXCEPT !.pc = "done", !.read = req[r].read + 1,
                                   !.cut = TRUE,
                                   !.status = WriteHeader(req[r].status, 200)]
        /\ \A p \in Requests \ {r} : req'[p] = req[p]
    BY <1>10 DEF ChunkCut
  <2>3. Good(req'[r])
    BY <2>1, <2>2, CutOK
  <2>4. Only(r)
    BY <1>10, <2>2, <2>3 DEF Only, Good, ChunkCut
  <2>5. temps' = temps /\ r \notin temps
    BY <1>10, <2>1 DEF ChunkCut
  <2>6. QED
    BY <2>1, <2>3, <2>4, <2>5, Keep
<1>11. QED
  BY <1>1, <1>2, <1>3, <1>4, <1>5, <1>6, <1>7, <1>8, <1>9, <1>10 DEF DownloadStep

\* A request that arrives keeps the invariant: the server is up, so the routes
\* have the middleware that the settings ask for.
LEMMA ArriveNext ==
    ASSUME ApiInv, NEW r \in Requests, NEW c \in Calls, Arrive(r, c)
    PROVE  ApiInv'
<1>1. /\ Up /\ UNCHANGED <<serverVars, valid>> /\ temps' = temps /\ r \notin temps
      /\ req[r].pc = "none"
  BY Before DEF Arrive, Up
<1>2. c \in Call /\ (auth <=> cfg.AuthMiddleware = "keystone") /\ AuthSettingsValid
  BY ConstantFacts DEF ApiInv, ServerInv, Arrive
<1>3. /\ req'[r] = [req[r] EXCEPT !.pc = IF auth THEN "auth" ELSE "handler", !.call = c]
      /\ \A p \in Requests \ {r} : req'[p] = req[p]
  BY Before DEF Arrive
<1>4. Good(req'[r])
  BY <1>1, <1>2, <1>3, Before, ArriveOK
<1>5. Only(r)
  BY <1>3, <1>4, Before DEF Only, Good, Arrive
<1>6. QED
  BY <1>1, <1>4, <1>5, Keep

\* The middleware keeps the invariant: the details are those of a token that
\* Keystone accepted, or the request is answered with 403.
LEMMA ServeHTTPNext ==
    ASSUME ApiInv, NEW r \in Requests, ServeHTTP(r)
    PROVE  ApiInv'
<1>1. /\ Up /\ UNCHANGED <<serverVars, valid>> /\ temps' = temps /\ r \notin temps
      /\ req[r].pc = "auth"
  BY Before DEF ServeHTTP, At
<1>2. PICK details \in Authenticate(req[r].call) :
        IF details = Nil THEN Return(r, 403)
        ELSE req' = [req EXCEPT ![r].pc = "handler", ![r].details = details,
                                ![r].vouched = TokenOf(req[r].call)]
  BY DEF ServeHTTP
<1>3. CASE details = Nil
  BY <1>1, <1>2, <1>3, ReturnKeeps
<1>4. CASE details # Nil
  <2>1. /\ TokenOf(req[r].call) \in valid
        /\ details = [IsAdmin |-> IsAdmin(TokenOf(req[r].call))]
    BY <1>2, <1>4 DEF Authenticate
  <2>2. /\ details \in AuthDetails /\ TokenOf(req[r].call) \in Tokens
        /\ details.IsAdmin => IsAdmin(TokenOf(req[r].call))
    BY <2>1 DEF AuthDetails, IsAdmin, ApiInv, TypeOK
  <2>3. /\ req'[r] = [req[r] EXCEPT !.pc = "handler", !.details = details,
                                   !.vouched = TokenOf(req[r].call)]
        /\ \A p \in Requests \ {r} : req'[p] = req[p]
    BY <1>2, <1>4, Before
  <2>4. Good(req'[r])
    BY <1>1, <1>4, <2>2, <2>3, Before, VouchedOK
  <2>5. Only(r)
    BY <1>2, <1>4, <2>3, <2>4, Before DEF Only, Good
  <2>6. QED
    BY <1>1, <2>4, <2>5, Keep
<1>5. QED
  BY <1>3, <1>4

\* The handlers that do not download keep the invariant.
LEMMA HandlerNext ==
    ASSUME ApiInv, NEW r \in Requests,
           Forbidden(r) \/ WSHandler(r) \/ ListLogsHandler(r) \/ StreamEnd(r)
    PROVE  ApiInv'
<1> USE Before
<1>1. CASE Forbidden(r)
  <2>1. /\ Up /\ UNCHANGED <<serverVars, valid>> /\ temps' = temps /\ r \notin temps
        /\ req[r].pc = "handler" /\ Return(r, 403)
    BY <1>1 DEF Forbidden, At
  <2>2. QED
    BY <2>1, ReturnKeeps
<1>2. CASE WSHandler(r)
  <2>1. /\ Up /\ UNCHANGED <<serverVars, valid>> /\ temps' = temps /\ r \notin temps
        /\ req[r].pc = "handler" /\ req[r].call.route = "ws"
        /\ req[r].details # Nil /\ req[r].details.IsAdmin
    BY <1>2 DEF WSHandler, Handles, At, canAccess
  <2>2. CASE /\ CheckOrigin(req[r].call.origin)
             /\ req' = [req EXCEPT ![r].pc = "streaming", ![r].status = 101]
    <3>1. /\ req'[r] = [req[r] EXCEPT !.pc = "streaming", !.status = 101]
          /\ \A p \in Requests \ {r} : req'[p] = req[p]
      BY <2>2
    <3>2. Good(req'[r])
      BY <2>1, <2>2, <3>1, UpgradeOK
    <3>3. Only(r)
      BY <2>2, <3>1, <3>2 DEF Only, Good
    <3>4. QED
      BY <2>1, <3>2, <3>3, Keep
  <2>3. CASE Return(r, 403)
    BY <2>1, <2>3, ReturnKeeps
  <2>4. CASE Return(r, 400)
    BY <2>1, <2>4, ReturnKeeps
  <2>5. QED
    BY <1>2, <2>2, <2>3, <2>4 DEF WSHandler
<1>3. CASE ListLogsHandler(r)
  <2>1. /\ Up /\ UNCHANGED <<serverVars, valid>> /\ temps' = temps /\ r \notin temps
        /\ req[r].pc = "handler" /\ req[r].call.route = "list"
    BY <1>3 DEF ListLogsHandler, Handles, At
  <2>2. CASE req' = [req EXCEPT ![r].pc = "done", ![r].names = TRUE,
                                ![r].status = WriteHeader(@, 200)]
    <3>1. /\ req'[r] = [req[r] EXCEPT !.pc = "done", !.names = TRUE,
                                     !.status = WriteHeader(req[r].status, 200)]
          /\ \A p \in Requests \ {r} : req'[p] = req[p]
      BY <2>2
    <3>2. Good(req'[r])
      BY <2>1, <3>1, ListOK
    <3>3. Only(r)
      BY <2>2, <3>1, <3>2 DEF Only, Good
    <3>4. QED
      BY <2>1, <3>2, <3>3, Keep
  <2>3. CASE Return(r, 500)
    BY <2>1, <2>3, ReturnKeeps
  <2>4. QED
    BY <1>3, <2>2, <2>3 DEF ListLogsHandler
<1>4. CASE StreamEnd(r)
  <2>1. /\ Up /\ UNCHANGED <<serverVars, valid>> /\ temps' = temps /\ r \notin temps
        /\ req[r].pc = "streaming"
    BY <1>4 DEF StreamEnd, At
  <2>2. /\ req'[r] = [req[r] EXCEPT !.pc = "done"]
        /\ \A p \in Requests \ {r} : req'[p] = req[p]
    BY <1>4 DEF StreamEnd
  <2>3. Good(req'[r])
    BY <2>1, <2>2, StreamEndOK
  <2>4. Only(r)
    BY <1>4, <2>2, <2>3 DEF Only, Good, StreamEnd
  <2>5. QED
    BY <2>1, <2>3, <2>4, Keep
<1>5. QED
  BY <1>1, <1>2, <1>3, <1>4

\* A step that concerns no request and leaves the settings alone keeps what is
\* known of the requests.
LEMMA RequestsStay ==
    ASSUME ApiInv, UNCHANGED <<cfg, req, temps>>
    PROVE  RequestsInv' /\ TempsInv'
<1>1. ASSUME NEW r \in Requests PROVE Good(req'[r]) /\ Only(r)
  BY <1>1, Before DEF Only
<1>2. RequestsInv'
  <2>1. CASE Requests = {}
    BY <2>1 DEF RequestsInv
  <2>2. CASE Requests # {}
    <3>1. PICK r \in Requests : TRUE
      BY <2>2
    <3>2. QED
      BY <1>1, <3>1, RequestsKept DEF ApiInv
  <2>3. QED
    BY <2>1, <2>2
<1>3. TempsInv'
  BY DEF ApiInv, TempsInv
<1>4. QED
  BY <1>2, <1>3

\* The steps of the start keep the invariant: Validate has refused a keystone
\* section that is missing before GetAPIServer follows the pointer.
LEMMA StartNext ==
    ASSUME ApiInv, StartStep
    PROVE  ApiInv'
<1>1. UNCHANGED <<cfg, files, valid, req, temps>>
  BY DEF StartStep, Validate, GetAPIServer, Serve
<1>2. RequestsInv' /\ TempsInv'
  BY <1>1, RequestsStay
<1>3. (\A r \in Requests : req[r].pc = "none") => (\A r \in Requests : req'[r].pc = "none")
  BY <1>1
<1>4. CASE Validate
  <2>1. srv = "validate" /\ auth' = auth /\ srv' \in {"build", "refused"}
    BY <1>4 DEF Validate
  <2>2. srv' = "build" => APIServerValidate(cfg, files)
    BY <1>4 DEF Validate
  <2>3. APIServerValidate(cfg, files) => AuthSettingsValid
    BY DEF APIServerValidate, AuthSettingsValid
  <2>4. TypeOK'
    BY <1>1, <2>1 DEF ApiInv, TypeOK, ServerStates
  <2>5. ServerInv'
    BY <1>1, <1>3, <2>1, <2>2, <2>3 DEF ApiInv, ServerInv, AuthSettingsValid
  <2>6. QED
    BY <1>2, <2>4, <2>5 DEF ApiInv
<1>5. CASE GetAPIServer
  <2>1. srv = "build" /\ AuthSettingsValid /\ GetAuthMiddleware # "panic"
    BY <1>5 DEF GetAPIServer, ApiInv, ServerInv, AuthSettingsValid, GetAuthMiddleware
  <2>2. /\ srv' \in {"refused", "start"}
        /\ srv' = "start" => GetAuthMiddleware \in {"middleware", "disabled"}
        /\ auth' = (GetAuthMiddleware = "middleware")
    BY <1>5, <2>1 DEF GetAPIServer
  <2>3. auth' \in BOOLEAN /\ (auth' <=> GetAuthMiddleware = "middleware")
    BY <2>2
  <2>4. GetAuthMiddleware \in {"middleware", "disabled"} =>
          (GetAuthMiddleware = "middleware" <=> cfg.AuthMiddleware = "keystone")
    BY DEF GetAuthMiddleware
  <2>5. TypeOK'
    BY <1>1, <2>2, <2>3 DEF ApiInv, TypeOK, ServerStates
  <2>6. ServerInv'
    BY <1>1, <1>3, <2>1, <2>2, <2>3, <2>4 DEF ApiInv, ServerInv, AuthSettingsValid
  <2>7. QED
    BY <1>2, <2>5, <2>6 DEF ApiInv
<1>6. CASE Serve
  <2>1. srv = "start" /\ auth' = auth /\ srv' \in {"serving", "fatal"}
    BY <1>6 DEF Serve
  <2>2. TypeOK'
    BY <1>1, <2>1 DEF ApiInv, TypeOK, ServerStates
  <2>3. ServerInv'
    BY <1>1, <1>3, <2>1 DEF ApiInv, ServerInv, AuthSettingsValid
  <2>4. QED
    BY <1>2, <2>2, <2>3 DEF ApiInv
<1>7. QED
  BY <1>4, <1>5, <1>6 DEF StartStep

\* What happens around the server, and its end, keep the invariant.
LEMMA EnvironmentNext ==
    ASSUME ApiInv,
           FilesChange \/ Shutdown \/ Fatal \/ (\E t \in Tokens : TokenExpires(t))
             \/ UNCHANGED vars
    PROVE  ApiInv'
<1>1. UNCHANGED <<cfg, auth, req, temps>>
  BY DEF FilesChange, Shutdown, Fatal, TokenExpires, vars, serverVars
<1>2. RequestsInv' /\ TempsInv'
  BY <1>1, RequestsStay
<1>3. \/ srv' = srv
      \/ srv \in {"serving", "closing"} /\ srv' \in {"closing", "fatal"}
  BY DEF FilesChange, Shutdown, Fatal, TokenExpires, vars, serverVars
<1>4. files' \in [{"crt", "key"} -> FileStates] /\ valid' \subseteq Tokens
  BY DEF FilesChange, Shutdown, Fatal, TokenExpires, vars, serverVars, ApiInv, TypeOK
<1>5. TypeOK'
  BY <1>1, <1>3, <1>4 DEF ApiInv, TypeOK, ServerStates
<1>6. ServerInv'
  BY <1>1, <1>3 DEF ApiInv, ServerInv, AuthSettingsValid
<1>7. QED
  BY <1>2, <1>5, <1>6 DEF ApiInv

-----------------------------------------------------------------------------
(* Theorems                                                                *)

\* The invariant holds when the process starts.
LEMMA ApiInvInit == Init => ApiInv
<1> SUFFICES ASSUME Init PROVE ApiInv
  OBVIOUS
<1>1. NewRequest \in Request
  BY ConstantFacts DEF NewRequest, Request
<1>2. RequestOK(NewRequest)
  BY ConstantFacts DEF NewRequest, RequestOK, ProgressOK, AccessOK, DownloadOK,
     Downloading
<1>3. \A r \in Requests : req[r] = NewRequest
  BY DEF Init
<1>4. TypeOK
  BY <1>1 DEF Init, TypeOK, FileStates, ServerStates
<1>5. ServerInv
  BY <1>3 DEF Init, ServerInv, NewRequest
<1>6. RequestsInv /\ TempsInv
  BY <1>2, <1>3 DEF Init, RequestsInv, TempsInv
<1>7. QED
  BY <1>4, <1>5, <1>6 DEF ApiInv

\* Every step of every request, of the server and of what surrounds it keeps the
\* invariant.
LEMMA ApiInvNext == ApiInv /\ [Next]_vars => ApiInv'
<1> SUFFICES ASSUME ApiInv, [Next]_vars PROVE ApiInv'
  OBVIOUS
<1>1. CASE StartStep
  BY <1>1, StartNext
<1>2. CASE FilesChange \/ Shutdown \/ Fatal \/ (\E t \in Tokens : TokenExpires(t))
             \/ UNCHANGED vars
  BY <1>2, EnvironmentNext
<1>3. ASSUME NEW r \in Requests,
             (\E c \in Calls : Arrive(r, c)) \/ HandlerStep(r) \/ StreamEnd(r)
      PROVE  ApiInv'
  BY <1>3, ArriveNext, ServeHTTPNext, HandlerNext, DownloadNext DEF HandlerStep
<1>4. QED
  BY <1>1, <1>2, <1>3 DEF Next

\* The inductive invariant holds in every state the API server reaches.
THEOREM ApiInvariant == Spec => []ApiInv
<1>1. QED
  BY ApiInvInit, ApiInvNext, PTL DEF Spec

\* Every variable keeps its type; no counter of chunks leaves its range.
THEOREM TypeCorrect == Spec => []TypeOK
<1>1. ApiInv => TypeOK
  BY DEF ApiInv
<1>2. QED
  BY <1>1, ApiInvariant, PTL

\* For every configuration that passes Validate, every request, token and role,
\* and at whatever moment tokens expire: lines of a log go only to a request
\* whose token Keystone accepted and whose user has an admin role, to a web
\* socket only from an allowed origin (keystone.go:44-78, controllers.go:43-51,
\* 93-117 and 262-268).
THEOREM LogsOnlyToAdmins == Spec => []LogsNeedAdmin
<1>1. ApiInv => LogsNeedAdmin
  <2> SUFFICES ASSUME ApiInv, NEW r \in Requests,
                      req[r].sent > 0 \/ req[r].status = 101
               PROVE  /\ req[r].vouched \in {req[r].call.header, req[r].call.auth_token}
                                              \cap Tokens
                      /\ Roles[req[r].vouched] \cap cfg.KeystoneAuth.AdminRoles # {}
                      /\ req[r].status = 101 /\ req[r].call.origin = "other"
                           => cfg.CORSOrigins \cap {"*", "other"} # {}
    BY Zenon DEF LogsNeedAdmin
  <2>1. AccessOK(req[r])
    BY Before DEF Good, RequestOK
  <2>2. req[r].details # Nil /\ req[r].details.IsAdmin
    BY <2>1 DEF AccessOK
  <2>3. req[r].vouched \in Tokens /\ req[r].vouched = TokenOf(req[r].call)
    BY <2>1, <2>2 DEF AccessOK
  <2>4. IsAdmin(req[r].vouched)
    BY <2>1, <2>2 DEF AccessOK
  <2>5. req[r].vouched \in {req[r].call.header, req[r].call.auth_token}
    BY <2>3, ConstantFacts DEF TokenOf
  <2>6. req[r].status = 101 => CheckOrigin(req[r].call.origin)
    BY <2>1 DEF AccessOK
  <2>7. CheckOrigin("other") => cfg.CORSOrigins \cap {"*", "other"} # {}
    BY Zenon DEF CheckOrigin
  <2>8. Roles[req[r].vouched] \cap cfg.KeystoneAuth.AdminRoles # {}
    BY <2>4 DEF IsAdmin, rolesAsMap
  <2>9. QED
    BY <2>3, <2>5, <2>6, <2>7, <2>8, Zenon
<1>2. QED
  BY <1>1, ApiInvariant, PTL

\* The names of the logs go only to a request whose token Keystone accepted,
\* unless the settings say that there is no authentication: no configuration and
\* no failure of the start leads to routes without the middleware (config.go:123-136,
\* auth.go:67-82, routers.go:32-39).
THEOREM NamesOnlyWithToken == Spec => []NamesNeedToken
<1>1. ApiInv => NamesNeedToken
  BY DEF ApiInv, RequestsInv, RequestOK, AccessOK, NamesNeedToken
<1>2. QED
  BY <1>1, ApiInvariant, PTL

\* A download of any length that ends with status 200 and was not cut off carries
\* everything its reader returned up to EOF, unless it was sent in chunks and a
\* ReadNext returned an error after the first (controllers.go:183-223, 227-258).
THEOREM ReadAlwaysSent == Spec => []ReadIsSent
<1>1. ApiInv => ReadIsSent
  BY DEF ApiInv, RequestsInv, RequestOK, DownloadOK, ReadIsSent
<1>2. QED
  BY <1>1, ApiInvariant, PTL

\* A download with an invalid date ends with 400, or with 403, whatever the
\* handler does after it has written the status (controllers.go:282-294).
THEOREM InvalidDatesAre400 == Spec => []InvalidDateIs400
<1>1. ApiInv => InvalidDateIs400
  BY DEF ApiInv, RequestsInv, RequestOK, DownloadOK, InvalidDates, InvalidDateIs400
<1>2. QED
  BY <1>1, ApiInvariant, PTL

\* However its steps fail, no download leaves its temporary file behind while the
\* server runs (controllers.go:171-222).
THEOREM TempsNeverLeft == Spec => []NoTempLeft
<1>1. ApiInv => NoTempLeft
  BY DEF ApiInv, TempsInv, NoTempLeft
<1>2. QED
  BY <1>1, ApiInvariant, PTL

\* The start never follows the nil pointer of a missing keystone section, for any
\* configuration and whatever happens to the certificate files in between
\* (config.go:126-128, auth.go:56-57).
THEOREM StartDoesNotPanic == Spec => []StartNeverPanics
<1>1. ApiInv => StartNeverPanics
  BY DEF ApiInv, ServerInv, StartNeverPanics
<1>2. QED
  BY <1>1, ApiInvariant, PTL
=============================================================================
