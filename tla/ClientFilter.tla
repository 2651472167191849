---------------------------- MODULE ClientFilter ----------------------------
(***************************************************************************)
(* The filter that decides which log messages a web socket client is sent: *)
(* ClientFilterOptions and ShouldSend (writers/websocket/client.go), the   *)
(* options WSHandler derives from a request's query string                 *)
(* (apiserver/controllers/controllers.go), and the options a connected     *)
(* client sends as JSON.                                                   *)
(*                                                                         *)
(* A log message is reduced to the two fields the filter reads: a record   *)
(* with a Severity and an AppName.                                         *)
(***************************************************************************)
EXTENDS Integers

CONSTANTS AppNames,   \* the names of the applications that log
          Nil         \* the nil pointer

Severities == 0..7
DefaultSeverityLevel == 6           \* logging.Informational

\* An application name a client asked for; "" is the empty string, which
\* selects every application.
AppFilters == AppNames \cup {""}

\* ClientFilterOptions: two pointers, each of which may be nil.
Options == [Severity : Severities \cup {Nil}, AppName : AppFilters \cup {Nil}]

LogAttributes == [Severity : Severities, AppName : AppNames]

-----------------------------------------------------------------------------
\* The two tests of ShouldSend. A nil severity means the default level and a
\* nil application name means the empty one.
LevelAllows(opts, msg) ==
    LET severity == IF opts.Severity # Nil THEN opts.Severity
                                           ELSE DefaultSeverityLevel
    IN  msg.Severity <= severity

AppAllows(opts, msg) ==
    LET binName == IF opts.AppName # Nil THEN opts.AppName ELSE ""
    IN  binName = "" \/ binName = msg.AppName

\* Mutant: the level is not tested.
ShouldSendAnyLevel(opts, msg) == AppAllows(opts, msg)

ShouldSend(opts, msg) == AppAllows(opts, msg) /\ LevelAllows(opts, msg)

-----------------------------------------------------------------------------
(***************************************************************************)
(* Options set by the request that opens the connection. A query value for *)
(* "severity" is absent, a number, or something strconv.Atoi refuses.      *)
(***************************************************************************)
QuerySeverities == [kind : {"absent", "garbage"}]
                     \cup [kind : {"number"}, value : Int]

\* getSeverity. On a parse error it returns its zero value, 0 (Emergency),
\* beside the error; WSHandler logs the error and keeps the value.
getSeverity(q) ==
    IF q.kind = "garbage" THEN 0
    ELSE IF q.kind = "number" /\ q.value \in Severities THEN q.value
    ELSE DefaultSeverityLevel

\* The options WSHandler hands to NewClient: both pointers are always set.
RequestOptions(q, app) == [Severity |-> getSeverity(q), AppName |-> app]

-----------------------------------------------------------------------------
(***************************************************************************)
(* Options a connected client sends as a JSON object. Only the members     *)
(* that matter to the decoder are kept: "Severity", "omitempty" and        *)
(* "AppName", each absent (Nil) or present. The struct tag of the Severity *)
(* field, `json:"omitempty"`, names the member "omitempty", so the decoder *)
(* fills Severity from that member and ignores one called "Severity".      *)
(***************************************************************************)
JsonOptions == [Severity  : Severities \cup {Nil},
                omitempty : Severities \cup {Nil},
                AppName   : AppFilters \cup {Nil}]

DecodeOptions(json) == [Severity |-> json.omitempty, AppName |-> json.AppName]

(***************************************************************************)
(* c.options = opts copies two words without a lock while ShouldSend reads *)
(* them: a reader overlapping the copy may combine either word of the old  *)
(* value with either word of the new one.                                  *)
(***************************************************************************)
TornReads(old, new) == [Severity : {old.Severity, new.Severity},
                        AppName  : {old.AppName, new.AppName}]

\* ShouldSend reads each pointer twice, for the nil test and to dereference it.
\* The copy may fall between the two and put nil where a pointer was.
TornNil(old, new) ==
    \E field \in {"Severity", "AppName"} : old[field] # Nil /\ new[field] = Nil
=============================================================================
