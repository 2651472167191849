---------------------------- MODULE SyslogMessage ----------------------------
(***************************************************************************)
(* The conversion of a parsed syslog message (logging/syslog.go). The      *)
(* go-syslog server hands the worker a map from field names to values;     *)
(* parts is the set of the names it has. The values have the types the     *)
(* parsers give them. Reading a name that is not there is a failed type    *)
(* assertion: a panic.                                                     *)
(***************************************************************************)

\* What both formats carry.
CommonFields == {"timestamp", "hostname", "priority", "facility", "severity"}

RequiredFields(rfc) ==
    CommonFields \cup
    IF rfc = "rfc5424" THEN {"app_name", "version", "proc_id", "msg_id",
                             "structured_data", "message"}
    ELSE IF rfc = "rfc3164" THEN {"tag", "content"}
    ELSE {}

Fields == RequiredFields("rfc5424") \cup RequiredFields("rfc3164")

\* Mutant: only the fields of both formats are required.
validateMessageCommon(parts, rfc) == CommonFields \subseteq parts

validateMessage(parts, rfc) == RequiredFields(rfc) \subseteq parts

\* The format that the fields give away, or "invalid".
getRFCVersion(parts) ==
    LET rfc == IF "structured_data" \in parts THEN "rfc5424"
               ELSE IF "content" \in parts THEN "rfc3164"
               ELSE "unknown"
    IN IF rfc # "unknown" /\ validateMessage(parts, rfc) THEN rfc ELSE "invalid"

\* The fields SyslogToLogMessage reads to build the LogMessage.
FieldsRead(rfc) ==
    {"timestamp", "hostname", "priority", "facility", "severity"} \cup
    IF rfc = "rfc3164" THEN {"tag", "content"}
                       ELSE {"proc_id", "app_name", "message"}

\* What SyslogToLogMessage does: it refuses the message, panics, or returns it.
SyslogToLogMessage(parts) ==
    LET rfc == getRFCVersion(parts) IN
    IF rfc = "invalid" THEN "error"
    ELSE IF FieldsRead(rfc) \subseteq parts THEN "ok"
    ELSE "panic"
=============================================================================
