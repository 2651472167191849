---------------------------- MODULE MCDatastore ----------------------------
(***************************************************************************)
(* Instances of InfluxDatastore for TLC.                                   *)
(***************************************************************************)
EXTENDS InfluxDatastore

\* "a" and "b" collide on host, application and timestamp; "d" is of another
\* application and, unless it is an RFC 3164 message, older. "e" and "f" are like
\* "a": a run makes them the ones that cannot be encoded or stored.
SomeLogOf == [m \in Messages |-> IF m = "d" THEN "api" ELSE "worker"]
SomeHostOf == [m \in Messages |-> "h1"]
SomeStamp == [m \in Messages |-> IF m = "d" THEN 0 ELSE 1]

\* A download of one host within a period, and one that names no log.
SomeParams == {[AppName |-> "worker", Hostname |-> "h1",
                StartDate |-> 1, EndDate |-> NoDate],
               [AppName |-> NoLog, Hostname |-> NoHost,
                StartDate |-> NoDate, EndDate |-> 2]}
=============================================================================
