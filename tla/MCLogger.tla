------------------------------ MODULE MCLogger ------------------------------
(***************************************************************************)
(* Instances of Logger for TLC.                                            *)
(***************************************************************************)
EXTENDS Logger

\* A message of each format, and one with half of the fields of RFC 5424.
SomeParts == [m \in Messages |->
                IF m = "a" THEN RequiredFields("rfc5424")
                ELSE IF m = "b" THEN RequiredFields("rfc3164")
                ELSE CommonFields \cup {"structured_data"}]

Influx == [URL |-> [parses |-> TRUE, Scheme |-> "http", Host |-> "db"],
           Database |-> "logs", CACert |-> "", ClientCRT |-> "", ClientKey |-> "",
           WriteInterval |-> 0]
OnSocket == [APIServer |-> [AuthMiddleware |-> "none", KeystoneAuth |-> Nil,
                            UseTLS |-> FALSE, TLSConfig |-> [CRT |-> "", Key |-> ""],
                            Port |-> 9998, Bind |-> "ip", CORSOrigins |-> {}],
             Syslog |-> [Listener |-> "unixgram", Format |-> "automatic",
                         LogToStdout |-> TRUE, DataStore |-> "influxdb",
                         InfluxDB |-> Influx]]
OnTcp == [OnSocket EXCEPT !.Syslog.Listener = "tcp", !.Syslog.LogToStdout = FALSE]

\* One that works, and one for each way a start can fail because of what the
\* configuration says. With a write interval that is no positive Duration the
\* data store's worker panics before or after the format is refused.
SomeConfigs ==
    {OnSocket,
     [OnSocket EXCEPT !.APIServer.AuthMiddleware = ""],
     [OnSocket EXCEPT !.APIServer.Port = 0],
     [OnSocket EXCEPT !.Syslog.InfluxDB = Nil],
     [OnSocket EXCEPT !.Syslog.InfluxDB.URL.Scheme = "ftp"],
     [OnSocket EXCEPT !.Syslog.DataStore = "stdout"],
     [OnSocket EXCEPT !.Syslog.InfluxDB.CACert = "ca.pem"],
     [OnSocket EXCEPT !.Syslog.Format = "json"],
     [OnSocket EXCEPT !.Syslog.Format = "json", !.Syslog.InfluxDB.WriteInterval = -1],
     [OnSocket EXCEPT !.Syslog.Format = "json", !.Syslog.InfluxDB.WriteInterval = 4]}
OnlyTcp == {OnTcp}

SomeFiles == [f \in {"ca.pem"} |-> "bad"]
=============================================================================
