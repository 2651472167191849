------------------------------- MODULE Config -------------------------------
(***************************************************************************)
(* The configuration (config/config.go) and what is decided from it at the *)
(* start: Validate, the log format, the TLS settings of the database       *)
(* client and the data store (datastore/datastore.go). A configuration is  *)
(* a record with the fields of the code's struct, less the ones nothing    *)
(* here depends on. A validation that returns no error is TRUE.            *)
(*                                                                         *)
(* files[name] is what the file of that name is for the program: "good",   *)
(* "bad" (its contents cannot be used) or "absent". The empty string is a  *)
(* name that was not set.                                                  *)
(***************************************************************************)
EXTENDS Integers

CONSTANT Nil   \* the nil pointer

FileStates == {"good", "bad", "absent"}

TLSConfig == [CRT : STRING, Key : STRING]
KeystoneAuth == [AuthURI : STRING, AdminRoles : SUBSET STRING]

\* Bind is "ip" when net.ParseIP accepts it.
APIServerConfig ==
    [Bind : {"ip", "name"}, Port : Int, UseTLS : BOOLEAN, AuthMiddleware : STRING,
     TLSConfig : TLSConfig, KeystoneAuth : {Nil} \cup KeystoneAuth,
     CORSOrigins : SUBSET STRING]

\* A URL as net/url splits it; parses is FALSE when it cannot.
InfluxURL == [parses : BOOLEAN, Scheme : STRING, Host : STRING]
InfluxDB == [URL : InfluxURL, Database : STRING, CACert : STRING, ClientCRT : STRING,
             ClientKey : STRING, WriteInterval : Int]
SyslogConfig == [Listener : STRING, Format : STRING, LogToStdout : BOOLEAN,
                 DataStore : STRING, InfluxDB : {Nil} \cup InfluxDB]

ConfigFile == [APIServer : APIServerConfig, Syslog : SyslogConfig]

-----------------------------------------------------------------------------
(* The API server                                                          *)

\* crypto/tls reads both files and checks that they belong together.
LoadX509KeyPair(crt, key, files) == files[crt] = "good" /\ files[key] = "good"

TLSConfigValidate(t, files) ==
    /\ t.CRT # "" /\ t.Key # ""
    /\ files[t.CRT] # "absent" /\ files[t.Key] # "absent"
    /\ LoadX509KeyPair(t.CRT, t.Key, files)

KeystoneAuthValidate(k) == k.AuthURI # ""

Ports == 1..65535

\* Mutant: the keystone section may be missing.
APIServerValidateSectionUnchecked(a, files) ==
    /\ a.AuthMiddleware \in {"keystone", "none"}
    /\ a.UseTLS => TLSConfigValidate(a.TLSConfig, files)
    /\ a.Port \in Ports
    /\ a.Bind = "ip"

APIServerValidate(a, files) ==
    /\ \/ /\ a.AuthMiddleware = "keystone"
          /\ a.KeystoneAuth # Nil
          /\ KeystoneAuthValidate(a.KeystoneAuth)
       \/ a.AuthMiddleware = "none"
    /\ a.UseTLS => TLSConfigValidate(a.TLSConfig, files)
    /\ a.Port \in Ports
    /\ a.Bind = "ip"

-----------------------------------------------------------------------------
(* The data store                                                          *)

InfluxURLIsValid(url) ==
    url.parses /\ url.Scheme \in {"http", "https"} /\ url.Host # ""

InfluxDBValidate(i) == InfluxURLIsValid(i.URL) /\ i.Database # ""

\* Whether InfluxDB.TLSConfig returns without an error. A client key without
\* its certificate, or the other way round, is ignored.
InfluxDBTLSConfig(i, files) ==
    /\ i.CACert # "" => files[i.CACert] = "good"
    /\ i.ClientKey # "" /\ i.ClientCRT # ""
         => LoadX509KeyPair(i.ClientCRT, i.ClientKey, files)

\* The seconds between two flushes, as doWork reads them from WriteInterval,
\* before it makes a Duration of them.
WriteInterval(i) == IF i.WriteInterval = 0 THEN 1 ELSE i.WriteInterval

-----------------------------------------------------------------------------
(* The syslog worker                                                       *)

\* Whether LogFormat knows the format.
LogFormat(s) == s.Format \in {"automatic", "rfc3164", "rfc5424", "rfc6587"}

\* What os.Stat says of the address of a Unix socket: nothing is there, and the
\* directory is or is not, or there is a socket or a file of another kind. (Stat
\* is taken to answer: an error other than these is left out.)
AddressStates == {"none", "noDirectory", "socket", "file"}

\* Mutant: any file may be at the address of the socket.
SyslogValidateAnyFile(s, address) ==
    /\ \/ s.DataStore = "influxdb" /\ s.InfluxDB # Nil /\ InfluxDBValidate(s.InfluxDB)
       \/ s.DataStore = "stdout"
    /\ s.Listener \in {"unixgram", "tcp", "udp"}

SyslogValidate(s, address) ==
    /\ \/ s.DataStore = "influxdb" /\ s.InfluxDB # Nil /\ InfluxDBValidate(s.InfluxDB)
       \/ s.DataStore = "stdout"
    /\ \/ s.Listener = "unixgram" /\ address \notin {"noDirectory", "file"}
       \/ s.Listener \in {"tcp", "udp"}

ConfigValidate(c, files, address) ==
    APIServerValidate(c.APIServer, files) /\ SyslogValidate(c.Syslog, address)

\* c is what toml.DecodeFile made of the file.
NewConfig(c, files, address) == ConfigValidate(c, files, address)

\* Only settings are looked at: connecting sends nothing to the database, and
\* the client takes every URL that is valid.
connect(i, files) == InfluxDBTLSConfig(i, files)
NewInfluxDBDatastore(i, files) == InfluxDBValidate(i) /\ connect(i, files)

\* "stdout" is a valid type, and not implemented.
GetDatastore(s, files, address) ==
    /\ SyslogValidate(s, address)
    /\ s.DataStore = "influxdb" /\ s.InfluxDB # Nil
    /\ NewInfluxDBDatastore(s.InfluxDB, files)
=============================================================================
