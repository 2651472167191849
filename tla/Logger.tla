------------------------------- MODULE Logger -------------------------------
(***************************************************************************)
(* The daemon as a whole: main (cmd/coriolis-logger/main.go) reads the     *)
(* configuration, starts the data store, the hub, the syslog worker        *)
(* (syslog/syslog.go) and the API server (apiserver/apiserver.go), and     *)
(* stops them on a signal. The syslog worker takes messages from the       *)
(* go-syslog server, converts them and hands each one to the aggregate     *)
(* writer (logging/logging.go), which calls every writer in turn.          *)
(*                                                                         *)
(* The data store, the hub and the API server have modules of their own;   *)
(* here the store is a Write that may fail and a worker that leaves when   *)
(* the context is cancelled, the hub a bounded channel and a loop that     *)
(* leaves then, whose senders may panic, and the API server a count of its *)
(* requests. The process may end in several ways and be started again,     *)
(* with the same or another configuration; the file of the Unix socket     *)
(* outlives it.                                                            *)
(***************************************************************************)
EXTENDS Config, SyslogMessage, Duration, Sequences, Functions

CONSTANTS Sources,       \* goroutines of the go-syslog server that call the handler
          Messages,      \* syslog messages; each one arrives once
          Parts,         \* Parts[m]: the fields go-syslog found in m
          Requests,      \* HTTP requests other than web sockets
          NoMsg,         \* no message in hand
          Configs,       \* the configurations the process is started with
          Files,         \* Files[f]: the state of the file a configuration names
          Second,        \* time.Second, as a Duration
          BroadcastCap,  \* capacity of Hub.broadcast   (100 in the code)
          MaxRestarts    \* bound on the restarts of the process

ASSUME LoggerAssumption ==
    /\ Parts \in [Messages -> SUBSET Fields]
    /\ NoMsg \notin Messages
    /\ Configs \subseteq ConfigFile
    /\ Files \in [DOMAIN Files -> FileStates]
    /\ Second \in 1..MaxDuration
    /\ BroadcastCap \in Nat \ {0}
    /\ MaxRestarts \in Nat

VARIABLES
    config,      \* cfg, what toml.DecodeFile made of the file
    proc,        \* "up", or how the process ended
    main,        \* where main is
    cancelled,   \* whether main called cancel()
    worker,      \* SyslogWorker.doWork
    wmsg,        \* the message doWork is handling, or NoMsg
    left,        \* the writers aggregateWriter.Write has yet to call
    chanClosed,  \* whether s.channel is closed
    done,        \* whether s.closed is closed
    listening,   \* whether the go-syslog server listens
    received,    \* the messages read from the network, not yet with a handler
    inhand,      \* the message each handler is sending to s.channel, or NoMsg
    store,       \* the data store's worker
    hub,         \* Hub.run: "off", "running", "stopped"
    broadcast,   \* the number of messages in Hub.broadcast
    sending,     \* whether goroutines of the hub may be sending to clients
    api,         \* the API server: "off", "serving", "closing"
    req,         \* the requests: "none", "active", "done"
    address,     \* what is at the address of the Unix socket
    \* History of the run, read by the properties only.
    restarts,    \* the number of restarts
    fresh,       \* the messages that have not arrived
    handled,     \* the messages whose aggregateWriter.Write returned
    outcome,     \* the result of each writer's Write of each message
    stopResult   \* what SyslogWorker.Stop returned: "none" before it did

mainVars   == <<config, proc, main, cancelled, restarts>>
workerVars == <<worker, wmsg, left, done, handled, outcome>>
netVars    == <<listening, received, inhand, fresh, chanClosed>>
peerVars   == <<store, hub, broadcast, sending>>
apiVars    == <<api, req>>
fileVars   == <<address, stopResult>>
vars == <<mainVars, workerVars, netVars, peerVars, apiVars, fileVars>>

\* The writers in the order main configures them.
Writers == <<"store">>
             \o (IF config.Syslog.LogToStdout THEN <<"stdout">> ELSE <<>>)
             \o <<"hub">>
WriterNames == {"store", "stdout", "hub"}

TypeOK ==
    /\ config \in Configs
    /\ proc \in {"up", "exited", "startFailed", "addressInUse", "fatal", "panicked",
                 "hubPanicked"}
    /\ main \in {"config", "store", "hub", "syslog", "api", "select", "waitSyslog",
                 "waitStore", "stopApi", "shutdown"}
    /\ cancelled \in BOOLEAN
    /\ worker \in {"off", "select", "writing", "draining", "closing", "killing",
                   "cleaning", "done"}
    /\ wmsg \in Messages \cup {NoMsg}
    /\ worker = "writing" <=> wmsg # NoMsg
    /\ left \in Seq(WriterNames) /\ Len(left) <= Len(Writers)
    /\ worker = "writing" <=> left # <<>>
    /\ chanClosed \in BOOLEAN /\ done \in BOOLEAN
    /\ listening \in BOOLEAN
    /\ received \subseteq Messages
    /\ inhand \in [Sources -> Messages \cup {NoMsg}]
    /\ store \in {"off", "starting", "running", "stopped"}
    /\ hub \in {"off", "running", "stopped"}
    /\ broadcast \in 0..BroadcastCap /\ sending \in BOOLEAN
    /\ api \in {"off", "serving", "closing"}
    /\ req \in [Requests -> {"none", "active", "done"}]
    /\ address \in AddressStates
    /\ restarts \in 0..MaxRestarts
    /\ fresh \subseteq Messages
    /\ handled \subseteq Messages
    /\ outcome \in [Messages -> [WriterNames -> {"none", "ok", "error"}]]
    /\ stopResult \in {"none", "error", "ok"}

Init ==
    /\ config \in Configs
    /\ proc = "up" /\ main = "config" /\ cancelled = FALSE
    /\ worker = "off" /\ wmsg = NoMsg /\ left = <<>> /\ done = FALSE
    /\ chanClosed = FALSE /\ listening = FALSE /\ received = {}
    /\ inhand = [s \in Sources |-> NoMsg]
    /\ store = "off" /\ hub = "off" /\ broadcast = 0 /\ sending = FALSE
    /\ api = "off" /\ req = [r \in Requests |-> "none"]
    /\ address \in AddressStates /\ stopResult = "none" /\ restarts = 0
    /\ fresh = Messages /\ handled = {}
    /\ outcome = [m \in Messages |-> [w \in WriterNames |-> "none"]]

Alive == proc = "up"

\* The process, however it ended, is started again by its supervisor.
\* All it had in memory is gone.
Restart ==
    /\ ~Alive /\ restarts < MaxRestarts
    /\ restarts' = restarts + 1
    /\ config' \in Configs
    /\ proc' = "up" /\ main' = "config" /\ cancelled' = FALSE
    /\ worker' = "off" /\ wmsg' = NoMsg /\ left' = <<>> /\ done' = FALSE
    /\ chanClosed' = FALSE /\ listening' = FALSE /\ received' = {}
    /\ inhand' = [s \in Sources |-> NoMsg]
    /\ store' = "off" /\ hub' = "off" /\ broadcast' = 0 /\ sending' = FALSE
    /\ api' = "off" /\ req' = [r \in Requests |-> "none"]
    /\ stopResult' = "none" /\ handled' = {}
    /\ outcome' = [m \in Messages |-> [w \in WriterNames |-> "none"]]
    /\ UNCHANGED <<address, fresh>>

-----------------------------------------------------------------------------
(* main: start                                                             *)

\* NewConfig validates the configuration, and main once more.
LoadConfig ==
    /\ Alive /\ main = "config"
    /\ IF NewConfig(config, Files, address) /\ ConfigValidate(config, Files, address)
         THEN main' = "store" /\ UNCHANGED proc
         ELSE proc' = "startFailed" /\ UNCHANGED main
    /\ UNCHANGED <<config, cancelled, restarts, workerVars, netVars, peerVars, apiVars,
                   fileVars>>

\* GetDatastore and its Start, which starts doWork and returns.
StartStore ==
    /\ Alive /\ main = "store"
    /\ IF GetDatastore(config.Syslog, Files, address)
         THEN main' = "hub" /\ store' = "starting" /\ UNCHANGED proc
         ELSE proc' = "startFailed" /\ UNCHANGED <<main, store>>
    /\ UNCHANGED <<config, cancelled, restarts, workerVars, netVars, hub, broadcast,
                   sending, apiVars, fileVars>>

\* NewHub and its Start.
StartHub ==
    /\ Alive /\ main = "hub"
    /\ hub' = "running"
    /\ main' = "syslog"
    /\ UNCHANGED <<config, proc, cancelled, restarts, workerVars, netVars, store,
                   broadcast, sending, apiVars, fileVars>>

OnUnixSocket == config.Syslog.Listener = "unixgram"

\* cleanStaleSocket finds a socket to remove.
StaleSocket == OnUnixSocket /\ address = "socket"

\* Mutant: a socket left behind is not removed.
cleanStaleSocketNot == address

\* What is at the address after a cleanStaleSocket that returned no error.
cleanStaleSocket == IF StaleSocket THEN "none" ELSE address

\* NewSyslogServer: an unknown format is found out only here.
StartSyslogRefused ==
    /\ Alive /\ main = "syslog"
    /\ ~(SyslogValidate(config.Syslog, address) /\ LogFormat(config.Syslog))
    /\ proc' = "startFailed"
    /\ UNCHANGED <<config, main, cancelled, restarts, workerVars, netVars, peerVars,
                   apiVars, fileVars>>

\* SyslogWorker.Start. Listening on a Unix socket needs its path to be free.
StartSyslog ==
    /\ Alive /\ main = "syslog"
    /\ SyslogValidate(config.Syslog, address) /\ LogFormat(config.Syslog)
    /\ IF OnUnixSocket /\ cleanStaleSocket # "none"
         THEN /\ proc' = "addressInUse"
              /\ address' = cleanStaleSocket
              /\ UNCHANGED <<main, listening, worker>>
         ELSE /\ main' = "api" /\ listening' = TRUE /\ worker' = "select"
              /\ address' = IF OnUnixSocket THEN "socket" ELSE address
              /\ UNCHANGED proc
    /\ UNCHANGED <<config, cancelled, restarts, wmsg, left, done, handled, outcome,
                   received, inhand, fresh, chanClosed, peerVars, apiVars, stopResult>>

\* Start returns an error: the socket cannot be removed, or listening fails.
StartSyslogFails ==
    /\ Alive /\ main = "syslog"
    /\ SyslogValidate(config.Syslog, address) /\ LogFormat(config.Syslog)
    /\ \/ StaleSocket /\ UNCHANGED address
       \/ address' = cleanStaleSocket
    /\ proc' = "startFailed"
    /\ UNCHANGED <<config, main, cancelled, restarts, workerVars, netVars, peerVars,
                   apiVars, stopResult>>

StartApi ==
    /\ Alive /\ main = "api"
    /\ api' = "serving"
    /\ main' = "select"
    /\ UNCHANGED <<config, proc, cancelled, restarts, workerVars, netVars, peerVars, req,
                   fileVars>>

\* Any other error of NewConfig, a constructor or a Start: os.Exit(1). (Those of
\* the hub return none.)
StartFail ==
    /\ Alive /\ main \in {"config", "store", "api"}
    /\ proc' = "startFailed"
    /\ UNCHANGED <<config, main, cancelled, restarts, workerVars, netVars, peerVars, apiVars,
                   fileVars>>

-----------------------------------------------------------------------------
(* main: stop                                                              *)

\* A signal while main waits for one. The channel is unbuffered: at any other
\* moment the signal is lost. Nothing is ever sent to errChan.
Signal ==
    /\ Alive /\ main = "select"
    /\ cancelled' = TRUE
    /\ main' = "waitSyslog"
    /\ UNCHANGED <<config, proc, restarts, workerVars, netVars, peerVars, apiVars, fileVars>>

\* syslogSvc.Wait(), datastore.Wait()
MainWait ==
    /\ Alive
    /\ \/ main = "waitSyslog" /\ done /\ main' = "waitStore"
       \/ main = "waitStore" /\ store = "stopped" /\ main' = "stopApi"
    /\ UNCHANGED <<config, proc, cancelled, restarts, workerVars, netVars, peerVars, apiVars,
                   fileVars>>

\* srv.Shutdown closes the listeners ...
MainShutdown ==
    /\ Alive /\ main = "stopApi"
    /\ api' = "closing"
    /\ main' = "shutdown"
    /\ UNCHANGED <<config, proc, cancelled, restarts, workerVars, netVars, peerVars, req,
                   fileVars>>

\* ... and returns when no request is active or five seconds have passed; main
\* returns after it.
MainExit ==
    /\ Alive /\ main = "shutdown"
    /\ proc' = "exited"
    /\ UNCHANGED <<config, main, cancelled, restarts, workerVars, netVars, peerVars, apiVars,
                   fileVars>>

-----------------------------------------------------------------------------
(* The API server                                                          *)

RequestStart(r) ==
    /\ Alive /\ api = "serving" /\ req[r] = "none"
    /\ req' = [req EXCEPT ![r] = "active"]
    /\ UNCHANGED <<mainVars, workerVars, netVars, peerVars, api, fileVars>>

RequestEnd(r) ==
    /\ Alive /\ req[r] = "active"
    /\ req' = [req EXCEPT ![r] = "done"]
    /\ UNCHANGED <<mainVars, workerVars, netVars, peerVars, api, fileVars>>

\* Serve returns an error: accepting failed, or Shutdown was called, when the
\* error is ErrServerClosed. Either way log.Fatal ends the process.
ServeFatal ==
    /\ Alive /\ api # "off"
    /\ proc' = "fatal"
    /\ UNCHANGED <<config, main, cancelled, restarts, workerVars, netVars, peerVars, apiVars,
                   fileVars>>

-----------------------------------------------------------------------------
(* The go-syslog server: it reads messages, parses them and calls the      *)
(* handler, which sends them to s.channel, an unbuffered channel.          *)

Arrive(m) ==
    /\ Alive /\ listening /\ m \in fresh
    /\ fresh' = fresh \ {m}
    /\ received' = received \cup {m}
    /\ UNCHANGED <<mainVars, workerVars, listening, inhand, chanClosed, peerVars,
                   apiVars, fileVars>>

Handle(s, m) ==
    /\ Alive /\ m \in received /\ inhand[s] = NoMsg
    /\ received' = received \ {m}
    /\ inhand' = [inhand EXCEPT ![s] = m]
    /\ UNCHANGED <<mainVars, workerVars, listening, fresh, chanClosed, peerVars,
                   apiVars, fileVars>>

\* The handler sends, or is blocked sending, when the channel is closed.
HandlePanic(s) ==
    /\ Alive /\ inhand[s] # NoMsg /\ chanClosed
    /\ proc' = "panicked"
    /\ UNCHANGED <<config, main, cancelled, restarts, workerVars, netVars, peerVars, apiVars,
                   fileVars>>

-----------------------------------------------------------------------------
(* SyslogWorker.doWork                                                     *)

\* A message is received from one of the handlers. One that cannot be converted
\* is logged and forgotten.
WorkerTake(s) ==
    /\ Alive /\ worker = "select" /\ inhand[s] # NoMsg
    /\ inhand' = [inhand EXCEPT ![s] = NoMsg]
    /\ LET converted == SyslogToLogMessage(Parts[inhand[s]]) IN
       \/ /\ converted = "error"
          /\ UNCHANGED <<proc, worker, wmsg, left>>
       \/ /\ converted = "ok"
          /\ worker' = "writing"
          /\ wmsg' = inhand[s]
          /\ left' = Writers
          /\ UNCHANGED proc
       \/ /\ converted = "panic"
          /\ proc' = "panicked"
          /\ UNCHANGED <<worker, wmsg, left>>
    /\ UNCHANGED <<config, main, cancelled, restarts, done, handled, outcome, listening,
                   received, fresh, chanClosed, peerVars, apiVars, fileVars>>

\* Mutant: the aggregate writer returns at the first error.
WrittenUntilError(result) ==
    LET rest == IF result = "error" THEN <<>> ELSE Tail(left) IN
    /\ worker = "writing"
    /\ outcome' = [outcome EXCEPT ![wmsg][Head(left)] = result]
    /\ left' = rest
    /\ worker' = IF rest = <<>> THEN "select" ELSE worker
    /\ wmsg' = IF rest = <<>> THEN NoMsg ELSE wmsg
    /\ handled' = IF rest = <<>> THEN handled \cup {wmsg} ELSE handled

\* The Write of the writer at the head of left returned with this result. An
\* error is noted and the next writer called; after the last one, doWork logs
\* the first error and goes on.
Written(result) ==
    LET rest == Tail(left) IN
    /\ worker = "writing"
    /\ outcome' = [outcome EXCEPT ![wmsg][Head(left)] = result]
    /\ left' = rest
    /\ worker' = IF rest = <<>> THEN "select" ELSE worker
    /\ wmsg' = IF rest = <<>> THEN NoMsg ELSE wmsg
    /\ handled' = IF rest = <<>> THEN handled \cup {wmsg} ELSE handled

WriteStore ==
    /\ Alive /\ worker = "writing" /\ Head(left) = "store"
    /\ \E result \in {"ok", "error"} : Written(result)
    /\ UNCHANGED <<mainVars, done, netVars, peerVars, apiVars, fileVars>>

WriteStdout ==
    /\ Alive /\ worker = "writing" /\ Head(left) = "stdout"
    /\ Written("ok")
    /\ UNCHANGED <<mainVars, done, netVars, peerVars, apiVars, fileVars>>

\* Mutant: the send does not wait for room.
WriteHubUnbounded ==
    /\ Alive /\ worker = "writing" /\ Head(left) = "hub"
    /\ broadcast' = broadcast + 1
    /\ Written("ok")
    /\ UNCHANGED <<mainVars, done, netVars, store, hub, sending, apiVars, fileVars>>

\* Hub.Write finds room in h.broadcast.
WriteHub ==
    /\ Alive /\ worker = "writing" /\ Head(left) = "hub"
    /\ broadcast < BroadcastCap
    /\ broadcast' = broadcast + 1
    /\ Written("ok")
    /\ UNCHANGED <<mainVars, done, netVars, store, hub, sending, apiVars, fileVars>>

\* Mutant: the timeout is left to the hub's loop.
WriteHubTimeoutByHub ==
    /\ Alive /\ worker = "writing" /\ Head(left) = "hub"
    /\ broadcast = BroadcastCap /\ hub = "running"
    /\ Written("error")
    /\ UNCHANGED <<mainVars, done, netVars, peerVars, apiVars, fileVars>>

\* Hub.Write gives up after 60 seconds.
WriteHubTimeout ==
    /\ Alive /\ worker = "writing" /\ Head(left) = "hub"
    /\ broadcast = BroadcastCap
    /\ Written("error")
    /\ UNCHANGED <<mainVars, done, netVars, peerVars, apiVars, fileVars>>

-----------------------------------------------------------------------------
(* SyslogWorker.Stop, called by doWork when the context is cancelled.      *)

WorkerStop ==
    /\ Alive /\ worker = "select" /\ cancelled
    /\ worker' = "draining"
    /\ UNCHANGED <<mainVars, wmsg, left, done, handled, outcome, netVars, peerVars,
                   apiVars, fileVars>>

\* The message of one waiting handler is thrown away, if there is one.
StopDrain ==
    /\ Alive /\ worker = "draining"
    /\ \/ \E s \in Sources : /\ inhand[s] # NoMsg
                             /\ inhand' = [inhand EXCEPT ![s] = NoMsg]
       \/ (\A s \in Sources : inhand[s] = NoMsg) /\ UNCHANGED inhand
    /\ worker' = "closing"
    /\ UNCHANGED <<mainVars, wmsg, left, done, handled, outcome, listening, received,
                   fresh, chanClosed, peerVars, apiVars, fileVars>>

\* close(s.channel)
StopClose ==
    /\ Alive /\ worker = "closing"
    /\ chanClosed' = TRUE
    /\ worker' = "killing"
    /\ UNCHANGED <<mainVars, wmsg, left, done, handled, outcome, listening, received,
                   inhand, fresh, peerVars, apiVars, fileVars>>

\* Mutant: s.closed is closed before the socket is removed.
StopKillDone ==
    /\ Alive /\ worker = "killing"
    /\ listening' = FALSE
    /\ worker' = "cleaning" /\ done' = TRUE
    /\ UNCHANGED <<mainVars, wmsg, left, handled, outcome, received, inhand, fresh,
                   chanClosed, peerVars, apiVars, fileVars>>

\* server.Kill(); when it fails, Stop returns and the deferred close runs.
StopKill ==
    /\ Alive /\ worker = "killing"
    /\ listening' = FALSE
    /\ \/ worker' = "cleaning" /\ UNCHANGED <<done, stopResult>>
       \/ worker' = "done" /\ done' = TRUE /\ stopResult' = "error"
    /\ UNCHANGED <<mainVars, wmsg, left, handled, outcome, received, inhand, fresh,
                   chanClosed, peerVars, apiVars, address>>

\* cleanStaleSocket, which fails when the socket cannot be removed. Either way
\* the deferred close(s.closed) runs; doWork ignores what Stop returns.
StopClean ==
    /\ Alive /\ worker = "cleaning"
    /\ \/ address' = cleanStaleSocket /\ stopResult' = "ok"
       \/ StaleSocket /\ UNCHANGED address /\ stopResult' = "error"
    /\ worker' = "done" /\ done' = TRUE
    /\ UNCHANGED <<mainVars, wmsg, left, handled, outcome, netVars, peerVars, apiVars>>

-----------------------------------------------------------------------------
(* The data store's worker and the hub's loop, as far as they matter here. *)

\* doWork begins: time.NewTicker panics when the interval, as a Duration, is not
\* positive.
StoreTicker ==
    /\ Alive /\ store = "starting"
    /\ IF DurationOf(WriteInterval(config.Syslog.InfluxDB) * Second) > 0
         THEN store' = "running" /\ UNCHANGED proc
         ELSE proc' = "panicked" /\ UNCHANGED store
    /\ UNCHANGED <<config, main, cancelled, restarts, workerVars, netVars, hub,
                   broadcast, sending, apiVars, fileVars>>

StoreExit ==
    /\ Alive /\ store = "running" /\ cancelled
    /\ store' = "stopped"
    /\ UNCHANGED <<mainVars, workerVars, netVars, hub, broadcast, sending, apiVars,
                   fileVars>>

\* Each client that is connected, through the API server, gets a goroutine that
\* sends it the message.
HubTake ==
    /\ Alive /\ hub = "running" /\ broadcast > 0
    /\ broadcast' = broadcast - 1
    /\ sending' = (sending \/ api # "off")
    /\ UNCHANGED <<mainVars, workerVars, netVars, store, hub, apiVars, fileVars>>

\* One of these goroutines sends on a channel that is closed, or closes one
\* again. (Module Hub says when.)
HubPanic ==
    /\ Alive /\ sending
    /\ proc' = "hubPanicked"
    /\ UNCHANGED <<config, main, cancelled, restarts, workerVars, netVars, peerVars, apiVars,
                   fileVars>>

HubExit ==
    /\ Alive /\ hub = "running" /\ cancelled
    /\ hub' = "stopped"
    /\ UNCHANGED <<mainVars, workerVars, netVars, store, broadcast, sending, apiVars,
                   fileVars>>

-----------------------------------------------------------------------------
MainStep ==
    \/ LoadConfig \/ StartStore \/ StartHub
    \/ StartSyslogRefused \/ StartSyslog \/ StartSyslogFails \/ StartApi
    \/ MainWait \/ MainShutdown \/ MainExit

StopStep == StopDrain \/ StopClose \/ StopKill \/ StopClean

WriteStep == WriteStore \/ WriteStdout \/ WriteHub \/ WriteHubTimeout

Next ==
    \/ Restart \/ MainStep \/ StartFail \/ Signal \/ ServeFatal
    \/ \E r \in Requests : RequestStart(r) \/ RequestEnd(r)
    \/ \E m \in Messages : Arrive(m) \/ \E s \in Sources : Handle(s, m)
    \/ \E s \in Sources : HandlePanic(s) \/ WorkerTake(s)
    \/ WriteStep \/ WorkerStop \/ StopStep
    \/ StoreTicker \/ StoreExit \/ HubTake \/ HubPanic \/ HubExit

Spec == Init /\ [][Next]_vars

(***************************************************************************)
(* Fairness. Goroutines that can run do; a case of a select that is ready  *)
(* again and again is taken; the 60 second ticker of Hub.Write fires, and  *)
(* the writers' calls return. Arrivals, requests, failures, signals and    *)
(* restarts are not fair.                                                  *)
(***************************************************************************)
Fairness ==
    /\ WF_vars(MainStep)
    /\ WF_vars(WriteStep)
    /\ SF_vars(WorkerStop) /\ WF_vars(StopStep)
    /\ WF_vars(StoreTicker) /\ WF_vars(StoreExit) /\ SF_vars(HubExit)

FairSpec == Spec /\ Fairness

-----------------------------------------------------------------------------
\* The daemon can always be started again: the socket file that a crash, a
\* failed Kill or an exit left behind is removed by the next Start, unless it
\* cannot be, and any other file there is noticed before (syslog.go:105, 139-152
\* and 165-170, config.go:195-210).
RestartFindsAddressFree == proc # "addressInUse"

\* main returns with the socket file still there only when Stop returned an
\* error, because Kill or the removal failed: Wait does not let main overtake
\* the clean up (syslog.go:154-177, main.go:131-133).
ExitLeavesNoSocket == proc = "exited" /\ StaleSocket => stopResult = "error"

\* A writer that fails or times out does not keep a message from the writers
\* after it (logging.go:44-49).
EveryWriterCalled ==
    \A m \in handled : \A w \in Range(Writers) : outcome[m][w] # "none"

\* Apart from the senders of the hub, no message, whatever its fields, and no
\* configuration panics the process before it is told to stop, unless its write
\* interval is negative or overflows a Duration: validateMessage asks for every
\* field the conversion reads, and doWork replaces the interval 0
\* (logging/syslog.go:100-173, influxdb.go:72-78).
OnlyHubPanicsWhileServing ==
    proc = "panicked" =>
        \/ cancelled
        \/ config.Syslog.InfluxDB.WriteInterval < 0
        \/ config.Syslog.InfluxDB.WriteInterval * Second > MaxDuration

\* Once main has cancelled the context the process ends, although the hub
\* leaves at once and nobody makes room in the channel the syslog worker may
\* be sending to (main.go:117-133, websocket.go:107-117).
ShutdownCompletes == cancelled ~> proc # "up"

-----------------------------------------------------------------------------
(* What main logs on a signal, and the code violates.                      *)

\* main.go:119 "shutting down gracefully": a shutdown, whatever the hub does,
\* neither crashes the process nor cuts off requests. But Stop closes the channel
\* on which the handlers send (syslog.go:160-163); and Serve returns
\* ErrServerClosed as soon as Shutdown is called, when log.Fatal ends the process
\* (apiserver.go:47-48).
ShutdownIsGraceful ==
    cancelled => /\ proc # "panicked"
                 /\ proc = "fatal" /\ api = "closing"
                        => \A r \in Requests : req[r] # "active"
=============================================================================
