-------------------------------- MODULE Hub --------------------------------
(***************************************************************************)
(* The web socket hub and its clients (writers/websocket/websocket.go and  *)
(* client.go), with the handler that connects a client                     *)
(* (apiserver/controllers/controllers.go, WSHandler).                      *)
(*                                                                         *)
(* Goroutines of the model, and the variable that holds where each one is: *)
(*   - Hub.run, the loop that owns the map of clients (hub, closing, cur,  *)
(*     todo);                                                              *)
(*   - the caller of Hub.Write, the syslog worker (writing);               *)
(*   - per client, the HTTP handler that registers it (handler), its       *)
(*     clientReader (reader) and its clientWriter (writer);                *)
(*   - per client and message, the anonymous goroutine run() starts to put *)
(*     the message into the client's send channel (sender).                *)
(*                                                                         *)
(* A Go channel is a sequence bounded by its capacity; a goroutine blocked *)
(* on a full one is "parked" and its value enters the channel in the same  *)
(* step as the receive that makes room, as the Go runtime does. A panic    *)
(* ends the process: it disables every action.                             *)
(***************************************************************************)
EXTENDS ClientFilter, Sequences, Functions, FiniteSets

CONSTANTS Clients,         \* web socket connections, one Client object each
          Messages,        \* log messages; each one is broadcast once
          Attr,            \* Attr[m]: the severity and application of m
          NoMsg,           \* no message in hand
          NoOptions,       \* no options update in progress
          Queries,         \* <<severity, app_name>> pairs of WSHandler requests
          Updates,         \* JSON option updates clients may send
          SendCap,         \* capacity of Client.send        (1024 in the code)
          BroadcastCap,    \* capacity of Hub.broadcast      (100)
          RegisterCap,     \* capacity of Hub.register       (100)
          UnregisterCap    \* capacity of Hub.unregister     (100)

ASSUME HubAssumption ==
    /\ Attr \in [Messages -> LogAttributes]
    /\ NoMsg \notin Messages
    /\ NoOptions \notin Options
    /\ Queries \subseteq QuerySeverities \X AppFilters
    /\ Updates \subseteq JsonOptions
    /\ SendCap \in Nat \ {0}
    /\ BroadcastCap \in Nat \ {0}
    /\ RegisterCap \in Nat \ {0}
    /\ UnregisterCap \in Nat \ {0}

VARIABLES
    hub,         \* Hub.run: "running" or "stopped" (h.closed is closed)
    stopReq,     \* what asks run to stop: "ctx" cancelled, "quit" closed
    clients,     \* h.clients, as the set of the clients in the map
    closing,     \* the client run has deleted from the map and not yet closed
    broadcast,   \* h.broadcast
    register,    \* h.register
    unregister,  \* h.unregister
    cur,         \* the message run is broadcasting, or NoMsg
    todo,        \* the clients the range loop has yet to visit
    fresh,       \* the messages no Hub.Write has been called for
    writing,     \* the message of the Hub.Write in progress, or NoMsg
    handler,     \* WSHandler per client: "none", "registering", "served"
    reader,      \* clientReader: "off", "reading", "unregistering", "closing", "done"
    writer,      \* clientWriter: "off", "selecting", "done"
    conn,        \* the connection: "none", "open", "closed" (by this process)
    send,        \* c.send
    closed,      \* whether c.send is closed
    sender,      \* the goroutine that sends m to c
    options,     \* c.options
    incoming,    \* the options clientReader is copying into c.options
    panic,       \* "none", or what killed the process
    \* History of the run, read by the properties only.
    watched,     \* the options each client has asked for
    asked,       \* the last log level a client asked for by name, or Nil
    delivered    \* the messages written to each connection, in order

runVars     == <<hub, stopReq, clients, closing, cur, todo>>
chanVars    == <<broadcast, register, unregister>>
writeVars   == <<fresh, writing>>
clientVars  == <<handler, reader, writer, conn>>
sendVars    == <<send, closed, sender>>
filterVars  == <<options, incoming, watched, asked>>
vars == <<runVars, chanVars, writeVars, clientVars, sendVars, filterVars,
          panic, delivered>>

SenderStates == {"none",     \* not started
                 "new",      \* started, about to execute its select
                 "parked",   \* blocked in the select, c.send is full
                 "expired",  \* the five second timer won, about to close c.send
                 "closed",   \* closed c.send, about to delete c from the map
                 "sent",     \* the message is in c.send
                 "dropped"}  \* deleted c from the map, message lost

NoUpdate == Options \cup {NoOptions}

TypeOK ==
    /\ hub \in {"running", "stopped"}
    /\ stopReq \subseteq {"ctx", "quit"}
    /\ clients \subseteq Clients
    /\ closing \subseteq Clients
    /\ broadcast \in Seq(Messages) /\ Len(broadcast) <= BroadcastCap
    /\ register \in Seq(Clients) /\ Len(register) <= RegisterCap
    /\ unregister \in Seq(Clients) /\ Len(unregister) <= UnregisterCap
    /\ cur \in Messages \cup {NoMsg}
    /\ todo \subseteq Clients
    /\ fresh \subseteq Messages
    /\ writing \in Messages \cup {NoMsg}
    /\ handler \in [Clients -> {"none", "registering", "served"}]
    /\ reader \in [Clients -> {"off", "reading", "unregistering", "closing", "done"}]
    /\ writer \in [Clients -> {"off", "selecting", "done"}]
    /\ conn \in [Clients -> {"none", "open", "closed"}]
    /\ send \in [Clients -> Seq(Messages)]
    /\ \A c \in Clients : Len(send[c]) <= SendCap
    /\ closed \in [Clients -> BOOLEAN]
    /\ sender \in [Clients -> [Messages -> SenderStates]]
    /\ options \in [Clients -> Options]
    /\ incoming \in [Clients -> NoUpdate]
    /\ panic \in {"none", "send on closed channel", "close of closed channel",
                  "concurrent map access", "nil dereference"}
    /\ watched \in [Clients -> SUBSET Options]
    /\ asked \in [Clients -> Severities \cup {Nil}]
    /\ delivered \in [Clients -> Seq(Messages)]

Init ==
    /\ hub = "running" /\ stopReq = {}
    /\ clients = {} /\ closing = {} /\ cur = NoMsg /\ todo = {}
    /\ broadcast = <<>> /\ register = <<>> /\ unregister = <<>>
    /\ fresh = Messages /\ writing = NoMsg
    /\ handler = [c \in Clients |-> "none"]
    /\ reader = [c \in Clients |-> "off"]
    /\ writer = [c \in Clients |-> "off"]
    /\ conn = [c \in Clients |-> "none"]
    /\ send = [c \in Clients |-> <<>>]
    /\ closed = [c \in Clients |-> FALSE]
    /\ sender = [c \in Clients |-> [m \in Messages |-> "none"]]
    /\ options = [c \in Clients |-> [Severity |-> Nil, AppName |-> Nil]]
    /\ incoming = [c \in Clients |-> NoOptions]
    /\ panic = "none"
    /\ watched = [c \in Clients |-> {}]
    /\ asked = [c \in Clients |-> Nil]
    /\ delivered = [c \in Clients |-> <<>>]

Alive == panic = "none"

-----------------------------------------------------------------------------
(* A client connects: WSHandler, NewClient, Hub.Register, Client.Go.       *)

\* The upgrade succeeded and the Client exists; Hub.Register is next.
Connect(c) ==
    /\ Alive
    /\ handler[c] = "none"
    /\ \E q \in Queries :
         /\ options' = [options EXCEPT ![c] = RequestOptions(q[1], q[2])]
         /\ watched' = [watched EXCEPT ![c] = {RequestOptions(q[1], q[2])}]
    /\ handler' = [handler EXCEPT ![c] = "registering"]
    /\ conn' = [conn EXCEPT ![c] = "open"]
    /\ UNCHANGED <<runVars, chanVars, writeVars, reader, writer, sendVars,
                   incoming, asked, panic, delivered>>

\* h.register <- client, then the two goroutines of Client.Go.
Register(c) ==
    /\ Alive
    /\ handler[c] = "registering"
    /\ Len(register) < RegisterCap
    /\ register' = Append(register, c)
    /\ handler' = [handler EXCEPT ![c] = "served"]
    /\ reader' = [reader EXCEPT ![c] = "reading"]
    /\ writer' = [writer EXCEPT ![c] = "selecting"]
    /\ UNCHANGED <<runVars, broadcast, unregister, writeVars, conn, sendVars,
                   filterVars, panic, delivered>>

-----------------------------------------------------------------------------
(* clientReader                                                            *)

\* ReadJSON returned an update; the assignment to c.options begins.
ReaderUpdate(c) ==
    /\ Alive
    /\ reader[c] = "reading" /\ incoming[c] = NoOptions /\ conn[c] = "open"
    /\ \E json \in Updates :
         /\ incoming' = [incoming EXCEPT ![c] = DecodeOptions(json)]
         /\ watched' = [watched EXCEPT ![c] = @ \cup {DecodeOptions(json)}]
         /\ asked' = [asked EXCEPT ![c] = IF json.Severity # Nil
                                          THEN json.Severity ELSE @]
    /\ UNCHANGED <<runVars, chanVars, writeVars, clientVars, sendVars, options,
                   panic, delivered>>

\* Both words of c.options are written.
ReaderStore(c) ==
    /\ Alive
    /\ incoming[c] # NoOptions
    /\ options' = [options EXCEPT ![c] = incoming[c]]
    /\ incoming' = [incoming EXCEPT ![c] = NoOptions]
    /\ UNCHANGED <<runVars, chanVars, writeVars, clientVars, sendVars, watched,
                   asked, panic, delivered>>

\* ReadJSON fails: the peer left or went silent for pongWait, it sent what is
\* not JSON or is too long, or this process closed the connection.
ReaderFail(c) ==
    /\ Alive
    /\ reader[c] = "reading" /\ incoming[c] = NoOptions
    /\ reader' = [reader EXCEPT ![c] = "unregistering"]
    /\ UNCHANGED <<runVars, chanVars, writeVars, handler, writer, conn, sendVars,
                   filterVars, panic, delivered>>

\* The deferred c.hub.unregister <- c ...
ReaderUnregister(c) ==
    /\ Alive
    /\ reader[c] = "unregistering"
    /\ Len(unregister) < UnregisterCap
    /\ unregister' = Append(unregister, c)
    /\ reader' = [reader EXCEPT ![c] = "closing"]
    /\ UNCHANGED <<runVars, broadcast, register, writeVars, handler, writer, conn,
                   sendVars, filterVars, panic, delivered>>

\* ... and the deferred c.conn.Close().
ReaderClose(c) ==
    /\ Alive
    /\ reader[c] = "closing"
    /\ reader' = [reader EXCEPT ![c] = "done"]
    /\ conn' = [conn EXCEPT ![c] = "closed"]
    /\ UNCHANGED <<runVars, chanVars, writeVars, handler, writer, sendVars,
                   filterVars, panic, delivered>>

-----------------------------------------------------------------------------
(* clientWriter                                                            *)

\* A receive from c.send. If goroutines are parked on the full channel, the
\* value of one of them takes the place that becomes free. (The runtime wakes
\* the one that parked first; here it may be any of them.)
ReceiveSend(c) ==
    /\ send[c] # <<>>
    /\ \/ \E m \in Messages :
            /\ sender[c][m] = "parked" /\ ~closed[c]
            /\ send' = [send EXCEPT ![c] = Append(Tail(@), m)]
            /\ sender' = [sender EXCEPT ![c][m] = "sent"]
       \/ /\ closed[c] \/ \A m \in Messages : sender[c][m] # "parked"
          /\ send' = [send EXCEPT ![c] = Tail(@)]
          /\ UNCHANGED sender

WriterExit(c) ==
    /\ writer' = [writer EXCEPT ![c] = "done"]
    /\ conn' = [conn EXCEPT ![c] = "closed"]

\* WriteJSON succeeds.
WriterSend(c) ==
    /\ Alive
    /\ writer[c] = "selecting" /\ conn[c] = "open"
    /\ ReceiveSend(c)
    /\ delivered' = [delivered EXCEPT ![c] = Append(@, Head(send[c]))]
    /\ UNCHANGED <<runVars, chanVars, writeVars, clientVars, closed, filterVars,
                   panic>>

\* WriteJSON fails, within writeWait at the latest; the goroutine returns.
WriterSendFail(c) ==
    /\ Alive
    /\ writer[c] = "selecting"
    /\ ReceiveSend(c)
    /\ WriterExit(c)
    /\ UNCHANGED <<runVars, chanVars, writeVars, handler, reader, closed,
                   filterVars, panic, delivered>>

\* Mutant: the error of a ping is ignored.
WriterPingIgnored(c) ==
    /\ Alive
    /\ writer[c] = "selecting"
    /\ UNCHANGED vars

\* The periodic ping fails. (One that succeeds changes nothing here.)
WriterPingFail(c) ==
    /\ Alive
    /\ writer[c] = "selecting"
    /\ WriterExit(c)
    /\ UNCHANGED <<runVars, chanVars, writeVars, handler, reader, sendVars,
                   filterVars, panic, delivered>>

\* c.send is closed and drained: a close message, and the goroutine returns.
WriterClosed(c) ==
    /\ Alive
    /\ writer[c] = "selecting"
    /\ closed[c] /\ send[c] = <<>>
    /\ WriterExit(c)
    /\ UNCHANGED <<runVars, chanVars, writeVars, handler, reader, sendVars,
                   filterVars, panic, delivered>>

-----------------------------------------------------------------------------
(* Hub.Write, called by one goroutine at a time (the syslog worker).       *)

WriteCall(m) ==
    /\ Alive
    /\ m \in fresh /\ writing = NoMsg
    /\ fresh' = fresh \ {m}
    /\ writing' = m
    /\ UNCHANGED <<runVars, chanVars, clientVars, sendVars, filterVars, panic,
                   delivered>>

\* h.broadcast <- msg; Write returns nil.
WriteEnqueue ==
    /\ Alive
    /\ writing # NoMsg
    /\ Len(broadcast) < BroadcastCap
    /\ broadcast' = Append(broadcast, writing)
    /\ writing' = NoMsg
    /\ UNCHANGED <<runVars, register, unregister, fresh, clientVars, sendVars,
                   filterVars, panic, delivered>>

\* The channel stayed full for 60 seconds; Write returns an error.
WriteTimeout ==
    /\ Alive
    /\ writing # NoMsg
    /\ Len(broadcast) = BroadcastCap
    /\ writing' = NoMsg
    /\ UNCHANGED <<runVars, chanVars, fresh, clientVars, sendVars, filterVars,
                   panic, delivered>>

-----------------------------------------------------------------------------
(* Hub.run. Its select is reached when neither a broadcast nor the removal *)
(* of a client is under way.                                               *)

AtSelect == Alive /\ hub = "running" /\ closing = {} /\ todo = {}

\* cancel() of the context in main, or Hub.Stop closing h.quit.
RequestStop(s) ==
    /\ Alive
    /\ s \notin stopReq
    /\ stopReq' = stopReq \cup {s}
    /\ UNCHANGED <<hub, clients, closing, cur, todo, chanVars, writeVars, clientVars,
                   sendVars, filterVars, panic, delivered>>

HubExit ==
    /\ AtSelect
    /\ stopReq # {}
    /\ hub' = "stopped"
    /\ UNCHANGED <<stopReq, clients, closing, cur, todo, chanVars, writeVars, clientVars,
                   sendVars, filterVars, panic, delivered>>

HubRegister ==
    /\ AtSelect
    /\ register # <<>>
    /\ register' = Tail(register)
    /\ clients' = clients \cup {Head(register)}
    /\ UNCHANGED <<hub, stopReq, closing, cur, todo, broadcast, unregister,
                   writeVars, clientVars, sendVars, filterVars, panic, delivered>>

\* Mutant: the channel will be closed and the map entry stays.
HubUnregisterKeeps ==
    /\ AtSelect
    /\ unregister # <<>>
    /\ unregister' = Tail(unregister)
    /\ closing' = {Head(unregister)} \cap clients
    /\ UNCHANGED <<hub, stopReq, clients, cur, todo, broadcast, register, writeVars,
                   clientVars, sendVars, filterVars, panic, delivered>>

\* Mutant: the map entry is deleted and the channel stays open.
HubUnregisterLeavesOpen ==
    /\ AtSelect
    /\ unregister # <<>>
    /\ unregister' = Tail(unregister)
    /\ clients' = clients \ {Head(unregister)}
    /\ UNCHANGED <<hub, stopReq, closing, cur, todo, broadcast, register, writeVars,
                   clientVars, sendVars, filterVars, panic, delivered>>

\* client := <-h.unregister, and the delete of a client that is in the map. An
\* unknown client is ignored.
HubUnregister ==
    /\ AtSelect
    /\ unregister # <<>>
    /\ unregister' = Tail(unregister)
    /\ closing' = {Head(unregister)} \cap clients
    /\ clients' = clients \ {Head(unregister)}
    /\ UNCHANGED <<hub, stopReq, cur, todo, broadcast, register, writeVars,
                   clientVars, sendVars, filterVars, panic, delivered>>

\* close(client.send) of the client just deleted. A timed out sender may have
\* closed the channel before.
HubClose ==
    /\ Alive
    /\ \E c \in closing :
         \/ /\ ~closed[c]
            /\ closed' = [closed EXCEPT ![c] = TRUE]
            /\ UNCHANGED panic
         \/ /\ closed[c]
            /\ panic' = "close of closed channel"
            /\ UNCHANGED closed
    /\ closing' = {}
    /\ UNCHANGED <<hub, stopReq, clients, cur, todo, chanVars, writeVars, clientVars,
                   send, sender, filterVars, delivered>>

\* message := <-h.broadcast; the range over the map begins.
HubTake ==
    /\ AtSelect
    /\ broadcast # <<>>
    /\ broadcast' = Tail(broadcast)
    /\ todo' = clients
    /\ cur' = IF clients = {} THEN NoMsg ELSE Head(broadcast)
    /\ UNCHANGED <<hub, stopReq, clients, closing, register, unregister, writeVars,
                   clientVars, sendVars, filterVars, panic, delivered>>

\* The options ShouldSend may read for c.
VisibleOptions(c) ==
    IF incoming[c] = NoOptions THEN {options[c]}
                               ELSE TornReads(options[c], incoming[c])

\* Mutant: the loop may start a second sender for the same client.
HubVisitTwice(c) ==
    /\ Alive /\ hub = "running"
    /\ c \in todo
    /\ \E again \in BOOLEAN :
         /\ todo' = IF again THEN todo ELSE todo \ {c}
         /\ cur' = IF ~again /\ todo = {c} THEN NoMsg ELSE cur
    /\ c \in clients
    /\ sender' = [sender EXCEPT ![c][cur] = "new"]
    /\ UNCHANGED <<hub, stopReq, clients, closing, chanVars, writeVars, clientVars,
                   send, closed, filterVars, panic, delivered>>

\* One iteration of the range loop. The iteration skips an entry that was
\* deleted since the loop began. (The module is built with Go 1.22, where the
\* goroutine captures the client of its own iteration.)
HubVisit(c) ==
    /\ Alive /\ hub = "running"
    /\ c \in todo
    /\ todo' = todo \ {c}
    /\ cur' = IF todo = {c} THEN NoMsg ELSE cur
    /\ \/ /\ c \in clients
          /\ \E o \in VisibleOptions(c) : ShouldSend(o, Attr[cur])
          /\ sender' = [sender EXCEPT ![c][cur] = "new"]
       \/ /\ c \in clients => \E o \in VisibleOptions(c) : ~ShouldSend(o, Attr[cur])
          /\ UNCHANGED sender
    /\ UNCHANGED <<hub, stopReq, clients, closing, chanVars, writeVars, clientVars,
                   send, closed, filterVars, panic, delivered>>

\* ShouldSend finds a pointer of c.options set, the reader overwrites it with
\* nil, and the dereference that follows the test reads it again.
HubVisitNil(c) ==
    /\ Alive /\ hub = "running"
    /\ c \in todo /\ c \in clients
    /\ incoming[c] # NoOptions /\ TornNil(options[c], incoming[c])
    /\ panic' = "nil dereference"
    /\ UNCHANGED <<runVars, chanVars, writeVars, clientVars, sendVars, filterVars,
                   delivered>>

-----------------------------------------------------------------------------
(* The goroutine that sends one message to one client.                     *)

\* Mutant: a channel one message over its capacity is not full yet.
SenderRunOverfills(c, m) ==
    /\ Alive
    /\ sender[c][m] = "new" /\ ~closed[c]
    /\ Len(send[c]) <= SendCap
    /\ send' = [send EXCEPT ![c] = Append(@, m)]
    /\ sender' = [sender EXCEPT ![c][m] = "sent"]
    /\ UNCHANGED <<runVars, chanVars, writeVars, clientVars, closed, filterVars,
                   panic, delivered>>

\* Mutant: the message is thrown away when the channel is full.
SenderRunDrops(c, m) ==
    /\ Alive
    /\ sender[c][m] = "new" /\ ~closed[c]
    /\ send' = IF Len(send[c]) < SendCap
               THEN [send EXCEPT ![c] = Append(@, m)] ELSE send
    /\ sender' = [sender EXCEPT ![c][m] = "sent"]
    /\ UNCHANGED <<runVars, chanVars, writeVars, clientVars, closed, filterVars,
                   panic, delivered>>

\* It reaches its select on an open channel: the message goes in, or the
\* channel is full and the goroutine blocks.
SenderRun(c, m) ==
    /\ Alive
    /\ sender[c][m] = "new" /\ ~closed[c]
    /\ \/ /\ Len(send[c]) < SendCap
          /\ send' = [send EXCEPT ![c] = Append(@, m)]
          /\ sender' = [sender EXCEPT ![c][m] = "sent"]
       \/ /\ Len(send[c]) = SendCap
          /\ sender' = [sender EXCEPT ![c][m] = "parked"]
          /\ UNCHANGED send
    /\ UNCHANGED <<runVars, chanVars, writeVars, clientVars, closed, filterVars,
                   panic, delivered>>

\* It reaches its select on a closed channel, or is blocked in it when the
\* channel is closed: the process dies.
SenderPanic(c, m) ==
    /\ Alive
    /\ sender[c][m] \in {"new", "parked"} /\ closed[c]
    /\ panic' = "send on closed channel"
    /\ UNCHANGED <<runVars, chanVars, writeVars, clientVars, sendVars, filterVars,
                   delivered>>

\* case <-timer.C
SenderTimeout(c, m) ==
    /\ Alive
    /\ sender[c][m] = "parked" /\ ~closed[c]
    /\ sender' = [sender EXCEPT ![c][m] = "expired"]
    /\ UNCHANGED <<runVars, chanVars, writeVars, clientVars, send, closed,
                   filterVars, panic, delivered>>

\* close(client.send)
SenderClose(c, m) ==
    /\ Alive
    /\ sender[c][m] = "expired"
    /\ \/ /\ ~closed[c]
          /\ closed' = [closed EXCEPT ![c] = TRUE]
          /\ sender' = [sender EXCEPT ![c][m] = "closed"]
          /\ UNCHANGED panic
       \/ /\ closed[c]
          /\ panic' = "close of closed channel"
          /\ UNCHANGED <<closed, sender>>
    /\ UNCHANGED <<runVars, chanVars, writeVars, clientVars, send, filterVars,
                   delivered>>

\* delete(h.clients, id)
SenderDelete(c, m) ==
    /\ Alive
    /\ sender[c][m] = "closed"
    /\ clients' = clients \ {c}
    /\ sender' = [sender EXCEPT ![c][m] = "dropped"]
    /\ UNCHANGED <<hub, stopReq, closing, cur, todo, chanVars, writeVars, clientVars,
                   send, closed, filterVars, panic, delivered>>

\* That delete is not synchronised with the map accesses of run, nor with the
\* delete of another such goroutine. When two of them overlap, the runtime may
\* detect it and stop the process; when it does not, both take effect.
Deleting == {p \in Clients \X Messages : sender[p[1]][p[2]] = "closed"}

RunUsesMap ==
    /\ hub = "running" /\ closing = {}
    /\ todo # {} \/ register # <<>> \/ unregister # <<>> \/ broadcast # <<>>

MapRace ==
    /\ Alive
    /\ \E p \in Deleting : RunUsesMap \/ Deleting # {p}
    /\ panic' = "concurrent map access"
    /\ UNCHANGED <<runVars, chanVars, writeVars, clientVars, sendVars, filterVars,
                   delivered>>

-----------------------------------------------------------------------------
ClientStep(c) ==
    \/ Connect(c) \/ Register(c)
    \/ ReaderUpdate(c) \/ ReaderStore(c) \/ ReaderFail(c)
    \/ ReaderUnregister(c) \/ ReaderClose(c)
    \/ WriterSend(c) \/ WriterSendFail(c) \/ WriterPingFail(c) \/ WriterClosed(c)

HubStep ==
    \/ \E s \in {"ctx", "quit"} : RequestStop(s)
    \/ HubExit \/ HubRegister \/ HubUnregister \/ HubClose \/ HubTake
    \/ \E c \in Clients : HubVisit(c) \/ HubVisitNil(c)

SenderStep(c, m) ==
    \/ SenderRun(c, m) \/ SenderPanic(c, m) \/ SenderTimeout(c, m)
    \/ SenderClose(c, m) \/ SenderDelete(c, m)

Next ==
    \/ \E c \in Clients : ClientStep(c)
    \/ \E m \in Messages : WriteCall(m)
    \/ WriteEnqueue \/ WriteTimeout
    \/ HubStep
    \/ \E c \in Clients, m \in Messages : SenderStep(c, m)
    \/ MapRace

Spec == Init /\ [][Next]_vars

(***************************************************************************)
(* Fairness. A runnable goroutine runs (WF). Go's select picks at random   *)
(* among the ready cases, so a case of run's select that is ready again    *)
(* and again is taken (SF). Timers fire: the five second timer of a parked *)
(* goroutine, and the ping ticker, whose ping fails once the connection is *)
(* closed, as does the pending read. A write ends within writeWait. New    *)
(* connections, messages, updates, failures of an open connection and stop *)
(* requests are choices of the environment and are not fair.               *)
(***************************************************************************)
Fairness ==
    /\ SF_vars(HubExit) /\ SF_vars(HubRegister)
    /\ SF_vars(HubUnregister) /\ SF_vars(HubTake)
    /\ WF_vars(HubClose)
    /\ WF_vars(\E c \in Clients : HubVisit(c))
    /\ WF_vars(WriteEnqueue)
    /\ \A c \in Clients :
         /\ WF_vars(Register(c))
         /\ WF_vars(ReaderStore(c))
         /\ WF_vars(conn[c] = "closed" /\ ReaderFail(c))
         /\ SF_vars(ReaderUnregister(c))
         /\ WF_vars(ReaderClose(c))
         /\ WF_vars(WriterSend(c) \/ WriterSendFail(c))
         /\ WF_vars(conn[c] = "closed" /\ WriterPingFail(c))
         /\ WF_vars(WriterClosed(c))
    /\ \A c \in Clients, m \in Messages : WF_vars(SenderStep(c, m))

FairSpec == Spec /\ Fairness

-----------------------------------------------------------------------------
(* Safety                                                                  *)

\* A client whose send channel is closed is out of the hub's map, but for the
\* moment in which a timed out sender has closed the channel and not yet
\* deleted the entry (websocket.go:72-75 and 93-94). No broadcast or
\* unregister outside that window meets a closed channel through the map.
ClosedNotRegistered ==
    \A c \in Clients :
        closed[c] /\ c \in clients => \E m \in Messages : sender[c][m] = "closed"

\* No client is dropped silently: one that was registered and is no longer in
\* the map has its send channel closed, which is what ends its clientWriter, or
\* run is about to close it. Two paths take a client out, in opposite orders:
\* run deletes and then closes (websocket.go:73-74), a timed out sender closes
\* and then deletes (93-94), and either may find the other's work half done.
DroppedMeansClosed ==
    \A c \in Clients :
        handler[c] = "served" /\ c \notin Range(register) /\ c \notin clients
            => closed[c] \/ c \in closing

\* A client is sent every message at most once, however its goroutines, the
\* hub's loop and the other clients interleave (websocket.go:77-96).
NoDuplicates ==
    \A c \in Clients : IsInjective(delivered[c] \o send[c])

\* A client is sent only messages within a level it has asked for and of an
\* application it has asked for, even when ShouldSend reads options that the
\* client's reader is overwriting (client.go:95 and 147-165). The level and
\* the application may come from two different requests.
FilterRespected ==
    \A c \in Clients : \A m \in Messages :
        sender[c][m] # "none" =>
            /\ \E o \in watched[c] : LevelAllows(o, Attr[m])
            /\ \E o \in watched[c] : AppAllows(o, Attr[m])

-----------------------------------------------------------------------------
(* Liveness                                                                *)

\* A message the hub decided to send to a client reaches the client's
\* connection, unless that connection ends or the process dies: no message
\* is held back for ever by a full channel (websocket.go:86-96).
DeliveredOrCut ==
    \A c \in Clients, m \in Messages :
        sender[c][m] = "new" ~>
            \/ m \in Range(delivered[c])
            \/ conn[c] = "closed"
            \/ ~Alive

\* Once a client's read fails, both of its goroutines end and its connection
\* is closed, unless the hub was stopped (nobody then receives from
\* h.unregister) or the process dies (client.go:80-83 and 102-125).
DisconnectCleansUp ==
    \A c \in Clients :
        reader[c] = "unregistering" ~>
            \/ reader[c] = "done" /\ writer[c] = "done" /\ conn[c] = "closed"
            \/ stopReq # {}
            \/ ~Alive

-----------------------------------------------------------------------------
(* What comments and the README say of the program, and the code violates. *)

\* websocket.go:44 "Registered clients." and websocket.go:53 "Unregister
\* requests from clients.": once the hub has taken a client's unregister
\* request, the client is not among the registered ones.
UnregisteredIsGone ==
    \A c \in Clients :
        reader[c] \in {"closing", "done"} /\ c \notin Range(unregister)
            => c \notin clients

\* client.go:77 "The client can at any time change the log level": after an
\* update that names a level has been stored, that level is the one in force.
LevelChangeTakesEffect ==
    \A c \in Clients :
        asked[c] # Nil /\ incoming[c] = NoOptions => options[c].Severity = asked[c]

\* README.md:241 "If you are listening on web sockets using the above example,
\* you should now see the log message on your screen.": a message the hub
\* decided to send to a client reaches it as long as its connection stands,
\* whatever the other clients do.
ListenerSeesMessage ==
    \A c \in Clients, m \in Messages :
        sender[c][m] = "new" ~>
            m \in Range(delivered[c]) \/ reader[c] # "reading" \/ conn[c] = "closed"
=============================================================================
