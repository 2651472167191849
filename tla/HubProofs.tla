----------------------------- MODULE HubProofs -----------------------------
(***************************************************************************)
(* Proofs about the web socket hub, for any number of clients and messages *)
(* and any capacities of the channels.                                     *)
(***************************************************************************)
EXTENDS Hub, RangeFacts, SequenceTheorems, TLAPS

-----------------------------------------------------------------------------
(* Bounded channels as sequences.                                          *)

\* Sending to a channel that is not full keeps it within its capacity.
LEMMA SendToChannel ==
    ASSUME NEW S, NEW s \in Seq(S), NEW e \in S, NEW k \in Nat, Len(s) < k
    PROVE  Append(s, e) \in Seq(S) /\ Len(Append(s, e)) <= k
  OBVIOUS

\* Receiving from a channel that is not empty makes room for one more.
LEMMA ReceiveFromChannel ==
    ASSUME NEW S, NEW s \in Seq(S), s # <<>>, NEW k \in Nat, Len(s) <= k
    PROVE  /\ Head(s) \in S
           /\ Tail(s) \in Seq(S)
           /\ Len(Tail(s)) < k
           /\ Len(Tail(s)) <= k
  OBVIOUS

-----------------------------------------------------------------------------
(* The filter's operators.                                                 *)

\* Whatever the query string says, WSHandler's options are well formed.
LEMMA RequestOptionsType ==
    ASSUME NEW q \in QuerySeverities \X AppFilters
    PROVE  RequestOptions(q[1], q[2]) \in Options
<1>1. q[1] \in QuerySeverities /\ q[2] \in AppFilters
  OBVIOUS
<1>2. getSeverity(q[1]) \in Severities
  BY <1>1 DEF getSeverity, QuerySeverities, Severities, DefaultSeverityLevel
<1>3. QED
  BY <1>1, <1>2 DEF RequestOptions, Options

\* A decoded update is well formed.
LEMMA DecodeOptionsType ==
    ASSUME NEW json \in JsonOptions
    PROVE  DecodeOptions(json) \in Options
  BY DEF JsonOptions, DecodeOptions, Options

-----------------------------------------------------------------------------
(* Type correctness                                                        *)

\* The variables start with values of their types.
LEMMA TypeInit == Init => TypeOK
  BY HubAssumption DEF HubAssumption, Init, TypeOK, SenderStates, NoUpdate, Options

\* The states a sending goroutine moves to are sender states.
LEMMA SenderStateNames == {"new", "parked", "expired", "closed", "sent", "dropped"}
                              \subseteq SenderStates
  BY DEF SenderStates

\* Moving one sending goroutine to another state keeps the type.
LEMMA SenderMove ==
    ASSUME NEW s \in [Clients -> [Messages -> SenderStates]],
           NEW c \in Clients, NEW m, NEW state \in SenderStates
    PROVE  [s EXCEPT ![c][m] = state] \in [Clients -> [Messages -> SenderStates]]
<1>1. [s[c] EXCEPT ![m] = state] \in [Messages -> SenderStates]
  OBVIOUS
<1>2. QED
  BY <1>1

\* So does changing the contents of one channel.
LEMMA ChannelUpdate ==
    ASSUME NEW f \in [Clients -> Seq(Messages)], NEW c \in Clients,
           NEW s \in Seq(Messages)
    PROVE  [f EXCEPT ![c] = s] \in [Clients -> Seq(Messages)]
  OBVIOUS

\* A receive from c.send, with or without a parked goroutine taking the place
\* that becomes free, keeps the channel within its capacity.
LEMMA ReceiveSendType ==
    ASSUME TypeOK, NEW c \in Clients, ReceiveSend(c)
    PROVE  /\ send' \in [Clients -> Seq(Messages)]
           /\ \A d \in Clients : Len(send'[d]) <= SendCap
           /\ sender' \in [Clients -> [Messages -> SenderStates]]
<1>0. SendCap \in Nat
  BY HubAssumption DEF HubAssumption
<1>a. /\ send \in [Clients -> Seq(Messages)]
      /\ \A d \in Clients : Len(send[d]) <= SendCap
      /\ sender \in [Clients -> [Messages -> SenderStates]]
  BY DEF TypeOK
<1>1. /\ Tail(send[c]) \in Seq(Messages)
      /\ Len(Tail(send[c])) < SendCap
  BY <1>0, <1>a, ReceiveFromChannel DEF ReceiveSend
<1>2. ASSUME send' = [send EXCEPT ![c] = Tail(@)], UNCHANGED sender
      PROVE  /\ send' \in [Clients -> Seq(Messages)]
             /\ \A d \in Clients : Len(send'[d]) <= SendCap
             /\ sender' \in [Clients -> [Messages -> SenderStates]]
  BY <1>0, <1>a, <1>1, <1>2
<1>3. ASSUME NEW m \in Messages,
             send' = [send EXCEPT ![c] = Append(Tail(@), m)],
             sender' = [sender EXCEPT ![c][m] = "sent"]
      PROVE  /\ send' \in [Clients -> Seq(Messages)]
             /\ \A d \in Clients : Len(send'[d]) <= SendCap
             /\ sender' \in [Clients -> [Messages -> SenderStates]]
  <2>1. /\ Append(Tail(send[c]), m) \in Seq(Messages)
        /\ Len(Append(Tail(send[c]), m)) <= SendCap
    BY <1>0, <1>1, SendToChannel
  <2>2. /\ send' \in [Clients -> Seq(Messages)]
        /\ \A d \in Clients : Len(send'[d]) <= SendCap
    BY <1>a, <1>3, <2>1
  <2>3. sender' \in [Clients -> [Messages -> SenderStates]]
    BY <1>a, <1>3, SenderMove, SenderStateNames
  <2>4. QED
    BY <2>2, <2>3
<1>4. QED
  BY <1>2, <1>3 DEF ReceiveSend

\* Every step of every goroutine keeps the types and the capacities.
LEMMA TypeNext == TypeOK /\ [Next]_vars => TypeOK'
<1> SUFFICES ASSUME TypeOK, [Next]_vars PROVE TypeOK'
  OBVIOUS
<1> USE DEF TypeOK, runVars, chanVars, writeVars, clientVars, sendVars, filterVars
<1>0. /\ Queries \subseteq QuerySeverities \X AppFilters
      /\ Updates \subseteq JsonOptions
      /\ SendCap \in Nat /\ BroadcastCap \in Nat
      /\ RegisterCap \in Nat /\ UnregisterCap \in Nat
  BY HubAssumption DEF HubAssumption
<1>1. ASSUME NEW c \in Clients, Connect(c) PROVE TypeOK'
  <2>1. PICK q \in Queries :
          /\ options' = [options EXCEPT ![c] = RequestOptions(q[1], q[2])]
          /\ watched' = [watched EXCEPT ![c] = {RequestOptions(q[1], q[2])}]
    BY <1>1 DEF Connect
  <2>2. RequestOptions(q[1], q[2]) \in Options
    BY <1>0, RequestOptionsType
  <2>3. options' \in [Clients -> Options] /\ watched' \in [Clients -> SUBSET Options]
    BY <2>1, <2>2
  <2>4. QED
    BY <1>1, <2>3 DEF Connect
<1>2. ASSUME NEW c \in Clients, Register(c) PROVE TypeOK'
  <2>1. register' \in Seq(Clients) /\ Len(register') <= RegisterCap
    BY <1>0, <1>2, SendToChannel DEF Register
  <2>2. QED
    BY <1>2, <2>1 DEF Register
<1>3. ASSUME NEW c \in Clients, ReaderUpdate(c) PROVE TypeOK'
  <2>1. PICK json \in Updates :
          /\ incoming' = [incoming EXCEPT ![c] = DecodeOptions(json)]
          /\ watched' = [watched EXCEPT ![c] = @ \cup {DecodeOptions(json)}]
          /\ asked' = [asked EXCEPT ![c] = IF json.Severity # Nil
                                           THEN json.Severity ELSE @]
    BY <1>3 DEF ReaderUpdate
  <2>2. DecodeOptions(json) \in Options /\ json.Severity \in Severities \cup {Nil}
    BY <1>0, DecodeOptionsType DEF JsonOptions
  <2>3. /\ incoming' \in [Clients -> NoUpdate]
        /\ watched' \in [Clients -> SUBSET Options]
        /\ asked' \in [Clients -> Severities \cup {Nil}]
    BY <2>1, <2>2 DEF NoUpdate
  <2>4. QED
    BY <1>3, <2>3 DEF ReaderUpdate
<1>4. ASSUME NEW c \in Clients, ReaderStore(c) PROVE TypeOK'
  BY <1>4 DEF ReaderStore, NoUpdate
<1>5. ASSUME NEW c \in Clients, ReaderFail(c) PROVE TypeOK'
  BY <1>5 DEF ReaderFail
<1>6. ASSUME NEW c \in Clients, ReaderUnregister(c) PROVE TypeOK'
  <2>1. unregister' \in Seq(Clients) /\ Len(unregister') <= UnregisterCap
    BY <1>0, <1>6, SendToChannel DEF ReaderUnregister
  <2>2. QED
    BY <1>6, <2>1 DEF ReaderUnregister
<1>7. ASSUME NEW c \in Clients, ReaderClose(c) PROVE TypeOK'
  BY <1>7 DEF ReaderClose
<1>8. ASSUME NEW c \in Clients, WriterSend(c) PROVE TypeOK'
  <2>1. Head(send[c]) \in Messages
    BY <1>0, <1>8, ReceiveFromChannel DEF WriterSend, ReceiveSend
  <2>2. delivered' \in [Clients -> Seq(Messages)]
    <3>1. Append(delivered[c], Head(send[c])) \in Seq(Messages)
      BY <2>1, AppendProperties
    <3>2. delivered' = [delivered EXCEPT ![c] = Append(delivered[c], Head(send[c]))]
      BY <1>8 DEF WriterSend
    <3>3. QED
      BY <3>1, <3>2, ChannelUpdate
  <2>3. QED
    BY <1>8, <2>2, ReceiveSendType DEF WriterSend
<1>9. ASSUME NEW c \in Clients, WriterSendFail(c) PROVE TypeOK'
  BY <1>9, ReceiveSendType DEF WriterSendFail, WriterExit
<1>10. ASSUME NEW c \in Clients, WriterPingFail(c) PROVE TypeOK'
  BY <1>10 DEF WriterPingFail, WriterExit
<1>11. ASSUME NEW c \in Clients, WriterClosed(c) PROVE TypeOK'
  BY <1>11 DEF WriterClosed, WriterExit
<1>12. ASSUME NEW m \in Messages, WriteCall(m) PROVE TypeOK'
  BY <1>12 DEF WriteCall
<1>13. CASE WriteEnqueue
  <2>1. broadcast' \in Seq(Messages) /\ Len(broadcast') <= BroadcastCap
    BY <1>0, <1>13, SendToChannel DEF WriteEnqueue
  <2>2. QED
    BY <1>13, <2>1 DEF WriteEnqueue
<1>14. CASE WriteTimeout
  BY <1>14 DEF WriteTimeout
<1>15. ASSUME NEW s \in {"ctx", "quit"}, RequestStop(s) PROVE TypeOK'
  BY <1>15 DEF RequestStop
<1>16. CASE HubExit
  BY <1>16 DEF HubExit
<1>17. CASE HubRegister
  <2>1. /\ register' \in Seq(Clients) /\ Len(register') <= RegisterCap
        /\ Head(register) \in Clients
    BY <1>0, <1>17, ReceiveFromChannel DEF HubRegister
  <2>2. QED
    BY <1>17, <2>1 DEF HubRegister
<1>18. CASE HubUnregister
  <2>1. unregister' \in Seq(Clients) /\ Len(unregister') <= UnregisterCap
    BY <1>0, <1>18, ReceiveFromChannel DEF HubUnregister
  <2>2. clients' \subseteq Clients /\ closing' \subseteq Clients
    BY <1>18 DEF HubUnregister
  <2>3. QED
    BY <1>18, <2>1, <2>2 DEF HubUnregister
<1>19. CASE HubClose
  <2>1. PICK c \in closing : closed' = closed \/ closed' = [closed EXCEPT ![c] = TRUE]
    BY <1>19 DEF HubClose
  <2>2. closed' \in [Clients -> BOOLEAN]
    BY <2>1
  <2>3. panic' = panic \/ panic' = "close of closed channel"
    BY <1>19 DEF HubClose
  <2>4. QED
    BY <1>19, <2>2, <2>3 DEF HubClose
<1>20. CASE HubTake
  <2>1. /\ broadcast' \in Seq(Messages) /\ Len(broadcast') <= BroadcastCap
        /\ Head(broadcast) \in Messages
    BY <1>0, <1>20, ReceiveFromChannel DEF HubTake
  <2>2. QED
    BY <1>20, <2>1 DEF HubTake
<1>21. ASSUME NEW c \in Clients, HubVisit(c) PROVE TypeOK'
  <2>1. sender' = sender \/ sender' = [sender EXCEPT ![c][cur] = "new"]
    BY <1>21 DEF HubVisit
  <2>2. sender' \in [Clients -> [Messages -> SenderStates]]
    <3>1. CASE UNCHANGED sender
      BY <3>1
    <3>2. CASE sender' = [sender EXCEPT ![c][cur] = "new"]
      BY <3>2, SenderMove, SenderStateNames
    <3>3. QED
      BY <2>1, <3>1, <3>2
  <2>3. todo' \subseteq Clients /\ cur' \in Messages \cup {NoMsg}
    BY <1>21 DEF HubVisit
  <2>4. QED
    BY <1>21, <2>2, <2>3 DEF HubVisit
<1>22. ASSUME NEW c \in Clients, HubVisitNil(c) PROVE TypeOK'
  BY <1>22 DEF HubVisitNil
<1>23. ASSUME NEW c \in Clients, NEW m \in Messages, SenderRun(c, m) PROVE TypeOK'
  <2>1. \/ /\ Len(send[c]) < SendCap
           /\ send' = [send EXCEPT ![c] = Append(send[c], m)]
           /\ sender' = [sender EXCEPT ![c][m] = "sent"]
        \/ /\ sender' = [sender EXCEPT ![c][m] = "parked"]
           /\ UNCHANGED send
    BY <1>23 DEF SenderRun
  <2>2. sender' \in [Clients -> [Messages -> SenderStates]]
    <3>1. CASE sender' = [sender EXCEPT ![c][m] = "sent"]
      BY <3>1, SenderMove, SenderStateNames
    <3>2. CASE sender' = [sender EXCEPT ![c][m] = "parked"]
      BY <3>2, SenderMove, SenderStateNames
    <3>3. QED
      BY <2>1, <3>1, <3>2
  <2>3. send' \in [Clients -> Seq(Messages)] /\ \A d \in Clients : Len(send'[d]) <= SendCap
    <3>1. CASE UNCHANGED send
      BY <3>1
    <3>2. CASE /\ Len(send[c]) < SendCap
               /\ send' = [send EXCEPT ![c] = Append(send[c], m)]
      <4>1. /\ Append(send[c], m) \in Seq(Messages)
            /\ Len(Append(send[c], m)) <= SendCap
        BY <1>0, <3>2, SendToChannel
      <4>2. QED
        BY <3>2, <4>1, ChannelUpdate
    <3>3. QED
      BY <2>1, <3>1, <3>2
  <2>4. QED
    BY <1>23, <2>2, <2>3 DEF SenderRun
<1>24. ASSUME NEW c \in Clients, NEW m \in Messages, SenderPanic(c, m) PROVE TypeOK'
  BY <1>24 DEF SenderPanic
<1>25. ASSUME NEW c \in Clients, NEW m \in Messages, SenderTimeout(c, m) PROVE TypeOK'
  <2>1. sender' \in [Clients -> [Messages -> SenderStates]]
    BY <1>25, SenderMove, SenderStateNames DEF SenderTimeout
  <2>2. QED
    BY <1>25, <2>1 DEF SenderTimeout
<1>26. ASSUME NEW c \in Clients, NEW m \in Messages, SenderClose(c, m) PROVE TypeOK'
  <2>1. /\ closed' = closed \/ closed' = [closed EXCEPT ![c] = TRUE]
        /\ sender' = sender \/ sender' = [sender EXCEPT ![c][m] = "closed"]
        /\ panic' = panic \/ panic' = "close of closed channel"
    BY <1>26 DEF SenderClose
  <2>2. closed' \in [Clients -> BOOLEAN]
    BY <2>1
  <2>3. sender' \in [Clients -> [Messages -> SenderStates]]
    <3>1. CASE UNCHANGED sender
      BY <3>1
    <3>2. CASE sender' = [sender EXCEPT ![c][m] = "closed"]
      BY <3>2, SenderMove, SenderStateNames
    <3>3. QED
      BY <2>1, <3>1, <3>2
  <2>4. QED
    BY <1>26, <2>1, <2>2, <2>3 DEF SenderClose
<1>27. ASSUME NEW c \in Clients, NEW m \in Messages, SenderDelete(c, m) PROVE TypeOK'
  <2>1. sender' \in [Clients -> [Messages -> SenderStates]]
    BY <1>27, SenderMove, SenderStateNames DEF SenderDelete
  <2>2. QED
    BY <1>27, <2>1 DEF SenderDelete
<1>28. CASE MapRace
  BY <1>28 DEF MapRace
<1>29. CASE UNCHANGED vars
  BY <1>29 DEF vars
<1>30. QED
  BY <1>1, <1>2, <1>3, <1>4, <1>5, <1>6, <1>7, <1>8, <1>9, <1>10, <1>11, <1>12,
     <1>13, <1>14, <1>15, <1>16, <1>17, <1>18, <1>20, <1>21, <1>23, <1>24, <1>25,
     <1>26, <1>27, <1>28, <1>29, <1>19, <1>22
     DEF Next, ClientStep, HubStep, SenderStep

\* The hub's variables keep their types and its channels their capacities.
THEOREM TypeCorrect == Spec => []TypeOK
<1>1. QED
  BY TypeInit, TypeNext, PTL DEF Spec

-----------------------------------------------------------------------------
(* The inductive invariant                                                 *)

\* The hub has not seen c: it is in no map, has no goroutine and its channel
\* was never closed.
Unseen(c) ==
    /\ c \notin clients /\ c \notin closing
    /\ ~closed[c]
    /\ \A m \in Messages : sender[c][m] = "none"

\* A client reaches the hub's map only through the register channel, which it
\* enters once.
RegisterInv ==
    /\ \A c \in Clients : handler[c] # "served" => Unseen(c) /\ c \notin Range(register)
    /\ \A c \in Range(register) : Unseen(c)
    /\ IsInjective(register)

\* A message that is still on its way to the broadcast loop.
Pending(m) == m \in fresh \/ m = writing \/ m \in Range(broadcast)

\* A message is in one place on that way, and reaches each client once.
BroadcastInv ==
    /\ writing \notin fresh
    /\ \A m \in Range(broadcast) : m \notin fresh /\ m # writing
    /\ IsInjective(broadcast)
    /\ \A m \in Messages : Pending(m) =>
          m # cur /\ \A c \in Clients : sender[c][m] = "none"
    /\ \A c \in todo : cur \in Messages /\ sender[c][cur] = "none"

\* A goroutine deletes a client from the map only after it closed the channel;
\* run closes one client at a time, only after it deleted it.
CloseInv ==
    /\ \A c \in Clients, m \in Messages : sender[c][m] = "closed" => closed[c]
    /\ clients \cap closing = {}
    /\ \A c, d \in closing : c = d

\* Only a goroutine that has sent its message put it into the client's stream,
\* and it did so once.
StreamOK(buffer, written, state) ==
    /\ IsInjective(buffer) /\ IsInjective(written)
    /\ Range(buffer) \cap Range(written) = {}
    /\ \A m \in Range(buffer) \cup Range(written) : state[m] = "sent"

\* That holds of every client's stream.
StreamInv == \A c \in Clients : StreamOK(send[c], delivered[c], sender[c])

\* The options in force, and those being stored, were asked for.
OptionsInv ==
    \A c \in Clients :
        /\ handler[c] # "served" => incoming[c] = NoOptions /\ reader[c] = "off"
        /\ handler[c] # "none" => options[c] \in watched[c]
        /\ incoming[c] # NoOptions => incoming[c] \in watched[c]


-----------------------------------------------------------------------------
(* What a step may change.                                                 *)

\* A goroutine that does not exist yet is started only by the hub's loop, when
\* it visits the client.
LEMMA NoneStable ==
    ASSUME TypeOK, [Next]_vars, NEW d \in Clients, NEW n \in Messages,
           sender[d][n] = "none"
    PROVE  sender'[d][n] = "none" \/ (HubVisit(d) /\ n = cur)
<1> USE DEF sendVars
<1>0. sender \in [Clients -> [Messages -> SenderStates]]
  BY DEF TypeOK
<1>1. ASSUME NEW c \in Clients, ReceiveSend(c) PROVE sender'[d][n] = "none"
  BY <1>0, <1>1 DEF ReceiveSend
<1>2. ASSUME NEW c \in Clients, HubVisit(c)
      PROVE  sender'[d][n] = "none" \/ (HubVisit(d) /\ n = cur)
  <2>1. CASE UNCHANGED sender
    BY <2>1
  <2>2. CASE sender' = [sender EXCEPT ![c][cur] = "new"]
    BY <1>0, <1>2, <2>2
  <2>3. QED
    BY <1>2, <2>1, <2>2 DEF HubVisit
<1>3. ASSUME NEW c \in Clients, NEW m \in Messages, SenderStep(c, m)
      PROVE  sender'[d][n] = "none"
  <2>1. sender[c][m] # "none"
    BY <1>3 DEF SenderStep, SenderRun, SenderPanic, SenderTimeout, SenderClose, SenderDelete
  <2>2. \/ UNCHANGED sender
        \/ sender' = [sender EXCEPT ![c][m] = "sent"]
        \/ sender' = [sender EXCEPT ![c][m] = "parked"]
        \/ sender' = [sender EXCEPT ![c][m] = "expired"]
        \/ sender' = [sender EXCEPT ![c][m] = "closed"]
        \/ sender' = [sender EXCEPT ![c][m] = "dropped"]
    BY <1>3 DEF SenderStep, SenderRun, SenderPanic, SenderTimeout, SenderClose, SenderDelete
  <2>3. QED
    BY <1>0, <2>1, <2>2
<1>4. \/ UNCHANGED sender
      \/ \E c \in Clients : ReceiveSend(c) \/ HubVisit(c)
      \/ \E c \in Clients, m \in Messages : SenderStep(c, m)
  BY DEF Next, vars, ClientStep, HubStep, Connect, Register, ReaderUpdate, ReaderStore,
     ReaderFail, ReaderUnregister, ReaderClose, WriterSend, WriterSendFail,
     WriterPingFail, WriterClosed, WriteCall, WriteEnqueue, WriteTimeout, RequestStop,
     HubExit, HubRegister, HubUnregister, HubClose, HubVisitNil, HubTake, MapRace
<1>5. QED
  BY <1>1, <1>2, <1>3, <1>4

\* Once seen, always seen; and a client is seen for the first time when run
\* takes it from the register channel.
LEMMA UnseenStable ==
    ASSUME TypeOK, [Next]_vars, NEW d \in Clients, Unseen(d)
    PROVE  Unseen(d)' \/ (HubRegister /\ d = Head(register))
<1> USE DEF runVars, sendVars
<1>0. closed \in [Clients -> BOOLEAN]
  BY DEF TypeOK
<1>1. \A m \in Messages : sender'[d][m] = "none"
  BY NoneStable DEF Unseen, HubVisit
<1>2. ASSUME HubRegister, d # Head(register)
      PROVE  d \notin clients' /\ d \notin closing' /\ ~closed'[d]
  BY <1>2 DEF HubRegister, Unseen
<1>3. ASSUME HubUnregister PROVE d \notin clients' /\ d \notin closing' /\ ~closed'[d]
  BY <1>3 DEF HubUnregister, Unseen
<1>4. ASSUME HubClose PROVE d \notin clients' /\ d \notin closing' /\ ~closed'[d]
  <2>1. PICK c \in closing : closed' = closed \/ closed' = [closed EXCEPT ![c] = TRUE]
    BY <1>4 DEF HubClose
  <2>2. QED
    BY <1>0, <1>4, <2>1 DEF HubClose, Unseen
<1>5. ASSUME NEW c \in Clients, NEW m \in Messages, SenderClose(c, m)
      PROVE  d \notin clients' /\ d \notin closing' /\ ~closed'[d]
  <2>1. sender[c][m] = "expired" /\ UNCHANGED <<clients, closing>>
    BY <1>5 DEF SenderClose
  <2>2. c # d
    BY <2>1 DEF Unseen
  <2>3. closed' = closed \/ closed' = [closed EXCEPT ![c] = TRUE]
    BY <1>5 DEF SenderClose
  <2>4. QED
    BY <1>0, <2>1, <2>2, <2>3 DEF Unseen
<1>6. ASSUME NEW c \in Clients, NEW m \in Messages, SenderDelete(c, m)
      PROVE  d \notin clients' /\ d \notin closing' /\ ~closed'[d]
  BY <1>6 DEF SenderDelete, Unseen
<1>7. ASSUME UNCHANGED <<clients, closing, closed>>
      PROVE  d \notin clients' /\ d \notin closing' /\ ~closed'[d]
  BY <1>7 DEF Unseen
<1>8. \/ UNCHANGED <<clients, closing, closed>>
      \/ HubRegister \/ HubUnregister \/ HubClose
      \/ \E c \in Clients, m \in Messages : SenderClose(c, m) \/ SenderDelete(c, m)
  <2>1. ASSUME NEW c \in Clients, ClientStep(c) PROVE UNCHANGED <<clients, closing, closed>>
    BY <2>1 DEF ClientStep, Connect, Register, ReaderUpdate, ReaderStore, ReaderFail,
       ReaderUnregister, ReaderClose, WriterSend, WriterSendFail, WriterPingFail,
       WriterClosed
  <2>2. ASSUME HubStep, ~HubRegister, ~HubUnregister, ~HubClose
        PROVE  UNCHANGED <<clients, closing, closed>>
    BY <2>2 DEF HubStep, RequestStop, HubExit, HubTake, HubVisit, HubVisitNil
  <2>3. ASSUME NEW c \in Clients, NEW m \in Messages, SenderStep(c, m),
               ~SenderClose(c, m), ~SenderDelete(c, m)
        PROVE  UNCHANGED <<clients, closing, closed>>
    BY <2>3 DEF SenderStep, SenderRun, SenderPanic, SenderTimeout
  <2>4. ASSUME (\E m \in Messages : WriteCall(m)) \/ WriteEnqueue \/ WriteTimeout
                 \/ MapRace \/ UNCHANGED vars
        PROVE  UNCHANGED <<clients, closing, closed>>
    BY <2>4 DEF WriteCall, WriteEnqueue, WriteTimeout, MapRace, vars
  <2>5. QED
    BY <2>1, <2>2, <2>3, <2>4 DEF Next
<1>9. QED
  BY <1>1, <1>2, <1>3, <1>4, <1>5, <1>6, <1>7, <1>8 DEF Unseen

\* The steps that change who is to be registered.
LEMMA RegisterMoves ==
    ASSUME [Next]_vars
    PROVE  \/ UNCHANGED <<handler, register>>
           \/ HubRegister
           \/ \E c \in Clients : Connect(c) \/ Register(c)
<1> USE DEF chanVars, clientVars
<1>1. ASSUME NEW c \in Clients, ClientStep(c), ~Connect(c), ~Register(c)
      PROVE  UNCHANGED <<handler, register>>
  BY <1>1 DEF ClientStep, ReaderUpdate, ReaderStore, ReaderFail, ReaderUnregister,
     ReaderClose, WriterSend, WriterSendFail, WriterPingFail, WriterClosed
<1>2. ASSUME HubStep, ~HubRegister PROVE UNCHANGED <<handler, register>>
  BY <1>2 DEF HubStep, RequestStop, HubExit, HubUnregister, HubClose, HubTake,
     HubVisit, HubVisitNil
<1>3. ASSUME NEW c \in Clients, NEW m \in Messages, SenderStep(c, m)
      PROVE  UNCHANGED <<handler, register>>
  BY <1>3 DEF SenderStep, SenderRun, SenderPanic, SenderTimeout, SenderClose,
     SenderDelete
<1>4. ASSUME (\E m \in Messages : WriteCall(m)) \/ WriteEnqueue \/ WriteTimeout
               \/ MapRace \/ UNCHANGED vars
      PROVE  UNCHANGED <<handler, register>>
  BY <1>4 DEF WriteCall, WriteEnqueue, WriteTimeout, MapRace, vars
<1>5. QED
  BY <1>1, <1>2, <1>3, <1>4 DEF Next

-----------------------------------------------------------------------------
(* The parts of the invariant are preserved.                               *)

\* A client still enters the register channel once, and the map through it.
LEMMA RegisterStep ==
    ASSUME TypeOK, RegisterInv, [Next]_vars
    PROVE  RegisterInv'
<1> USE DEF chanVars, clientVars
<1>0. /\ register \in Seq(Clients)
      /\ handler \in [Clients -> {"none", "registering", "served"}]
      /\ Range(register) \subseteq Clients
  BY RangeType DEF TypeOK
<1>1. ASSUME NEW c \in Clients, Connect(c) PROVE RegisterInv'
  <2>1. UNCHANGED register /\ \A d \in Clients : handler'[d] # "served" => handler[d] # "served"
    BY <1>0, <1>1 DEF Connect
  <2>2. \A d \in Clients : Unseen(d) => Unseen(d)'
    BY <1>1, UnseenStable DEF Connect, HubRegister
  <2>3. QED
    BY <1>0, <2>1, <2>2 DEF RegisterInv
<1>2. ASSUME NEW c \in Clients, Register(c) PROVE RegisterInv'
  <2>1. /\ register' = Append(register, c)
        /\ handler[c] # "served"
        /\ \A d \in Clients : handler'[d] # "served" => handler[d] # "served" /\ d # c
    BY <1>0, <1>2 DEF Register
  <2>2. \A d \in Clients : Unseen(d) => Unseen(d)'
    BY <1>2, UnseenStable DEF Register, HubRegister, runVars, Unseen, sendVars
  <2>3. Range(register') = Range(register) \cup {c} /\ IsInjective(register')
    BY <1>0, <2>1, AppendRange DEF RegisterInv
  <2>4. QED
    BY <1>0, <2>1, <2>2, <2>3 DEF RegisterInv
<1>3. ASSUME HubRegister PROVE RegisterInv'
  <2>1. UNCHANGED handler /\ register # <<>> /\ register' = Tail(register)
    BY <1>3 DEF HubRegister
  <2>2. \A d \in Clients : Unseen(d) /\ d # Head(register) => Unseen(d)'
    BY <1>3, UnseenStable
  <2>3. /\ Range(register) = Range(register') \cup {Head(register)}
        /\ IsInjective(register') /\ Head(register) \notin Range(register')
    BY <1>0, <2>1, TailRange DEF RegisterInv
  <2>4. QED
    BY <1>0, <2>1, <2>2, <2>3 DEF RegisterInv
<1>4. ASSUME UNCHANGED <<handler, register>> PROVE RegisterInv'
  <2>1. ~HubRegister
    <3>1. SUFFICES ASSUME HubRegister PROVE FALSE
      OBVIOUS
    <3>2. Len(register') = Len(register) - 1 /\ Len(register) \in Nat
      BY <1>0, <3>1 DEF HubRegister
    <3>3. QED
      BY <1>4, <3>2
  <2>2. \A d \in Clients : Unseen(d) => Unseen(d)'
    BY <2>1, UnseenStable
  <2>3. QED
    BY <1>0, <1>4, <2>2 DEF RegisterInv
<1>5. QED
  BY <1>1, <1>2, <1>3, <1>4, RegisterMoves

\* A message stays in one place on its way to the clients: the caller of Write,
\* the broadcast channel, or the range loop.
LEMMA BroadcastStep ==
    ASSUME TypeOK, BroadcastInv, [Next]_vars
    PROVE  BroadcastInv'
<1> USE DEF runVars, chanVars, writeVars
<1>0. /\ broadcast \in Seq(Messages) /\ Range(broadcast) \subseteq Messages
      /\ fresh \subseteq Messages /\ todo \subseteq Clients /\ clients \subseteq Clients
      /\ writing \in Messages \cup {NoMsg} /\ cur \in Messages \cup {NoMsg}
      /\ sender \in [Clients -> [Messages -> SenderStates]]
      /\ NoMsg \notin Messages
  BY RangeType, HubAssumption DEF TypeOK, HubAssumption
<1>a. ASSUME \A c \in Clients : ~HubVisit(c)
      PROVE  \A c \in Clients, m \in Messages : sender[c][m] = "none" => sender'[c][m] = "none"
  BY <1>a, NoneStable
<1>1. ASSUME NEW m \in Messages, WriteCall(m) PROVE BroadcastInv'
  <2>1. /\ m \in fresh /\ fresh' = fresh \ {m} /\ writing' = m
        /\ UNCHANGED <<broadcast, cur, todo, sender>>
    BY <1>1 DEF WriteCall, sendVars
  <2>2. QED
    BY <1>0, <2>1 DEF BroadcastInv, Pending
<1>2. ASSUME WriteEnqueue PROVE BroadcastInv'
  <2>1. /\ writing # NoMsg /\ broadcast' = Append(broadcast, writing) /\ writing' = NoMsg
        /\ UNCHANGED <<fresh, cur, todo, sender>>
    BY <1>2 DEF WriteEnqueue, sendVars
  <2>2. /\ Range(broadcast') = Range(broadcast) \cup {writing}
        /\ IsInjective(broadcast')
    BY <1>0, <2>1, AppendRange DEF BroadcastInv
  <2>3. QED
    BY <1>0, <2>1, <2>2 DEF BroadcastInv, Pending
<1>3. ASSUME WriteTimeout PROVE BroadcastInv'
  <2>1. /\ writing' = NoMsg /\ UNCHANGED <<fresh, broadcast, cur, todo, sender>>
    BY <1>3 DEF WriteTimeout, sendVars
  <2>2. QED
    BY <1>0, <2>1 DEF BroadcastInv, Pending
<1>4. ASSUME HubTake PROVE BroadcastInv'
  <2>1. /\ broadcast # <<>> /\ broadcast' = Tail(broadcast)
        /\ todo' = clients
        /\ cur' = IF clients = {} THEN NoMsg ELSE Head(broadcast)
        /\ UNCHANGED <<fresh, writing, sender>>
    BY <1>4 DEF HubTake, sendVars
  <2>2. /\ Range(broadcast) = Range(broadcast') \cup {Head(broadcast)}
        /\ IsInjective(broadcast') /\ Head(broadcast) \notin Range(broadcast')
    BY <1>0, <2>1, TailRange DEF BroadcastInv
  <2>3. QED
    BY <1>0, <2>1, <2>2 DEF BroadcastInv, Pending
<1>5. ASSUME NEW c \in Clients, HubVisit(c) PROVE BroadcastInv'
  <2>1. /\ c \in todo /\ todo' = todo \ {c}
        /\ cur' = IF todo = {c} THEN NoMsg ELSE cur
        /\ UNCHANGED <<fresh, writing, broadcast>>
    BY <1>5 DEF HubVisit
  <2>2. \A d \in Clients, n \in Messages :
           sender[d][n] = "none" /\ (d # c \/ n # cur) => sender'[d][n] = "none"
    <3>1. sender' = sender \/ sender' = [sender EXCEPT ![c][cur] = "new"]
      BY <1>5 DEF HubVisit
    <3>2. QED
      BY <1>0, <3>1
  <2>3. QED
    BY <1>0, <2>1, <2>2 DEF BroadcastInv, Pending
<1>6. ASSUME UNCHANGED <<fresh, writing, broadcast, cur, todo>>, \A c \in Clients : ~HubVisit(c)
      PROVE  BroadcastInv'
  BY <1>0, <1>a, <1>6 DEF BroadcastInv, Pending
<1>7. \/ UNCHANGED <<fresh, writing, broadcast, cur, todo>>
      \/ WriteEnqueue \/ WriteTimeout \/ HubTake
      \/ \E m \in Messages : WriteCall(m)
      \/ \E c \in Clients : HubVisit(c)
  <2>1. ASSUME NEW c \in Clients, ClientStep(c)
        PROVE  UNCHANGED <<fresh, writing, broadcast, cur, todo>>
    BY <2>1 DEF ClientStep, Connect, Register, ReaderUpdate, ReaderStore, ReaderFail,
       ReaderUnregister, ReaderClose, WriterSend, WriterSendFail, WriterPingFail, WriterClosed
  <2>2. ASSUME NEW c \in Clients, NEW m \in Messages, SenderStep(c, m)
        PROVE  UNCHANGED <<fresh, writing, broadcast, cur, todo>>
    BY <2>2 DEF SenderStep, SenderRun, SenderPanic, SenderTimeout, SenderClose, SenderDelete
  <2>3. QED
    BY <2>1, <2>2 DEF Next, vars, HubStep, RequestStop, HubExit, HubRegister,
       HubUnregister, HubClose, HubVisitNil, MapRace
<1>8. QED
  BY <1>1, <1>2, <1>3, <1>4, <1>5, <1>6, <1>7

\* What each action does to the goroutines that send.
LEMMA SenderMoves ==
    ASSUME [Next]_vars
    PROVE  \/ UNCHANGED sender
           \/ \E c \in Clients : ReceiveSend(c) /\ UNCHANGED closed
           \/ \E c \in Clients : HubVisit(c)
           \/ \E c \in Clients, m \in Messages :
                SenderRun(c, m) \/ SenderTimeout(c, m) \/ SenderClose(c, m) \/ SenderDelete(c, m)
  BY DEF Next, vars, ClientStep, HubStep, SenderStep, Connect, Register, ReaderUpdate,
     ReaderStore, ReaderFail, ReaderUnregister, ReaderClose, WriterSend, WriterSendFail,
     WriterPingFail, WriterClosed, WriteCall, WriteEnqueue, WriteTimeout, RequestStop,
     HubExit, HubRegister, HubUnregister, HubClose, HubTake, HubVisitNil, SenderPanic,
     MapRace, sendVars

\* The two places that close a channel.
LEMMA ClosedMoves ==
    ASSUME [Next]_vars
    PROVE  \/ UNCHANGED closed
           \/ HubClose
           \/ \E c \in Clients, m \in Messages : SenderClose(c, m)
  BY DEF Next, vars, ClientStep, HubStep, SenderStep, Connect, Register, ReaderUpdate,
     ReaderStore, ReaderFail, ReaderUnregister, ReaderClose, WriterSend, WriterSendFail,
     WriterPingFail, WriterClosed, WriteCall, WriteEnqueue, WriteTimeout, RequestStop,
     HubExit, HubRegister, HubUnregister, HubTake, HubVisit, HubVisitNil, SenderRun,
     SenderPanic, SenderTimeout, SenderDelete, MapRace, sendVars

\* The steps that change the map, or what run is about to close.
LEMMA MapMoves ==
    ASSUME [Next]_vars
    PROVE  \/ UNCHANGED <<clients, closing>>
           \/ HubRegister \/ HubUnregister \/ HubClose
           \/ \E c \in Clients, m \in Messages : SenderDelete(c, m)
  BY DEF Next, vars, ClientStep, HubStep, SenderStep, Connect, Register, ReaderUpdate,
     ReaderStore, ReaderFail, ReaderUnregister, ReaderClose, WriterSend, WriterSendFail,
     WriterPingFail, WriterClosed, WriteCall, WriteEnqueue, WriteTimeout, RequestStop,
     HubExit, HubTake, HubVisit, HubVisitNil, SenderRun, SenderPanic, SenderTimeout,
     SenderClose, MapRace, runVars

\* A closed channel stays closed.
LEMMA ClosedStable ==
    ASSUME TypeOK, [Next]_vars, NEW d \in Clients, closed[d]
    PROVE  closed'[d]
<1>0. closed \in [Clients -> BOOLEAN]
  BY DEF TypeOK
<1>1. \/ UNCHANGED closed
      \/ HubClose
      \/ \E c \in Clients, m \in Messages : SenderClose(c, m)
  BY ClosedMoves
<1>2. CASE HubClose
  BY <1>0, <1>2 DEF HubClose
<1>3. ASSUME NEW c \in Clients, NEW m \in Messages, SenderClose(c, m) PROVE closed'[d]
  BY <1>0, <1>3 DEF SenderClose
<1>4. QED
  BY <1>1, <1>2, <1>3

\* run closes channels of clients that are out of the map.
LEMMA ClosingStep ==
    ASSUME CloseInv, [Next]_vars
    PROVE  (clients \cap closing = {} /\ \A c, d \in closing : c = d)'
<1>1. clients \cap closing = {} /\ \A c, d \in closing : c = d
  BY DEF CloseInv
<1>2. CASE UNCHANGED <<clients, closing>>
  BY <1>1, <1>2
<1>3. CASE HubRegister
  BY <1>3 DEF HubRegister, AtSelect
<1>4. CASE HubUnregister
  BY <1>4 DEF HubUnregister
<1>5. CASE HubClose
  BY <1>5 DEF HubClose
<1>6. ASSUME NEW k \in Clients, NEW m \in Messages, SenderDelete(k, m)
      PROVE  (clients \cap closing = {} /\ \A c, d \in closing : c = d)'
  BY <1>1, <1>6 DEF SenderDelete
<1>7. QED
  BY <1>2, <1>3, <1>4, <1>5, <1>6, MapMoves

\* A goroutine that is about to delete a client has closed its channel.
LEMMA CloseStep ==
    ASSUME TypeOK, CloseInv, [Next]_vars
    PROVE  CloseInv'
<1>1. SUFFICES ASSUME NEW d \in Clients, NEW n \in Messages, sender'[d][n] = "closed"
               PROVE  closed'[d]
  BY ClosingStep DEF CloseInv
<1>2. sender \in [Clients -> [Messages -> SenderStates]] /\ closed \in [Clients -> BOOLEAN]
  BY DEF TypeOK
<1>3. CASE sender[d][n] = "closed"
  BY <1>3, ClosedStable DEF CloseInv
<1>4. CASE sender[d][n] # "closed"
  <2>1. ASSUME NEW c \in Clients, ReceiveSend(c) PROVE FALSE
    BY <1>1, <1>2, <1>4, <2>1 DEF ReceiveSend
  <2>2. ASSUME NEW c \in Clients, HubVisit(c) PROVE FALSE
    <3>1. sender' = sender \/ sender' = [sender EXCEPT ![c][cur] = "new"]
      BY <2>2 DEF HubVisit
    <3>2. QED
      BY <1>1, <1>2, <1>4, <3>1
  <2>3. ASSUME NEW c \in Clients, NEW m \in Messages,
               SenderRun(c, m) \/ SenderTimeout(c, m) \/ SenderDelete(c, m)
        PROVE  FALSE
    BY <1>1, <1>2, <1>4, <2>3 DEF SenderRun, SenderTimeout, SenderDelete
  <2>4. ASSUME NEW c \in Clients, NEW m \in Messages, SenderClose(c, m)
        PROVE  closed'[d]
    BY <1>1, <1>2, <1>4, <2>4 DEF SenderClose
  <2>5. QED
    BY <1>1, <1>4, <2>1, <2>2, <2>3, <2>4, SenderMoves
<1>5. QED
  BY <1>3, <1>4

\* A closed channel leaves the map with its client, by run's unregister case or
\* by the timed out sender that closed it.
LEMMA ClosedStep ==
    ASSUME TypeOK, RegisterInv, BroadcastInv, CloseInv, ClosedNotRegistered, [Next]_vars
    PROVE  ClosedNotRegistered'
<1>1. SUFFICES ASSUME NEW d \in Clients, closed'[d], d \in clients'
               PROVE  \E n \in Messages : sender'[d][n] = "closed"
  BY DEF ClosedNotRegistered
<1>2. /\ sender \in [Clients -> [Messages -> SenderStates]]
      /\ closed \in [Clients -> BOOLEAN]
      /\ register \in Seq(Clients) /\ todo \subseteq Clients
  BY DEF TypeOK
<1>3. ASSUME HubRegister, d = Head(register) PROVE FALSE
  <2>1. register # <<>> /\ UNCHANGED closed
    BY <1>3 DEF HubRegister, sendVars
  <2>2. Head(register) \in Range(register)
    BY <1>2, <2>1, TailRange
  <2>3. QED
    BY <1>1, <1>3, <2>1, <2>2 DEF RegisterInv, Unseen
<1>4. ASSUME NEW c \in Clients, NEW m \in Messages, SenderClose(c, m), ~closed[d]
      PROVE  sender'[d][m] = "closed"
  <2>1. /\ closed' = [closed EXCEPT ![c] = TRUE]
        /\ sender' = [sender EXCEPT ![c][m] = "closed"]
    BY <1>1, <1>4 DEF SenderClose
  <2>2. QED
    BY <1>1, <1>2, <1>4, <2>1
<1>5. ASSUME HubClose, ~closed[d] PROVE FALSE
  <2>1. d \in closing /\ UNCHANGED clients
    BY <1>1, <1>2, <1>5 DEF HubClose
  <2>2. QED
    BY <1>1, <2>1 DEF CloseInv
<1>6. CASE ~closed[d]
  BY <1>1, <1>4, <1>5, <1>6, ClosedMoves
<1>7. CASE closed[d] /\ d \notin clients
  <2>1. HubRegister \/ clients' \subseteq clients
    BY MapMoves DEF HubUnregister, HubClose, SenderDelete
  <2>2. CASE HubRegister
    BY <1>1, <1>3, <1>7, <2>2 DEF HubRegister
  <2>3. QED
    BY <1>1, <1>7, <2>1, <2>2
<1>8. CASE closed[d] /\ d \in clients
  <2>1. PICK n \in Messages : sender[d][n] = "closed"
    BY <1>8 DEF ClosedNotRegistered
  <2>2. ASSUME NEW c \in Clients, ReceiveSend(c) PROVE sender'[d][n] = "closed"
    BY <1>2, <2>1, <2>2 DEF ReceiveSend
  <2>3. ASSUME NEW c \in Clients, HubVisit(c) PROVE sender'[d][n] = "closed"
    <3>1. c \in todo /\ (sender' = sender \/ sender' = [sender EXCEPT ![c][cur] = "new"])
      BY <2>3 DEF HubVisit
    <3>2. sender[c][cur] = "none"
      BY <3>1 DEF BroadcastInv
    <3>3. QED
      BY <1>2, <2>1, <3>1, <3>2
  <2>4. ASSUME NEW c \in Clients, NEW m \in Messages,
               SenderRun(c, m) \/ SenderTimeout(c, m) \/ SenderClose(c, m)
        PROVE  sender'[d][n] = "closed"
    <3>1. sender[c][m] # "closed"
      BY <2>4 DEF SenderRun, SenderTimeout, SenderClose
    <3>2. \/ UNCHANGED sender
          \/ sender' = [sender EXCEPT ![c][m] = "sent"]
          \/ sender' = [sender EXCEPT ![c][m] = "parked"]
          \/ sender' = [sender EXCEPT ![c][m] = "expired"]
          \/ sender' = [sender EXCEPT ![c][m] = "closed"]
      BY <2>4 DEF SenderRun, SenderTimeout, SenderClose
    <3>3. QED
      BY <1>2, <2>1, <3>1, <3>2
  <2>5. ASSUME NEW c \in Clients, NEW m \in Messages, SenderDelete(c, m)
        PROVE  sender'[d][n] = "closed"
    <3>1. c # d /\ sender' = [sender EXCEPT ![c][m] = "dropped"]
      BY <1>1, <2>5 DEF SenderDelete
    <3>2. QED
      BY <1>2, <2>1, <3>1
  <2>6. QED
    BY <2>1, <2>2, <2>3, <2>4, <2>5, SenderMoves
<1>9. QED
  BY <1>2, <1>6, <1>7, <1>8

\* A client that leaves the map leaves it closed, or run is about to close it.
LEMMA DroppedStep ==
    ASSUME TypeOK, RegisterInv, CloseInv, DroppedMeansClosed, [Next]_vars
    PROVE  DroppedMeansClosed'
<1>1. SUFFICES ASSUME NEW d \in Clients, handler'[d] = "served",
                      d \notin Range(register'), d \notin clients', ~closed'[d]
               PROVE  d \in closing'
  BY DEF DroppedMeansClosed
<1>2. /\ register \in Seq(Clients) /\ handler \in [Clients -> {"none", "registering", "served"}]
      /\ closed \in [Clients -> BOOLEAN]
  BY DEF TypeOK
<1>3. ~closed[d]
  BY <1>1, ClosedStable
<1>4. CASE handler[d] # "served"
  <2>1. PICK c \in Clients : Register(c)
    <3>1. ASSUME NEW c \in Clients, Connect(c) PROVE FALSE
      BY <1>1, <1>2, <1>4, <3>1 DEF Connect
    <3>2. ~HubRegister
      BY <1>1, <1>4 DEF HubRegister, clientVars
    <3>3. QED
      BY <1>1, <1>4, <3>1, <3>2, RegisterMoves
  <2>2. d = c /\ register' = Append(register, c)
    BY <1>1, <1>2, <1>4, <2>1 DEF Register
  <2>3. Range(register') = Range(register) \cup {c}
    BY <1>2, <2>2, AppendRange
  <2>4. QED
    BY <1>1, <2>2, <2>3
<1>5. CASE handler[d] = "served" /\ d \in Range(register)
  <2>1. ASSUME NEW c \in Clients, Register(c) PROVE FALSE
    <3>1. register' = Append(register, c)
      BY <2>1 DEF Register
    <3>2. Range(register') = Range(register) \cup {c}
      BY <1>2, <3>1, AppendRange
    <3>3. QED
      BY <1>1, <1>5, <3>2
  <2>2. ASSUME NEW c \in Clients, Connect(c) PROVE FALSE
    BY <1>1, <1>5, <2>2 DEF Connect, chanVars
  <2>3. HubRegister
    BY <1>1, <1>5, <2>1, <2>2, RegisterMoves
  <2>4. register # <<>> /\ register' = Tail(register) /\ clients' = clients \cup {Head(register)}
    BY <2>3 DEF HubRegister
  <2>5. Range(register) = Range(register') \cup {Head(register)}
    BY <1>2, <2>4, TailRange
  <2>6. QED
    BY <1>1, <1>5, <2>4, <2>5
<1>6. CASE handler[d] = "served" /\ d \notin Range(register) /\ d \notin clients
  <2>1. d \in closing
    BY <1>3, <1>6 DEF DroppedMeansClosed
  <2>2. ASSUME HubClose PROVE FALSE
    <3>1. \A c \in closing : c = d
      BY <2>1 DEF CloseInv
    <3>2. QED
      BY <1>1, <1>2, <1>3, <2>2, <3>1 DEF HubClose
  <2>3. ASSUME NEW c \in Clients, NEW m \in Messages, SenderDelete(c, m)
        PROVE  UNCHANGED closing
    BY <2>3 DEF SenderDelete
  <2>4. ~HubUnregister
    BY <2>1 DEF HubUnregister, AtSelect
  <2>5. ~HubRegister
    BY <2>1 DEF HubRegister, AtSelect
  <2>6. QED
    BY <2>1, <2>2, <2>3, <2>4, <2>5, MapMoves
<1>7. CASE handler[d] = "served" /\ d \in clients
  <2>1. CASE HubUnregister
    BY <1>1, <1>7, <2>1 DEF HubUnregister
  <2>2. ASSUME NEW c \in Clients, NEW m \in Messages, SenderDelete(c, m) PROVE FALSE
    <3>1. d = c /\ sender[c][m] = "closed"
      BY <1>1, <1>7, <2>2 DEF SenderDelete
    <3>2. QED
      BY <1>3, <3>1 DEF CloseInv
  <2>3. ~HubRegister /\ ~HubClose
    BY <1>1, <1>7 DEF HubRegister, HubClose
  <2>4. QED
    BY <1>1, <1>7, <2>1, <2>2, <2>3, MapMoves
<1>8. QED
  BY <1>4, <1>5, <1>6, <1>7

\* A message enters a client's stream when its goroutine moves to "sent", which
\* happens once, and keeps its place there.
LEMMA StreamStep ==
    ASSUME TypeOK, BroadcastInv, StreamInv, [Next]_vars
    PROVE  StreamInv'
<1>1. /\ sender \in [Clients -> [Messages -> SenderStates]]
      /\ send \in [Clients -> Seq(Messages)]
      /\ delivered \in [Clients -> Seq(Messages)]
  BY DEF TypeOK
<1>2. \A d \in Clients : Range(send[d]) \subseteq Messages /\ Range(delivered[d]) \subseteq Messages
  BY <1>1, RangeType
<1>3. ASSUME UNCHANGED <<send, delivered>>,
             \A d \in Clients, n \in Messages : sender[d][n] = "sent" => sender'[d][n] = "sent"
      PROVE  StreamInv'
  BY <1>2, <1>3 DEF StreamInv, StreamOK
<1>4. ASSUME NEW c \in Clients, NEW m \in Messages, SenderRun(c, m) PROVE StreamInv'
  <2>1. /\ sender[c][m] = "new"
        /\ UNCHANGED delivered
        /\ \/ /\ send' = [send EXCEPT ![c] = Append(send[c], m)]
              /\ sender' = [sender EXCEPT ![c][m] = "sent"]
           \/ /\ sender' = [sender EXCEPT ![c][m] = "parked"]
              /\ UNCHANGED send
    BY <1>4 DEF SenderRun
  <2>2. CASE sender' = [sender EXCEPT ![c][m] = "parked"] /\ UNCHANGED send
    BY <1>1, <1>3, <2>1, <2>2
  <2>3. CASE /\ send' = [send EXCEPT ![c] = Append(send[c], m)]
             /\ sender' = [sender EXCEPT ![c][m] = "sent"]
    <3>1. m \notin Range(send[c]) \cup Range(delivered[c])
      BY <2>1 DEF StreamInv, StreamOK
    <3>2. /\ Range(Append(send[c], m)) = Range(send[c]) \cup {m}
          /\ IsInjective(Append(send[c], m))
      BY <1>1, <3>1, AppendRange DEF StreamInv, StreamOK
    <3>3. StreamOK(Append(send[c], m), delivered[c], [sender[c] EXCEPT ![m] = "sent"])
      BY <1>1, <1>2, <3>1, <3>2 DEF StreamInv, StreamOK
    <3>4. QED
      BY <1>1, <2>1, <2>3, <3>3 DEF StreamInv
  <2>4. QED
    BY <2>1, <2>2, <2>3
<1>5. ASSUME NEW c \in Clients, ReceiveSend(c),
             \/ UNCHANGED delivered
             \/ delivered' = [delivered EXCEPT ![c] = Append(delivered[c], Head(send[c]))]
      PROVE  StreamInv'
  <2> DEFINE h == Head(send[c])
  <2>1. /\ send[c] # <<>>
        /\ StreamOK(send[c], delivered[c], sender[c])
    BY <1>5 DEF StreamInv, ReceiveSend
  <2>2. /\ Range(send[c]) = Range(Tail(send[c])) \cup {h}
        /\ IsInjective(Tail(send[c])) /\ h \notin Range(Tail(send[c]))
        /\ Tail(send[c]) \in Seq(Messages)
        /\ h \in Messages /\ h \notin Range(delivered[c])
    <3>1. Tail(send[c]) \in Seq(Messages)
      BY <1>1, <2>1
    <3>2. QED
      BY <1>1, <1>2, <2>1, <3>1, TailRange DEF StreamOK
  <2>3. /\ Range(Append(delivered[c], h)) = Range(delivered[c]) \cup {h}
        /\ IsInjective(Append(delivered[c], h))
    BY <1>1, <2>1, <2>2, AppendRange DEF StreamOK
  <2>4. /\ StreamOK(Tail(send[c]), delivered[c], sender[c])
        /\ StreamOK(Tail(send[c]), Append(delivered[c], h), sender[c])
    BY <2>1, <2>2, <2>3 DEF StreamOK
  <2>5. CASE send' = [send EXCEPT ![c] = Tail(send[c])] /\ UNCHANGED sender
    BY <1>1, <1>5, <2>4, <2>5 DEF StreamInv
  <2>6. ASSUME NEW m \in Messages, sender[c][m] = "parked",
               send' = [send EXCEPT ![c] = Append(Tail(send[c]), m)],
               sender' = [sender EXCEPT ![c][m] = "sent"]
        PROVE  StreamInv'
    <3>1. m \notin Range(Tail(send[c])) \cup Range(delivered[c]) \cup {h}
      BY <2>1, <2>2, <2>6 DEF StreamOK
    <3>2. /\ Range(Append(Tail(send[c]), m)) = Range(Tail(send[c])) \cup {m}
          /\ IsInjective(Append(Tail(send[c]), m))
      <4> DEFINE t == Tail(send[c])
      <4>1. t \in Seq(Messages) /\ IsInjective(t) /\ m \notin Range(t)
        BY <2>2, <3>1
      <4> HIDE DEF t
      <4>2. Range(Append(t, m)) = Range(t) \cup {m} /\ IsInjective(Append(t, m))
        BY <4>1, AppendRange
      <4>3. QED
        BY <4>2 DEF t
    <3>3. \A n \in Messages : sender[c][n] = "sent" \/ n = m
              => [sender[c] EXCEPT ![m] = "sent"][n] = "sent"
      BY <1>1
    <3>4. /\ Range(delivered[c]) \subseteq Messages
          /\ Range(Tail(send[c])) \subseteq Messages
      BY <1>2, <2>2
    <3>5. /\ StreamOK(Append(Tail(send[c]), m), delivered[c], [sender[c] EXCEPT ![m] = "sent"])
          /\ StreamOK(Append(Tail(send[c]), m), Append(delivered[c], h),
                      [sender[c] EXCEPT ![m] = "sent"])
      BY <2>2, <2>3, <2>4, <3>1, <3>2, <3>3, <3>4 DEF StreamOK
    <3>6. QED
      BY <1>1, <1>5, <2>6, <3>5 DEF StreamInv
  <2>7. QED
    BY <1>5, <2>5, <2>6 DEF ReceiveSend
<1>6. ASSUME NEW c \in Clients, HubVisit(c), sender[c][cur] = "none" PROVE StreamInv'
  <2>1. /\ UNCHANGED <<send, delivered>>
        /\ sender' = sender \/ sender' = [sender EXCEPT ![c][cur] = "new"]
    BY <1>6 DEF HubVisit
  <2>2. \A d \in Clients, n \in Messages : sender[d][n] = "sent" => sender'[d][n] = "sent"
    <3>1. ASSUME NEW d \in Clients, NEW n \in Messages, sender[d][n] = "sent",
                 sender' = [sender EXCEPT ![c][cur] = "new"]
          PROVE  sender'[d][n] = "sent"
      <4>1. d = c => n # cur
        BY <1>6, <3>1
      <4>2. sender'[d] = IF d = c THEN [sender[c] EXCEPT ![cur] = "new"] ELSE sender[d]
        BY <1>1, <3>1
      <4>3. QED
        BY <1>1, <3>1, <4>1, <4>2
    <3>2. QED
      BY <2>1, <3>1
  <2>3. QED
    BY <1>3, <2>1, <2>2
<1>7. ASSUME NEW c \in Clients, NEW m \in Messages,
             SenderTimeout(c, m) \/ SenderClose(c, m) \/ SenderDelete(c, m)
      PROVE  StreamInv'
  <2>1. /\ sender[c][m] # "sent"
        /\ UNCHANGED <<send, delivered>>
        /\ \/ UNCHANGED sender
           \/ sender' = [sender EXCEPT ![c][m] = "expired"]
           \/ sender' = [sender EXCEPT ![c][m] = "closed"]
           \/ sender' = [sender EXCEPT ![c][m] = "dropped"]
    BY <1>7 DEF SenderTimeout, SenderClose, SenderDelete
  <2>2. \A d \in Clients, n \in Messages : sender[d][n] = "sent" => sender'[d][n] = "sent"
    <3>1. ASSUME NEW state, sender' = [sender EXCEPT ![c][m] = state],
                 NEW d \in Clients, NEW n \in Messages, sender[d][n] = "sent"
          PROVE  sender'[d][n] = "sent"
      BY <1>1, <2>1, <3>1
    <3>2. QED
      BY <2>1, <3>1
  <2>3. QED
    BY <1>3, <2>1, <2>2
<1>8. \/ UNCHANGED <<send, delivered, sender>>
      \/ \E c \in Clients :
           \/ /\ ReceiveSend(c)
              /\ \/ UNCHANGED delivered
                 \/ delivered' = [delivered EXCEPT ![c] = Append(delivered[c], Head(send[c]))]
           \/ HubVisit(c)
      \/ \E c \in Clients, m \in Messages :
           SenderRun(c, m) \/ SenderTimeout(c, m) \/ SenderClose(c, m) \/ SenderDelete(c, m)
  <2> USE DEF sendVars
  <2>1. ASSUME NEW c \in Clients, ClientStep(c), ~WriterSend(c), ~WriterSendFail(c)
        PROVE  UNCHANGED <<send, delivered, sender>>
    BY <2>1 DEF ClientStep, Connect, Register, ReaderUpdate, ReaderStore, ReaderFail,
       ReaderUnregister, ReaderClose, WriterPingFail, WriterClosed
  <2>2. ASSUME NEW c \in Clients, WriterSend(c) \/ WriterSendFail(c)
        PROVE  /\ ReceiveSend(c)
               /\ \/ UNCHANGED delivered
                  \/ delivered' = [delivered EXCEPT ![c] = Append(delivered[c], Head(send[c]))]
    BY <2>2 DEF WriterSend, WriterSendFail
  <2>3. CASE HubStep \/ MapRace \/ WriteEnqueue \/ WriteTimeout \/ UNCHANGED vars
    BY <2>3 DEF HubStep, RequestStop, HubExit, HubRegister, HubUnregister, HubClose,
       HubTake, HubVisitNil, MapRace, WriteEnqueue, WriteTimeout, vars
  <2>4. ASSUME NEW m \in Messages, WriteCall(m) PROVE UNCHANGED <<send, delivered, sender>>
    BY <2>4 DEF WriteCall
  <2>5. ASSUME NEW c \in Clients, NEW m \in Messages, SenderPanic(c, m)
        PROVE  UNCHANGED <<send, delivered, sender>>
    BY <2>5 DEF SenderPanic
  <2>6. QED
    BY <2>1, <2>2, <2>3, <2>4, <2>5 DEF Next, SenderStep
<1>9. ASSUME NEW c \in Clients, HubVisit(c) PROVE sender[c][cur] = "none"
  BY <1>9 DEF HubVisit, BroadcastInv
<1>10. QED
  BY <1>3, <1>4, <1>5, <1>6, <1>7, <1>8, <1>9

\* Options reach c.options only from a request or an update of the client.
LEMMA OptionsStep ==
    ASSUME TypeOK, OptionsInv, [Next]_vars
    PROVE  OptionsInv'
<1> USE DEF clientVars, filterVars
<1>0. /\ handler \in [Clients -> {"none", "registering", "served"}]
      /\ reader \in [Clients -> {"off", "reading", "unregistering", "closing", "done"}]
      /\ options \in [Clients -> Options] /\ incoming \in [Clients -> NoUpdate]
      /\ watched \in [Clients -> SUBSET Options]
  BY DEF TypeOK
<1>1. ASSUME NEW c \in Clients, Connect(c) PROVE OptionsInv'
  <2>1. PICK o : /\ options' = [options EXCEPT ![c] = o]
                 /\ watched' = [watched EXCEPT ![c] = {o}]
    BY <1>1 DEF Connect
  <2>2. /\ handler[c] = "none" /\ handler' = [handler EXCEPT ![c] = "registering"]
        /\ UNCHANGED <<incoming, reader>>
    BY <1>1 DEF Connect
  <2>3. QED
    BY <1>0, <2>1, <2>2 DEF OptionsInv
<1>2. ASSUME NEW c \in Clients, Register(c) PROVE OptionsInv'
  <2>1. /\ handler[c] = "registering"
        /\ handler' = [handler EXCEPT ![c] = "served"]
        /\ reader' = [reader EXCEPT ![c] = "reading"]
        /\ UNCHANGED <<options, incoming, watched>>
    BY <1>2 DEF Register
  <2>2. QED
    BY <1>0, <2>1 DEF OptionsInv
<1>3. ASSUME NEW c \in Clients, ReaderUpdate(c) PROVE OptionsInv'
  <2>1. PICK o : /\ incoming' = [incoming EXCEPT ![c] = o]
                 /\ watched' = [watched EXCEPT ![c] = watched[c] \cup {o}]
    BY <1>3 DEF ReaderUpdate
  <2>2. reader[c] = "reading" /\ UNCHANGED <<handler, reader, options>>
    BY <1>3 DEF ReaderUpdate
  <2>3. QED
    BY <1>0, <2>1, <2>2 DEF OptionsInv
<1>4. ASSUME NEW c \in Clients, ReaderStore(c) PROVE OptionsInv'
  <2>1. /\ incoming[c] # NoOptions
        /\ options' = [options EXCEPT ![c] = incoming[c]]
        /\ incoming' = [incoming EXCEPT ![c] = NoOptions]
        /\ UNCHANGED <<handler, reader, watched>>
    BY <1>4 DEF ReaderStore
  <2>2. QED
    BY <1>0, <2>1 DEF OptionsInv
<1>5. ASSUME NEW c \in Clients, reader[c] # "off",
             \E state : reader' = [reader EXCEPT ![c] = state],
             UNCHANGED <<handler, options, incoming, watched>>
      PROVE  OptionsInv'
  BY <1>0, <1>5 DEF OptionsInv
<1>6. ASSUME NEW c \in Clients, ReaderFail(c) \/ ReaderUnregister(c) \/ ReaderClose(c)
      PROVE  OptionsInv'
  <2>1. /\ reader[c] # "off"
        /\ \E state : reader' = [reader EXCEPT ![c] = state]
        /\ UNCHANGED <<handler, options, incoming, watched>>
    BY <1>6 DEF ReaderFail, ReaderUnregister, ReaderClose
  <2>2. QED
    BY <1>5, <2>1
<1>7. ASSUME UNCHANGED <<handler, reader, options, incoming, watched>> PROVE OptionsInv'
  BY <1>7 DEF OptionsInv
<1>8. \/ UNCHANGED <<handler, reader, options, incoming, watched>>
      \/ \E c \in Clients :
           \/ Connect(c) \/ Register(c) \/ ReaderUpdate(c) \/ ReaderStore(c)
           \/ ReaderFail(c) \/ ReaderUnregister(c) \/ ReaderClose(c)
  <2>1. ASSUME NEW c \in Clients,
               WriterSend(c) \/ WriterSendFail(c) \/ WriterPingFail(c) \/ WriterClosed(c)
        PROVE  UNCHANGED <<handler, reader, options, incoming, watched>>
    BY <2>1 DEF WriterSend, WriterSendFail, WriterPingFail, WriterClosed
  <2>2. ASSUME NEW c \in Clients, NEW m \in Messages, SenderStep(c, m)
        PROVE  UNCHANGED <<handler, reader, options, incoming, watched>>
    BY <2>2 DEF SenderStep, SenderRun, SenderPanic, SenderTimeout, SenderClose, SenderDelete
  <2>3. CASE HubStep \/ MapRace \/ WriteEnqueue \/ WriteTimeout \/ UNCHANGED vars
    BY <2>3 DEF HubStep, RequestStop, HubExit, HubRegister, HubUnregister, HubClose,
       HubTake, HubVisitNil, HubVisit, MapRace, WriteEnqueue, WriteTimeout, vars
  <2>4. ASSUME NEW m \in Messages, WriteCall(m)
        PROVE  UNCHANGED <<handler, reader, options, incoming, watched>>
    BY <2>4 DEF WriteCall
  <2>5. QED
    BY <2>1, <2>2, <2>3, <2>4 DEF Next, ClientStep
<1>9. QED
  BY <1>1, <1>2, <1>3, <1>4, <1>6, <1>7, <1>8

\* Options ShouldSend may read, torn or not, have their level from options the
\* client asked for, and their application name too.
LEMMA VisibleWereAsked ==
    ASSUME OptionsInv, NEW c \in Clients, handler[c] # "none", NEW o \in VisibleOptions(c)
    PROVE  /\ \E w \in watched[c] : w.Severity = o.Severity
           /\ \E w \in watched[c] : w.AppName = o.AppName
<1>1. CASE incoming[c] = NoOptions
  BY <1>1 DEF VisibleOptions, OptionsInv
<1>2. CASE incoming[c] # NoOptions
  <2>1. /\ o.Severity \in {options[c].Severity, incoming[c].Severity}
        /\ o.AppName \in {options[c].AppName, incoming[c].AppName}
    BY <1>2 DEF VisibleOptions, TornReads
  <2>2. options[c] \in watched[c] /\ incoming[c] \in watched[c]
    BY <1>2 DEF OptionsInv
  <2>3. QED
    BY <2>1, <2>2
<1>3. QED
  BY <1>1, <1>2

\* What a connected client has asked for is not forgotten.
LEMMA WatchedGrows ==
    ASSUME TypeOK, [Next]_vars, NEW d \in Clients, handler[d] # "none"
    PROVE  watched[d] \subseteq watched'[d]
<1> USE DEF filterVars
<1>0. watched \in [Clients -> SUBSET Options]
  BY DEF TypeOK
<1>1. ASSUME NEW c \in Clients, Connect(c) PROVE watched'[d] = watched[d]
  BY <1>0, <1>1 DEF Connect
<1>2. ASSUME NEW c \in Clients, ReaderUpdate(c) PROVE watched[d] \subseteq watched'[d]
  BY <1>0, <1>2 DEF ReaderUpdate
<1>3. \/ UNCHANGED watched
      \/ \E c \in Clients : Connect(c) \/ ReaderUpdate(c)
  <2>1. ASSUME NEW c \in Clients, ClientStep(c), ~Connect(c), ~ReaderUpdate(c)
        PROVE  UNCHANGED watched
    BY <2>1 DEF ClientStep, Register, ReaderStore, ReaderFail, ReaderUnregister,
       ReaderClose, WriterSend, WriterSendFail, WriterPingFail, WriterClosed
  <2>2. ASSUME NEW c \in Clients, NEW m \in Messages, SenderStep(c, m)
        PROVE  UNCHANGED watched
    BY <2>2 DEF SenderStep, SenderRun, SenderPanic, SenderTimeout, SenderClose, SenderDelete
  <2>3. CASE HubStep \/ MapRace \/ WriteEnqueue \/ WriteTimeout \/ UNCHANGED vars
    BY <2>3 DEF HubStep, RequestStop, HubExit, HubRegister, HubUnregister, HubClose,
       HubTake, HubVisitNil, HubVisit, MapRace, WriteEnqueue, WriteTimeout, vars
  <2>4. ASSUME NEW m \in Messages, WriteCall(m) PROVE UNCHANGED watched
    BY <2>4 DEF WriteCall
  <2>5. QED
    BY <2>1, <2>2, <2>3, <2>4 DEF Next
<1>4. QED
  BY <1>1, <1>2, <1>3

\* A sender is started only for a message that options the client asked for
\* allow.
LEMMA FilterStep ==
    ASSUME TypeOK, RegisterInv, OptionsInv, FilterRespected, [Next]_vars
    PROVE  FilterRespected'
<1>1. SUFFICES ASSUME NEW d \in Clients, NEW n \in Messages, sender'[d][n] # "none"
               PROVE  /\ \E o \in watched'[d] : LevelAllows(o, Attr[n])
                      /\ \E o \in watched'[d] : AppAllows(o, Attr[n])
  BY DEF FilterRespected
<1>2. CASE sender[d][n] # "none"
  <2>1. handler[d] # "none"
    BY <1>2 DEF RegisterInv, Unseen
  <2>2. watched[d] \subseteq watched'[d]
    BY <2>1, WatchedGrows
  <2>3. QED
    BY <1>2, <2>2 DEF FilterRespected
<1>3. CASE sender[d][n] = "none"
  <2>1. HubVisit(d) /\ n = cur
    BY <1>1, <1>3, NoneStable
  <2>2. d \in clients /\ UNCHANGED watched
    BY <1>1, <1>3, <2>1 DEF HubVisit, filterVars
  <2>3. PICK o \in VisibleOptions(d) : ShouldSend(o, Attr[cur])
    BY <1>1, <1>3, <2>1 DEF HubVisit
  <2>4. handler[d] # "none"
    BY <2>2 DEF RegisterInv, Unseen
  <2>5. PICK w1 \in watched[d] : w1.Severity = o.Severity
    BY <2>3, <2>4, VisibleWereAsked
  <2>6. PICK w2 \in watched[d] : w2.AppName = o.AppName
    BY <2>3, <2>4, VisibleWereAsked
  <2>7. LevelAllows(w1, Attr[n]) /\ AppAllows(w2, Attr[n])
    BY <2>1, <2>3, <2>5, <2>6 DEF ShouldSend, LevelAllows, AppAllows
  <2>8. QED
    BY <2>2, <2>7
<1>4. QED
  BY <1>2, <1>3

-----------------------------------------------------------------------------
(* Theorems                                                                *)

\* The inductive invariant of the hub: the types, and the paths that clients,
\* messages and options take through it.
HubInv ==
    /\ TypeOK /\ RegisterInv /\ BroadcastInv /\ CloseInv /\ StreamInv
    /\ OptionsInv /\ ClosedNotRegistered /\ DroppedMeansClosed /\ FilterRespected

\* The invariant holds when the hub starts.
LEMMA HubInvInit == Init => HubInv
<1> SUFFICES ASSUME Init PROVE HubInv
  OBVIOUS
<1>1. TypeOK
  BY TypeInit
<1>2. Range(<<>>) = {} /\ IsInjective(<<>>)
  BY DEF Range, IsInjective
<1>3. RegisterInv /\ CloseInv /\ ClosedNotRegistered /\ DroppedMeansClosed /\ FilterRespected
  BY <1>2 DEF Init, RegisterInv, Unseen, CloseInv, ClosedNotRegistered, DroppedMeansClosed,
     FilterRespected
<1>4. BroadcastInv
  BY <1>2, HubAssumption DEF HubAssumption, Init, BroadcastInv, Pending
<1>5. StreamInv
  BY <1>2 DEF Init, StreamInv, StreamOK
<1>6. OptionsInv
  BY DEF Init, OptionsInv
<1>7. QED
  BY <1>1, <1>3, <1>4, <1>5, <1>6 DEF HubInv

\* Every step of the hub and its clients preserves the invariant.
LEMMA HubInvNext == HubInv /\ [Next]_vars => HubInv'
  BY TypeNext, RegisterStep, BroadcastStep, CloseStep, StreamStep, OptionsStep,
     ClosedStep, DroppedStep, FilterStep DEF HubInv

\* The parts of the invariant hold together in every reachable state of the
\* hub.
THEOREM HubInvariant == Spec => []HubInv
<1>1. QED
  BY HubInvInit, HubInvNext, PTL DEF Spec

\* The hub's map never holds a client whose channel is closed, outside of the
\* window between the close and the delete of a timed out sender.
THEOREM ClosedNeverRegistered == Spec => []ClosedNotRegistered
<1>1. HubInv => ClosedNotRegistered
  BY DEF HubInv
<1>2. QED
  BY <1>1, HubInvariant, PTL

\* Two sequences without duplicates or common elements make one without
\* duplicates.
LEMMA ConcatInjective ==
    ASSUME NEW S, NEW s \in Seq(S), NEW t \in Seq(S),
           IsInjective(s), IsInjective(t), Range(s) \cap Range(t) = {}
    PROVE  IsInjective(s \o t)
<1>1. /\ DOMAIN (s \o t) = 1..(Len(s) + Len(t))
      /\ \A i \in 1..(Len(s) + Len(t)) :
            (s \o t)[i] = IF i <= Len(s) THEN s[i] ELSE t[i - Len(s)]
      /\ DOMAIN s = 1..Len(s) /\ DOMAIN t = 1..Len(t)
      /\ Len(s) \in Nat /\ Len(t) \in Nat
  OBVIOUS
<1>2. ASSUME NEW i \in 1..(Len(s) + Len(t)), NEW j \in 1..(Len(s) + Len(t)),
             (s \o t)[i] = (s \o t)[j]
      PROVE  i = j
  <2>1. CASE i <= Len(s) /\ j <= Len(s)
    BY <1>1, <1>2, <2>1 DEF IsInjective
  <2>2. CASE i > Len(s) /\ j > Len(s)
    <3>1. /\ i - Len(s) \in DOMAIN t /\ j - Len(s) \in DOMAIN t
          /\ t[i - Len(s)] = t[j - Len(s)]
      BY <1>1, <1>2, <2>2
    <3>2. i - Len(s) = j - Len(s)
      BY <3>1 DEF IsInjective
    <3>3. QED
      BY <1>1, <3>2
  <2>3. CASE i <= Len(s) /\ j > Len(s)
    <3>1. s[i] \in Range(s) /\ t[j - Len(s)] \in Range(t) /\ s[i] = t[j - Len(s)]
      BY <1>1, <1>2, <2>3 DEF Range
    <3>2. QED
      BY <3>1
  <2>4. CASE i > Len(s) /\ j <= Len(s)
    <3>1. s[j] \in Range(s) /\ t[i - Len(s)] \in Range(t) /\ s[j] = t[i - Len(s)]
      BY <1>1, <1>2, <2>4 DEF Range
    <3>2. QED
      BY <3>1
  <2>5. QED
    BY <1>1, <2>1, <2>2, <2>3, <2>4
<1>3. QED
  BY <1>1, <1>2 DEF IsInjective

\* No client is sent a message twice.
THEOREM NeverDuplicated == Spec => []NoDuplicates
<1>1. HubInv => NoDuplicates
  <2>1. SUFFICES ASSUME HubInv, NEW c \in Clients PROVE IsInjective(delivered[c] \o send[c])
    BY DEF NoDuplicates
  <2>2. StreamOK(send[c], delivered[c], sender[c])
    BY <2>1 DEF HubInv, StreamInv
  <2>3. send[c] \in Seq(Messages) /\ delivered[c] \in Seq(Messages)
    BY <2>1 DEF HubInv, TypeOK
  <2>4. QED
    BY <2>2, <2>3, ConcatInjective DEF StreamOK
<1>2. QED
  BY <1>1, HubInvariant, PTL

\* No client is sent a message outside the levels and the applications it
\* asked for, torn reads of its options included.
THEOREM FilterAlwaysRespected == Spec => []FilterRespected
<1>1. HubInv => FilterRespected
  BY DEF HubInv
<1>2. QED
  BY <1>1, HubInvariant, PTL

\* A client that has left the map is not forgotten with its channel open: the
\* channel is closed, or run is between its delete and its close.
THEOREM DroppedOnlyWhenClosed == Spec => []DroppedMeansClosed
<1>1. HubInv => DroppedMeansClosed
  BY DEF HubInv
<1>2. QED
  BY <1>1, HubInvariant, PTL
=============================================================================
