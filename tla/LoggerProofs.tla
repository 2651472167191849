---------------------------- MODULE LoggerProofs ----------------------------
(***************************************************************************)
(* Proofs about the daemon, for any messages, handlers, requests,          *)
(* configurations, capacity of the hub's channel and number of restarts.   *)
(***************************************************************************)
EXTENDS Logger, RangeFacts, SequenceTheorems, TLAPS

-----------------------------------------------------------------------------
(* The operators                                                           *)

\* A message is refused or has every field the conversion reads: whatever the
\* fields the parsers found, no type assertion of SyslogToLogMessage fails.
THEOREM ConversionNeverPanics ==
    ASSUME NEW parts
    PROVE  SyslogToLogMessage(parts) \in {"ok", "error"}
<1>1. CASE "structured_data" \in parts
  BY <1>1 DEF SyslogToLogMessage, getRFCVersion, validateMessage, RequiredFields,
     CommonFields, FieldsRead
<1>2. CASE "structured_data" \notin parts
  BY <1>2 DEF SyslogToLogMessage, getRFCVersion, validateMessage, RequiredFields,
     CommonFields, FieldsRead
<1>3. QED
  BY <1>1, <1>2

\* main always configures the data store first and the hub last.
LEMMA WritersType ==
    /\ Writers \in Seq(WriterNames) /\ Writers # <<>>
    /\ Len(Writers) \in Nat
<1> DEFINE opt == IF config.Syslog.LogToStdout THEN <<"stdout">> ELSE <<>>
<1>1. <<"store">> \in Seq(WriterNames) /\ <<"hub">> \in Seq(WriterNames)
      /\ opt \in Seq(WriterNames)
  <2>1. ASSUME NEW w \in WriterNames PROVE <<w>> \in Seq(WriterNames)
    OBVIOUS
  <2>2. <<>> \in Seq(WriterNames)
    OBVIOUS
  <2>3. "store" \in WriterNames /\ "stdout" \in WriterNames /\ "hub" \in WriterNames
    BY DEF WriterNames
  <2>4. QED
    BY <2>1, <2>2, <2>3
<1> HIDE DEF opt
<1>2. <<"store">> \o opt \in Seq(WriterNames)
  BY <1>1
<1>3. (<<"store">> \o opt) \o <<"hub">> \in Seq(WriterNames)
  BY <1>1, <1>2
<1>4. Len((<<"store">> \o opt) \o <<"hub">>) = Len(<<"store">> \o opt) + 1
  BY <1>1, <1>2
<1>5. Len(<<"store">> \o opt) \in Nat
  BY <1>2
<1>6. Writers = (<<"store">> \o opt) \o <<"hub">>
  BY DEF Writers, opt
<1>7. QED
  BY <1>3, <1>4, <1>5, <1>6

\* The writers depend on nothing but the configuration.
LEMMA WritersStay == config' = config => Writers' = Writers
  BY DEF Writers

-----------------------------------------------------------------------------
(* The inductive invariant                                                 *)

\* Where main is, where the worker is and how far the worker's Stop has come
\* agree.
PhaseInv ==
    /\ main \in {"config", "store", "hub", "syslog"} => worker = "off"
    /\ worker \in {"draining", "closing", "killing", "cleaning", "done"} => cancelled
    /\ chanClosed => cancelled
    /\ done <=> worker = "done"
    /\ main \in {"waitStore", "stopApi", "shutdown"} => done
    /\ proc = "exited" => main = "shutdown"

\* main starts the data store's worker only with a section to read its write
\* interval from.
SectionInv == store # "off" => config.Syslog.InfluxDB # Nil

\* A Stop that leaves the socket behind has returned an error, and nobody
\* creates it again.
SocketInv == worker = "done" /\ StaleSocket => stopResult = "error"

\* A writer that the aggregate writer has passed has an outcome for the message.
WritersInv ==
    worker = "writing" =>
        \A w \in Range(Writers) : w \in Range(left) \/ outcome[wmsg][w] # "none"

-----------------------------------------------------------------------------
(* Type correctness. It needs the phases: the worker starts without a      *)
(* message in hand.                                                        *)

\* The variables start with values of their types.
LEMMA TypeInit == Init => TypeOK
<1> SUFFICES ASSUME Init PROVE TypeOK
  OBVIOUS
<1>1. left \in Seq(WriterNames) /\ Len(left) = 0
  BY DEF Init
<1>2. /\ inhand \in [Sources -> Messages \cup {NoMsg}]
      /\ req \in [Requests -> {"none", "active", "done"}]
      /\ outcome \in [Messages -> [WriterNames -> {"none", "ok", "error"}]]
  BY DEF Init
<1>3. broadcast \in 0..BroadcastCap /\ restarts \in 0..MaxRestarts
  BY LoggerAssumption DEF LoggerAssumption, Init
<1>4. Len(left) <= Len(Writers)
  BY <1>1, WritersType
<1>5. QED
  BY <1>1, <1>2, <1>3, <1>4 DEF Init, TypeOK

\* What Written does to the variables of the worker.
LEMMA WrittenType ==
    ASSUME TypeOK, NEW result \in {"ok", "error"}, Written(result), config' = config
    PROVE  /\ wmsg \in Messages
           /\ Head(left) \in WriterNames
           /\ left' \in Seq(WriterNames) /\ Len(left') <= Len(Writers')
           /\ worker' \in {"select", "writing"}
           /\ worker' = "writing" <=> left' # <<>>
           /\ worker' = "writing" <=> wmsg' # NoMsg
           /\ wmsg' \in Messages \cup {NoMsg}
           /\ handled' \subseteq Messages
           /\ outcome' \in [Messages -> [WriterNames -> {"none", "ok", "error"}]]
<1>1. wmsg \in Messages /\ left # <<>> /\ worker = "writing"
  BY DEF Written, TypeOK
<1>2. /\ Head(left) \in WriterNames
      /\ Tail(left) \in Seq(WriterNames) /\ Len(Tail(left)) = Len(left) - 1
      /\ Len(left) \in Nat
  BY <1>1 DEF TypeOK
<1>3. Len(Tail(left)) <= Len(Writers')
  BY <1>2, WritersType, WritersStay DEF TypeOK
<1>4. outcome' \in [Messages -> [WriterNames -> {"none", "ok", "error"}]]
  BY <1>1, <1>2 DEF Written, TypeOK
<1>5. handled' \subseteq Messages
  BY <1>1 DEF Written, TypeOK
<1>6. QED
  BY <1>1, <1>2, <1>3, <1>4, <1>5, LoggerAssumption DEF LoggerAssumption, Written

\* Every step of the daemon keeps the types.
LEMMA TypeNext == TypeOK /\ PhaseInv /\ [Next]_vars => TypeOK'
<1> SUFFICES ASSUME TypeOK, PhaseInv, [Next]_vars PROVE TypeOK'
  OBVIOUS
<1> USE DEF mainVars, workerVars, netVars, peerVars, apiVars, fileVars, TypeOK
<1>1. CASE Restart
  <2>1. left' \in Seq(WriterNames) /\ Len(left') = 0
    BY <1>1 DEF Restart
  <2>2. Len(Writers') \in Nat
    BY WritersType
  <2>3. restarts' \in 0..MaxRestarts /\ broadcast' \in 0..BroadcastCap
    BY <1>1, LoggerAssumption DEF LoggerAssumption, Restart
  <2>4. /\ inhand' \in [Sources -> Messages \cup {NoMsg}]
        /\ req' \in [Requests -> {"none", "active", "done"}]
        /\ outcome' \in [Messages -> [WriterNames -> {"none", "ok", "error"}]]
    BY <1>1 DEF Restart
  <2>5. Len(left') <= Len(Writers')
    BY <2>1, <2>2
  <2>6. QED
    BY <1>1, <2>1, <2>3, <2>4, <2>5 DEF Restart
<1>2. CASE LoadConfig
  BY <1>2, WritersStay DEF LoadConfig
<1>3. CASE StartStore
  BY <1>3, WritersStay DEF StartStore
<1>4. CASE StartHub
  BY <1>4, WritersStay DEF StartHub
<1>5. CASE StartSyslogRefused
  BY <1>5, WritersStay DEF StartSyslogRefused
<1>6. CASE StartSyslog
  <2>1. address' \in AddressStates
    BY <1>6 DEF StartSyslog, cleanStaleSocket, StaleSocket, AddressStates
  <2>2. CASE OnUnixSocket /\ cleanStaleSocket # "none"
    BY <1>6, <2>1, <2>2, WritersStay DEF StartSyslog
  <2>3. CASE ~(OnUnixSocket /\ cleanStaleSocket # "none")
    <3>1. worker = "off"
      BY <1>6 DEF StartSyslog, PhaseInv
    <3>2. /\ main' = "api" /\ listening' = TRUE /\ worker' = "select" /\ proc' = proc
          /\ UNCHANGED <<config, cancelled, restarts, wmsg, left, done, handled, outcome,
                         received, inhand, fresh, chanClosed, peerVars, apiVars, stopResult>>
      BY <1>6, <2>3 DEF StartSyslog
    <3>3. QED
      BY <2>1, <3>1, <3>2, WritersStay
  <2>4. QED
    BY <2>2, <2>3
<1>7. CASE StartApi
  BY <1>7, WritersStay DEF StartApi
<1>8. CASE MainWait
  BY <1>8, WritersStay DEF MainWait
<1>9. CASE MainShutdown
  BY <1>9, WritersStay DEF MainShutdown
<1>10. CASE MainExit
  BY <1>10, WritersStay DEF MainExit
<1>11. CASE StartFail
  BY <1>11, WritersStay DEF StartFail
<1>12. CASE Signal
  BY <1>12, WritersStay DEF Signal
<1>13. CASE ServeFatal
  BY <1>13, WritersStay DEF ServeFatal
<1>14. CASE WorkerStop
  BY <1>14, WritersStay DEF WorkerStop
<1>15. CASE StopDrain
  <2>1. inhand' \in [Sources -> Messages \cup {NoMsg}]
    BY <1>15 DEF StopDrain
  <2>2. QED
    BY <1>15, <2>1, WritersStay DEF StopDrain
<1>16. CASE StopClose
  BY <1>16, WritersStay DEF StopClose
<1>17. CASE StopKill
  <2>1. listening' \in BOOLEAN /\ stopResult' \in {stopResult, "error"} /\ done' \in BOOLEAN
    BY <1>17 DEF StopKill
  <2>2. worker' \in {"cleaning", "done"} /\ worker = "killing"
    BY <1>17 DEF StopKill
  <2>3. QED
    BY <1>17, <2>1, <2>2, WritersStay DEF StopKill
<1>18. CASE StopClean
  BY <1>18, WritersStay DEF StopClean, cleanStaleSocket, AddressStates
<1>19. CASE StoreTicker
  BY <1>19, WritersStay DEF StoreTicker
<1>20. CASE StoreExit
  BY <1>20, WritersStay DEF StoreExit
<1>21. CASE HubTake
  BY <1>21, WritersStay, LoggerAssumption DEF HubTake, LoggerAssumption
<1>22. CASE HubExit
  BY <1>22, WritersStay DEF HubExit
<1>23. ASSUME NEW r \in Requests, RequestStart(r) PROVE TypeOK'
  BY <1>23, WritersStay DEF RequestStart
<1>24. ASSUME NEW r \in Requests, RequestEnd(r) PROVE TypeOK'
  BY <1>24, WritersStay DEF RequestEnd
<1>25. ASSUME NEW m \in Messages, Arrive(m) PROVE TypeOK'
  BY <1>25, WritersStay DEF Arrive
<1>26. ASSUME NEW m \in Messages, NEW s \in Sources, Handle(s, m) PROVE TypeOK'
  BY <1>26, WritersStay DEF Handle
<1>27. ASSUME NEW s \in Sources, HandlePanic(s) PROVE TypeOK'
  BY <1>27, WritersStay DEF HandlePanic
<1>28. ASSUME NEW s \in Sources, WorkerTake(s) PROVE TypeOK'
  <2>1. /\ inhand' \in [Sources -> Messages \cup {NoMsg}]
        /\ worker = "select" /\ inhand[s] \in Messages /\ inhand[s] # NoMsg
    BY <1>28 DEF WorkerTake
  <2>2. CASE worker' = "writing" /\ wmsg' = inhand[s] /\ left' = Writers /\ proc' = proc
    BY <1>28, <2>1, <2>2, WritersStay, WritersType DEF WorkerTake
  <2>3. CASE worker' = worker /\ wmsg' = wmsg /\ left' = left /\ proc' \in {proc, "panicked"}
    BY <1>28, <2>1, <2>3, WritersStay DEF WorkerTake
  <2>4. QED
    BY <1>28, <2>2, <2>3 DEF WorkerTake
<1>29. CASE WriteStore
  <2>1. PICK result \in {"ok", "error"} : Written(result)
    BY <1>29 DEF WriteStore
  <2>2. QED
    BY <1>29, <2>1, WrittenType, LoggerAssumption DEF LoggerAssumption, WriteStore
<1>30. CASE WriteStdout
  <2>1. PICK result \in {"ok", "error"} : Written(result)
    BY <1>30 DEF WriteStdout
  <2>2. QED
    BY <1>30, <2>1, WrittenType, LoggerAssumption DEF LoggerAssumption, WriteStdout
<1>31. CASE WriteHub
  <2>1. PICK result \in {"ok", "error"} : Written(result)
    BY <1>31 DEF WriteHub
  <2>2. QED
    BY <1>31, <2>1, WrittenType, LoggerAssumption DEF LoggerAssumption, WriteHub
<1>32. CASE WriteHubTimeout
  <2>1. PICK result \in {"ok", "error"} : Written(result)
    BY <1>32 DEF WriteHubTimeout
  <2>2. QED
    BY <1>32, <2>1, WrittenType, LoggerAssumption DEF LoggerAssumption, WriteHubTimeout
<1>33. CASE StartSyslogFails
  BY <1>33, WritersStay DEF StartSyslogFails, cleanStaleSocket, AddressStates
<1>34. CASE HubPanic
  BY <1>34, WritersStay DEF HubPanic
<1>35. CASE UNCHANGED vars
  BY <1>35, WritersStay DEF vars
<1>36. QED
  BY <1>1, <1>2, <1>3, <1>4, <1>5, <1>6, <1>7, <1>8, <1>9, <1>10, <1>11, <1>12,
     <1>13, <1>14, <1>15, <1>16, <1>17, <1>18, <1>19, <1>20, <1>21, <1>22, <1>23,
     <1>24, <1>25, <1>26, <1>27, <1>28, <1>29, <1>30, <1>31, <1>32, <1>33, <1>34,
     <1>35 DEF Next, MainStep, WriteStep, StopStep

\* Every step keeps the phases in agreement.
LEMMA PhaseNext == TypeOK /\ PhaseInv /\ [Next]_vars => PhaseInv'
<1> SUFFICES ASSUME TypeOK, PhaseInv, [Next]_vars PROVE PhaseInv'
  OBVIOUS
<1> USE DEF mainVars, workerVars, netVars, peerVars, apiVars, fileVars, PhaseInv, TypeOK
<1>1. CASE Restart
  BY <1>1 DEF Restart
<1>2. CASE LoadConfig
  BY <1>2 DEF LoadConfig
<1>3. CASE StartStore
  BY <1>3 DEF StartStore
<1>4. CASE StartHub
  BY <1>4 DEF StartHub
<1>5. CASE StartSyslogRefused
  BY <1>5 DEF StartSyslogRefused
<1>6. CASE StartSyslog
  BY <1>6 DEF StartSyslog
<1>7. CASE StartApi
  BY <1>7 DEF StartApi
<1>8. CASE MainWait
  BY <1>8 DEF MainWait
<1>9. CASE MainShutdown
  BY <1>9 DEF MainShutdown
<1>10. CASE MainExit
  BY <1>10 DEF MainExit
<1>11. CASE StartFail
  BY <1>11 DEF StartFail
<1>12. CASE Signal
  BY <1>12 DEF Signal
<1>13. CASE ServeFatal
  BY <1>13 DEF ServeFatal
<1>14. CASE WorkerStop
  BY <1>14 DEF WorkerStop
<1>15. CASE StopDrain
  BY <1>15 DEF StopDrain
<1>16. CASE StopClose
  BY <1>16 DEF StopClose
<1>17. CASE StopKill
  BY <1>17 DEF StopKill
<1>18. CASE StopClean
  BY <1>18 DEF StopClean
<1>19. CASE StoreTicker
  BY <1>19 DEF StoreTicker
<1>20. CASE StoreExit
  BY <1>20 DEF StoreExit
<1>21. CASE HubTake
  BY <1>21 DEF HubTake
<1>22. CASE HubExit
  BY <1>22 DEF HubExit
<1>23. ASSUME NEW r \in Requests, RequestStart(r) PROVE PhaseInv'
  BY <1>23 DEF RequestStart
<1>24. ASSUME NEW r \in Requests, RequestEnd(r) PROVE PhaseInv'
  BY <1>24 DEF RequestEnd
<1>25. ASSUME NEW m \in Messages, Arrive(m) PROVE PhaseInv'
  BY <1>25 DEF Arrive
<1>26. ASSUME NEW m \in Messages, NEW s \in Sources, Handle(s, m) PROVE PhaseInv'
  BY <1>26 DEF Handle
<1>27. ASSUME NEW s \in Sources, HandlePanic(s) PROVE PhaseInv'
  BY <1>27 DEF HandlePanic
<1>28. ASSUME NEW s \in Sources, WorkerTake(s) PROVE PhaseInv'
  BY <1>28 DEF WorkerTake
<1>29. CASE WriteStore
  BY <1>29 DEF WriteStore, Written
<1>30. CASE WriteStdout
  BY <1>30 DEF WriteStdout, Written
<1>31. CASE WriteHub
  BY <1>31 DEF WriteHub, Written
<1>32. CASE WriteHubTimeout
  BY <1>32 DEF WriteHubTimeout, Written
<1>33. CASE StartSyslogFails
  BY <1>33 DEF StartSyslogFails
<1>34. CASE HubPanic
  BY <1>34 DEF HubPanic
<1>35. CASE UNCHANGED vars
  BY <1>35 DEF vars
<1>36. QED
  BY <1>1, <1>2, <1>3, <1>4, <1>5, <1>6, <1>7, <1>8, <1>9, <1>10, <1>11, <1>12,
     <1>13, <1>14, <1>15, <1>16, <1>17, <1>18, <1>19, <1>20, <1>21, <1>22, <1>23,
     <1>24, <1>25, <1>26, <1>27, <1>28, <1>29, <1>30, <1>31, <1>32, <1>33, <1>34,
     <1>35 DEF Next, MainStep, WriteStep, StopStep

-----------------------------------------------------------------------------
(* What a step may change.                                                 *)

\* The configuration is read and the context made at the start only.
ConfigFrame == Restart \/ (config' = config /\ (cancelled => cancelled'))

\* Only main starts the data store.
StoreFrame == Restart \/ StartStore \/ (store' # "off" => store # "off")

\* Only the syslog worker's Start and Stop touch the socket.
SocketFrame ==
    \/ Restart \/ StartSyslog \/ StopKill \/ StopClean
    \/ /\ address' = address \/ address' = cleanStaleSocket
       /\ stopResult' = stopResult
       /\ worker' = "done" => worker = "done"

\* How the process may panic or fail to listen.
ProcFrame ==
    \/ Restart \/ StartSyslog \/ StoreTicker
    \/ \E s \in Sources : HandlePanic(s) \/ WorkerTake(s)
    \/ proc' = proc \/ proc' \in {"exited", "startFailed", "fatal", "hubPanicked"}

\* Only a message that is taken or written changes what the writers have done.
WriteFrame ==
    \/ Restart \/ WriteStep \/ \E s \in Sources : WorkerTake(s)
    \/ wmsg' = wmsg /\ left' = left /\ handled' = handled /\ outcome' = outcome

Frame == ConfigFrame /\ StoreFrame /\ SocketFrame /\ ProcFrame /\ WriteFrame

\* Every step stays within these limits.
LEMMA FrameNext == TypeOK /\ [Next]_vars => Frame
<1> SUFFICES ASSUME TypeOK, [Next]_vars PROVE Frame
  OBVIOUS
<1> USE DEF mainVars, workerVars, netVars, peerVars, apiVars, fileVars, Frame, ConfigFrame,
           StoreFrame, SocketFrame, ProcFrame, WriteFrame, WriteStep
<1>1. CASE Restart
  BY <1>1 DEF Restart
<1>2. CASE LoadConfig
  BY <1>2 DEF LoadConfig
<1>3. CASE StartStore
  BY <1>3 DEF StartStore
<1>4. CASE StartHub
  BY <1>4 DEF StartHub
<1>5. CASE StartSyslogRefused
  BY <1>5 DEF StartSyslogRefused
<1>6. CASE StartSyslog
  BY <1>6 DEF StartSyslog
<1>7. CASE StartApi
  BY <1>7 DEF StartApi
<1>8. CASE MainWait
  BY <1>8 DEF MainWait
<1>9. CASE MainShutdown
  BY <1>9 DEF MainShutdown
<1>10. CASE MainExit
  BY <1>10 DEF MainExit
<1>11. CASE StartFail
  BY <1>11 DEF StartFail
<1>12. CASE Signal
  BY <1>12 DEF Signal
<1>13. CASE ServeFatal
  BY <1>13 DEF ServeFatal
<1>14. CASE WorkerStop
  BY <1>14 DEF WorkerStop
<1>15. CASE StopDrain
  BY <1>15 DEF StopDrain
<1>16. CASE StopClose
  BY <1>16 DEF StopClose
<1>17. CASE StopKill
  BY <1>17 DEF StopKill
<1>18. CASE StopClean
  BY <1>18 DEF StopClean
<1>19. CASE StoreTicker
  BY <1>19 DEF StoreTicker
<1>20. CASE StoreExit
  BY <1>20 DEF StoreExit
<1>21. CASE HubTake
  BY <1>21 DEF HubTake
<1>22. CASE HubExit
  BY <1>22 DEF HubExit
<1>23. ASSUME NEW r \in Requests, RequestStart(r) PROVE Frame
  BY <1>23 DEF RequestStart
<1>24. ASSUME NEW r \in Requests, RequestEnd(r) PROVE Frame
  BY <1>24 DEF RequestEnd
<1>25. ASSUME NEW m \in Messages, Arrive(m) PROVE Frame
  BY <1>25 DEF Arrive
<1>26. ASSUME NEW m \in Messages, NEW s \in Sources, Handle(s, m) PROVE Frame
  BY <1>26 DEF Handle
<1>27. ASSUME NEW s \in Sources, HandlePanic(s) PROVE Frame
  BY <1>27 DEF HandlePanic
<1>28. ASSUME NEW s \in Sources, WorkerTake(s) PROVE Frame
  BY <1>28 DEF WorkerTake
<1>29. CASE WriteStore
  BY <1>29 DEF WriteStore, Written
<1>30. CASE WriteStdout
  BY <1>30 DEF WriteStdout, Written
<1>31. CASE WriteHub
  BY <1>31 DEF WriteHub, Written
<1>32. CASE WriteHubTimeout
  BY <1>32 DEF WriteHubTimeout, Written
<1>33. CASE StartSyslogFails
  BY <1>33 DEF StartSyslogFails
<1>34. CASE HubPanic
  BY <1>34 DEF HubPanic
<1>35. CASE UNCHANGED vars
  BY <1>35 DEF vars
<1>36. QED
  BY <1>1, <1>2, <1>3, <1>4, <1>5, <1>6, <1>7, <1>8, <1>9, <1>10, <1>11, <1>12,
     <1>13, <1>14, <1>15, <1>16, <1>17, <1>18, <1>19, <1>20, <1>21, <1>22, <1>23,
     <1>24, <1>25, <1>26, <1>27, <1>28, <1>29, <1>30, <1>31, <1>32, <1>33, <1>34,
     <1>35 DEF Next, MainStep, WriteStep, StopStep

-----------------------------------------------------------------------------
(* The parts of the invariant                                              *)

\* The data store is started only with its section.
LEMMA SectionNext == TypeOK /\ SectionInv /\ [Next]_vars => SectionInv'
<1> SUFFICES ASSUME TypeOK, SectionInv, [Next]_vars PROVE SectionInv'
  OBVIOUS
<1>1. ConfigFrame /\ StoreFrame
  BY FrameNext DEF Frame
<1>2. CASE Restart
  BY <1>2 DEF Restart, SectionInv
<1>3. CASE StartStore
  BY <1>3 DEF StartStore, GetDatastore, SectionInv
<1>4. CASE config' = config /\ (store' # "off" => store # "off")
  BY <1>4 DEF SectionInv
<1>5. QED
  BY <1>1, <1>2, <1>3, <1>4 DEF ConfigFrame, StoreFrame, StartStore

\* Start runs before the worker has stopped; a Kill or a clean up that leaves
\* the socket is an error of Stop.
LEMMA SocketNext == TypeOK /\ PhaseInv /\ SocketInv /\ [Next]_vars => SocketInv'
<1> SUFFICES ASSUME TypeOK, PhaseInv, SocketInv, [Next]_vars PROVE SocketInv'
  OBVIOUS
<1>1. ConfigFrame /\ SocketFrame
  BY FrameNext DEF Frame
<1>2. CASE Restart
  BY <1>2 DEF Restart, SocketInv
<1>3. CASE StartSyslog
  <2>1. worker = "off" /\ worker' \in {"off", "select"}
    BY <1>3 DEF StartSyslog, PhaseInv
  <2>2. QED
    BY <2>1 DEF SocketInv
<1>4. CASE StopKill
  BY <1>4 DEF StopKill, SocketInv
<1>5. CASE StopClean
  BY <1>5 DEF StopClean, cleanStaleSocket, StaleSocket, mainVars, OnUnixSocket, SocketInv
<1>6. CASE /\ config' = config
           /\ address' = address \/ address' = cleanStaleSocket
           /\ stopResult' = stopResult
           /\ worker' = "done" => worker = "done"
  BY <1>6 DEF SocketInv, StaleSocket, cleanStaleSocket, OnUnixSocket
<1>7. QED
  BY <1>1, <1>2, <1>3, <1>4, <1>5, <1>6 DEF ConfigFrame, SocketFrame

\* A regular file or a missing directory at the address is refused by Validate
\* before, and a socket is removed.
LEMMA AddressNext ==
    TypeOK /\ RestartFindsAddressFree /\ [Next]_vars => RestartFindsAddressFree'
<1> SUFFICES ASSUME TypeOK, RestartFindsAddressFree, [Next]_vars
             PROVE  RestartFindsAddressFree'
  OBVIOUS
<1>1. ProcFrame
  BY FrameNext DEF Frame
<1>2. CASE StartSyslog
  <2>1. OnUnixSocket => address \in {"none", "socket"}
    BY <1>2 DEF StartSyslog, SyslogValidate, OnUnixSocket, TypeOK, AddressStates
  <2>2. OnUnixSocket => cleanStaleSocket = "none"
    BY <2>1 DEF cleanStaleSocket, StaleSocket
  <2>3. QED
    BY <1>2, <2>2 DEF StartSyslog, RestartFindsAddressFree
<1>3. CASE Restart
  BY <1>3 DEF Restart, RestartFindsAddressFree
<1>4. CASE StoreTicker
  BY <1>4 DEF StoreTicker, RestartFindsAddressFree
<1>5. ASSUME NEW s \in Sources, HandlePanic(s) \/ WorkerTake(s)
      PROVE  RestartFindsAddressFree'
  BY <1>5 DEF HandlePanic, WorkerTake, RestartFindsAddressFree
<1>6. QED
  BY <1>1, <1>2, <1>3, <1>4, <1>5 DEF ProcFrame, RestartFindsAddressFree

\* A positive interval that fits makes a positive Duration.
LEMMA IntervalFits ==
    ASSUME NEW n \in Nat \ {0}, n * Second <= MaxDuration
    PROVE  DurationOf(n * Second) > 0
<1>1. Second \in Nat \ {0} /\ MaxDuration \in Nat
  BY LoggerAssumption, DurationAssumption DEF LoggerAssumption, DurationAssumption
<1>2. \A a, b \in Nat \ {0} : a * b \in Nat \ {0}
  OBVIOUS
<1>3. n * Second \in Nat \ {0}
  BY <1>1, <1>2
<1>4. n * Second \in Durations
  BY <1>1, <1>3 DEF Durations
<1>5. QED
  BY <1>3, <1>4 DEF DurationOf

\* A handler panics on a closed channel, hence after the signal; the conversion
\* does not panic, and the ticker does only with an interval that is negative or
\* does not fit.
LEMMA PanicNext ==
    TypeOK /\ PhaseInv /\ SectionInv /\ OnlyHubPanicsWhileServing /\ [Next]_vars
        => OnlyHubPanicsWhileServing'
<1> SUFFICES ASSUME TypeOK, PhaseInv, SectionInv, OnlyHubPanicsWhileServing, [Next]_vars
             PROVE  OnlyHubPanicsWhileServing'
  OBVIOUS
<1>1. ConfigFrame /\ ProcFrame
  BY FrameNext DEF Frame
<1>2. CASE Restart
  BY <1>2 DEF Restart, OnlyHubPanicsWhileServing
<1>3. CASE StartSyslog
  <2>1. proc' # "panicked"
    BY <1>3 DEF StartSyslog, Alive
  <2>2. QED
    BY <2>1 DEF OnlyHubPanicsWhileServing
<1>4. CASE StoreTicker
  <2> DEFINE i == config.Syslog.InfluxDB
  <2>1. i \in InfluxDB
    <3>1. config \in ConfigFile
      BY LoggerAssumption DEF LoggerAssumption, TypeOK
    <3>2. i # Nil
      BY <1>4 DEF StoreTicker, SectionInv
    <3>3. QED
      BY <3>1, <3>2 DEF ConfigFile, SyslogConfig
  <2>2. i.WriteInterval \in Int
    BY <2>1 DEF InfluxDB
  <2>3. CASE DurationOf(WriteInterval(i) * Second) > 0
    BY <1>4, <2>3 DEF StoreTicker, Alive, OnlyHubPanicsWhileServing
  <2>4. CASE ~(DurationOf(WriteInterval(i) * Second) > 0)
    <3>1. i.WriteInterval < 0 \/ i.WriteInterval * Second > MaxDuration
      <4>1. SUFFICES ASSUME i.WriteInterval >= 0, ~(i.WriteInterval * Second > MaxDuration)
                     PROVE  FALSE
        BY <2>2
      <4>2. Second \in Int /\ Second <= MaxDuration /\ MaxDuration \in Int
        BY LoggerAssumption, DurationAssumption DEF LoggerAssumption, DurationAssumption
      <4>3. /\ WriteInterval(i) \in Nat \ {0}
            /\ WriteInterval(i) = 1 \/ WriteInterval(i) = i.WriteInterval
        BY <2>2, <4>1 DEF WriteInterval
      <4>4. WriteInterval(i) * Second <= MaxDuration
        <5>1. CASE WriteInterval(i) = 1
          BY <4>2, <5>1
        <5>2. CASE WriteInterval(i) = i.WriteInterval
          <6>1. \A a, b \in Int : a * b \in Int
            OBVIOUS
          <6>2. i.WriteInterval * Second \in Int
            BY <2>2, <4>2, <6>1
          <6>3. QED
            BY <4>1, <4>2, <5>2, <6>2
        <5>3. QED
          BY <4>3, <5>1, <5>2
      <4>5. QED
        BY <2>4, <4>3, <4>4, IntervalFits
    <3>2. config' = config
      BY <1>4 DEF StoreTicker
    <3>3. QED
      BY <3>1, <3>2 DEF OnlyHubPanicsWhileServing
  <2>5. QED
    BY <2>3, <2>4
<1>5. ASSUME NEW s \in Sources, HandlePanic(s) PROVE OnlyHubPanicsWhileServing'
  BY <1>5 DEF HandlePanic, PhaseInv, OnlyHubPanicsWhileServing
<1>6. ASSUME NEW s \in Sources, WorkerTake(s) PROVE OnlyHubPanicsWhileServing'
  <2>1. SyslogToLogMessage(Parts[inhand[s]]) # "panic"
    BY ConversionNeverPanics
  <2>2. proc' # "panicked"
    BY <1>6, <2>1 DEF WorkerTake, Alive
  <2>3. QED
    BY <2>2 DEF OnlyHubPanicsWhileServing
<1>7. CASE /\ config' = config /\ (cancelled => cancelled')
           /\ proc' = proc \/ proc' \in {"exited", "startFailed", "fatal", "hubPanicked"}
  BY <1>7 DEF OnlyHubPanicsWhileServing
<1>8. QED
  BY <1>1, <1>2, <1>3, <1>4, <1>5, <1>6, <1>7 DEF ConfigFrame, ProcFrame

\* A Write that returned, with or without an error, leaves an outcome; the
\* message is handled when the last of the writers has one.
LEMMA WrittenStep ==
    ASSUME TypeOK, WritersInv, EveryWriterCalled, config' = config,
           NEW result \in {"ok", "error"}, Written(result)
    PROVE  WritersInv' /\ EveryWriterCalled'
<1>1. wmsg \in Messages /\ Head(left) \in WriterNames
  BY WrittenType
<1>2. Writers' = Writers
  BY WritersStay
<1>3. left \in Seq(WriterNames) /\ left # <<>> /\ worker = "writing"
  BY DEF Written, TypeOK
<1>4. Range(left) = Range(Tail(left)) \cup {Head(left)}
  BY <1>3, TailRange
<1>5. Range(Writers) \subseteq WriterNames
  BY RangeType, WritersType
<1>6. /\ outcome'[wmsg][Head(left)] = result
      /\ \A m \in Messages, w \in WriterNames :
            outcome[m][w] # "none" => outcome'[m][w] # "none"
  BY <1>1 DEF Written, TypeOK
<1>7. \A w \in Range(Writers) : w \in Range(left') \/ outcome'[wmsg][w] # "none"
  <2> SUFFICES ASSUME NEW w \in Range(Writers), w \notin Range(left')
               PROVE  outcome'[wmsg][w] # "none"
    OBVIOUS
  <2>1. left' = Tail(left)
    BY DEF Written
  <2>2. w = Head(left) \/ outcome[wmsg][w] # "none"
    BY <1>3, <1>4, <2>1 DEF WritersInv
  <2>3. QED
    BY <1>1, <1>5, <1>6, <2>2
<1>8. CASE Tail(left) = <<>>
  <2>1. worker' = "select" /\ handled' = handled \cup {wmsg} /\ left' = <<>>
    BY <1>8 DEF Written
  <2>2. Range(<<>>) = {}
    BY DEF Range
  <2>3. \A w \in Range(Writers) : outcome'[wmsg][w] # "none"
    BY <1>7, <2>1, <2>2
  <2>4. handled \subseteq Messages
    BY DEF TypeOK
  <2>5. EveryWriterCalled'
    BY <1>2, <1>5, <1>6, <2>1, <2>3, <2>4 DEF EveryWriterCalled
  <2>6. QED
    BY <2>1, <2>5 DEF WritersInv
<1>9. CASE Tail(left) # <<>>
  <2>1. worker' = "writing" /\ handled' = handled /\ wmsg' = wmsg
    BY <1>3, <1>9 DEF Written
  <2>2. handled \subseteq Messages
    BY DEF TypeOK
  <2>3. EveryWriterCalled'
    BY <1>2, <1>5, <1>6, <2>1, <2>2 DEF EveryWriterCalled
  <2>4. WritersInv'
    BY <1>2, <1>7, <2>1 DEF WritersInv
  <2>5. QED
    BY <2>3, <2>4
<1>10. QED
  BY <1>8, <1>9

\* Every step keeps what is known of the writers.
LEMMA WritersNext ==
    TypeOK /\ TypeOK' /\ WritersInv /\ EveryWriterCalled /\ [Next]_vars
        => WritersInv' /\ EveryWriterCalled'
<1> SUFFICES ASSUME TypeOK, TypeOK', WritersInv, EveryWriterCalled, [Next]_vars
             PROVE  WritersInv' /\ EveryWriterCalled'
  OBVIOUS
<1>1. ConfigFrame /\ WriteFrame
  BY FrameNext DEF Frame
<1>2. CASE Restart
  BY <1>2 DEF Restart, WritersInv, EveryWriterCalled
<1>3. ASSUME NEW s \in Sources, WorkerTake(s) PROVE WritersInv' /\ EveryWriterCalled'
  <2>1. config' = config /\ handled' = handled /\ outcome' = outcome /\ worker = "select"
    BY <1>3 DEF WorkerTake
  <2>2. Writers' = Writers
    BY <2>1, WritersStay
  <2>3. worker' = "writing" => left' = Writers
    BY <1>3 DEF WorkerTake
  <2>4. QED
    BY <2>1, <2>2, <2>3 DEF WritersInv, EveryWriterCalled
<1>4. CASE WriteStep
  <2>1. /\ config' = config
        /\ \E result \in {"ok", "error"} : Written(result)
    BY <1>4 DEF WriteStep, WriteStore, WriteStdout, WriteHub, WriteHubTimeout, mainVars
  <2>2. QED
    BY <2>1, WrittenStep
<1>5. CASE /\ config' = config /\ wmsg' = wmsg /\ left' = left
           /\ handled' = handled /\ outcome' = outcome
  <2>1. Writers' = Writers
    BY <1>5, WritersStay
  <2>2. worker' = "writing" => worker = "writing"
    BY <1>5 DEF TypeOK
  <2>3. QED
    BY <1>5, <2>1, <2>2 DEF WritersInv, EveryWriterCalled
<1>6. QED
  BY <1>1, <1>2, <1>3, <1>4, <1>5 DEF ConfigFrame, WriteFrame

-----------------------------------------------------------------------------
(* Theorems                                                                *)

\* The inductive invariant of the daemon: its types and phases, the socket and
\* the writers, and the properties that are inductive with them.
LoggerInv ==
    /\ TypeOK /\ PhaseInv /\ SectionInv /\ SocketInv /\ WritersInv
    /\ RestartFindsAddressFree /\ EveryWriterCalled /\ OnlyHubPanicsWhileServing

\* The invariant holds when the process is started for the first time.
LEMMA LoggerInvInit == Init => LoggerInv
<1> SUFFICES ASSUME Init PROVE LoggerInv
  OBVIOUS
<1>1. TypeOK
  BY TypeInit
<1>2. PhaseInv /\ SectionInv /\ SocketInv
  BY DEF Init, PhaseInv, SectionInv, SocketInv
<1>3. WritersInv /\ RestartFindsAddressFree /\ EveryWriterCalled /\ OnlyHubPanicsWhileServing
  BY DEF Init, WritersInv, RestartFindsAddressFree, EveryWriterCalled,
     OnlyHubPanicsWhileServing
<1>4. QED
  BY <1>1, <1>2, <1>3 DEF LoggerInv

\* Every step of the daemon, and every restart, preserves the invariant.
LEMMA LoggerInvNext == LoggerInv /\ [Next]_vars => LoggerInv'
  BY TypeNext, PhaseNext, SectionNext, SocketNext, WritersNext, AddressNext, PanicNext
     DEF LoggerInv

\* The parts of the invariant hold together in every reachable state of the
\* daemon, across restarts with other configurations.
THEOREM LoggerInvariant == Spec => []LoggerInv
<1>1. QED
  BY LoggerInvInit, LoggerInvNext, PTL DEF Spec

\* The daemon's variables keep their types; the hub's channel stays within its
\* capacity, and the worker has a message exactly while it has writers to call.
THEOREM TypeCorrect == Spec => []TypeOK
<1>1. LoggerInv => TypeOK
  BY DEF LoggerInv
<1>2. QED
  BY <1>1, LoggerInvariant, PTL

\* However the process ended before, a start never finds the address of its
\* socket taken.
THEOREM AddressAlwaysFree == Spec => []RestartFindsAddressFree
<1>1. LoggerInv => RestartFindsAddressFree
  BY DEF LoggerInv
<1>2. QED
  BY <1>1, LoggerInvariant, PTL

\* main returns only after Stop has removed the socket or returned an error.
THEOREM SocketGoneAtExit == Spec => []ExitLeavesNoSocket
<1>1. LoggerInv => ExitLeavesNoSocket
  BY DEF LoggerInv, PhaseInv, SocketInv, ExitLeavesNoSocket
<1>2. QED
  BY <1>1, LoggerInvariant, PTL

\* Every writer is called for every message that was handled, whatever the
\* writers before it returned.
THEOREM WritersAlwaysCalled == Spec => []EveryWriterCalled
<1>1. LoggerInv => EveryWriterCalled
  BY DEF LoggerInv
<1>2. QED
  BY <1>1, LoggerInvariant, PTL

\* Apart from the senders of the hub, neither a message nor a configuration
\* whose write interval fits makes the process panic before it is told to stop.
THEOREM OnlyHubEverPanics == Spec => []OnlyHubPanicsWhileServing
<1>1. LoggerInv => OnlyHubPanicsWhileServing
  BY DEF LoggerInv
<1>2. QED
  BY <1>1, LoggerInvariant, PTL
=============================================================================
