-------------------------- MODULE InfluxDatastore --------------------------
(***************************************************************************)
(* The InfluxDB data store (datastore/influxdb/influxdb.go): a buffer of   *)
(* points guarded by a mutex, filled by Write, emptied by flush; a worker  *)
(* goroutine that flushes and rotates on tickers; and readers, one per     *)
(* HTTP download, that flush, query and read the result in chunks.         *)
(*                                                                         *)
(* Goroutines of the model, each with a program counter in pc:             *)
(*   - "writer", the syslog worker, the only caller of Write;              *)
(*   - "worker", doWork;                                                   *)
(*   - one goroutine per reader in Readers.                                *)
(* A call to the database spans two steps, so the others run in between.   *)
(***************************************************************************)
EXTENDS Duration, Sequences, Functions, FiniteSets

CONSTANTS
    Messages,            \* log messages; each one is written once
    Logs,                \* application names, the measurements of the database
    Hosts,               \* host names
    LogOf,               \* LogOf[m]: the application m comes from
    HostOf,              \* HostOf[m]: the host m comes from
    RFC3164,             \* the messages whose format is RFC 3164
    Stamp,               \* Stamp[m]: the timestamp the message carries
    Unrepresentable,     \* the messages client.NewPoint refuses
    Refused,             \* the messages whose point the database refuses
    Readers,             \* concurrent downloads
    Params,              \* the query parameters of the downloads
    NoLog,               \* the empty application name in a query
    NoHost,              \* the empty host name in a query
    NoDate,              \* the undefined (zero) date in a query
    NoMsg,               \* no Write in progress
    NoOne,               \* the mutex is free
    MaxPoints,           \* size at which Write flushes     (20000 in the code)
    ChunkSize,           \* rows per chunk of a result      (20000 in the code)
    LogRetentionPeriod,  \* configured retention in days, 0 when missing
    Day,                 \* ticks of the clock in a day     (24 * time.Hour)
    StopSignals,         \* what may ask doWork to stop: "ctx", "quit"
    MaxClock             \* bound on the clock

Times == 0..MaxClock
Procs == {"writer", "worker"} \cup Readers
Point == [msg : Messages, log : Logs, host : Hosts, time : Times]
QueryParams == [AppName : Logs \cup {NoLog}, Hostname : Hosts \cup {NoHost},
                StartDate : Times \cup {NoDate}, EndDate : Times \cup {NoDate}]

ASSUME DatastoreAssumption ==
    /\ LogOf \in [Messages -> Logs]
    /\ HostOf \in [Messages -> Hosts]
    /\ Stamp \in [Messages -> Times]
    /\ RFC3164 \subseteq Messages
    /\ Unrepresentable \subseteq Messages
    /\ Refused \subseteq Messages
    /\ Params \subseteq QueryParams
    /\ NoMsg \notin Messages /\ NoOne \notin Procs
    /\ NoLog \notin Logs /\ NoHost \notin Hosts /\ NoDate \notin Times
    /\ Readers \cap {"writer", "worker"} = {}
    /\ MaxPoints \in Nat \ {0} /\ ChunkSize \in Nat \ {0}
    /\ LogRetentionPeriod \in Int /\ Day \in Nat
    /\ MaxClock \in Nat
    /\ StopSignals \subseteq {"ctx", "quit"}

VARIABLES
    clock,       \* the time of day
    mut,         \* i.mut: the goroutine that holds it, or NoOne
    points,      \* i.points
    db,          \* the points the database holds
    pc,          \* where each goroutine is
    fresh,       \* the messages Write has not been called for
    wmsg,        \* the argument of the Write in progress, or NoMsg
    failed,      \* the messages whose Write returned an error
    cutoff,      \* olderThan of the last Rotate
    rotating,    \* the logs Rotate has yet to delete from
    params,      \* the query parameters of each reader
    rest,        \* the points of a reader's result it has not read
    got,         \* the points a reader has read
    stopReq,     \* what asks doWork to stop: "ctx" cancelled, "quit" closed
    \* History of the run, read by the properties only.
    accepted,    \* the points of the Writes that returned nil, in order
    mark,        \* Len(accepted) when the reader's download began
    clean        \* whether the reader's flush and its result were free of errors

bufVars    == <<mut, points, db>>
writeVars  == <<fresh, wmsg, failed, accepted>>
rotateVars == <<cutoff, rotating>>
readVars   == <<params, rest, got, mark, clean>>
vars == <<clock, bufVars, pc, writeVars, rotateVars, readVars, stopReq>>

WriterStates == {"idle", "flush", "flushing", "append"}
WorkerStates == {"select", "flush", "flushing", "list", "delete", "done"}
ReaderStates == {"idle", "flush", "flushing", "query", "reading", "done", "failed"}

TypeOK ==
    /\ clock \in Times
    /\ mut \in Procs \cup {NoOne}
    /\ points \in Seq(Point)
    /\ db \subseteq Point
    /\ pc \in [Procs -> WriterStates \cup WorkerStates \cup ReaderStates]
    /\ pc["writer"] \in WriterStates
    /\ pc["worker"] \in WorkerStates
    /\ \A r \in Readers : pc[r] \in ReaderStates
    /\ fresh \subseteq Messages
    /\ wmsg \in Messages \cup {NoMsg}
    /\ wmsg = NoMsg <=> pc["writer"] = "idle"
    /\ failed \subseteq Messages
    /\ cutoff \in Int
    /\ rotating \subseteq Logs
    /\ params \in [Readers -> QueryParams]
    /\ rest \in [Readers -> SUBSET Point]
    /\ got \in [Readers -> SUBSET Point]
    /\ stopReq \subseteq {"ctx", "quit"}
    /\ accepted \in Seq(Point)
    /\ mark \in [Readers -> Nat]
    /\ clean \in [Readers -> BOOLEAN]

-----------------------------------------------------------------------------
\* config.InfluxDB.GetLogRetention
DefaultLogRetentionPeriod == 3
GetLogRetention == IF LogRetentionPeriod = 0 THEN DefaultLogRetentionPeriod
                                             ELSE LogRetentionPeriod

\* The retention period as configured, and as doWork subtracts it from the
\* time of day: -retentionPeriod days, which may not fit a Duration.
Retention == GetLogRetention * Day
NegRetention == DurationOf(-Retention)
RetentionFits == -Retention \in Durations

\* Mutant: the time of arrival is rounded up.
NewPointRoundsUp(m) == [msg |-> m, log |-> LogOf[m], host |-> HostOf[m],
                        time |-> IF m \in RFC3164 THEN clock + 1 ELSE Stamp[m]]

\* The point Write makes of a message. The time of arrival replaces the
\* timestamp of an RFC 3164 message.
NewPoint(m) == [msg |-> m, log |-> LogOf[m], host |-> HostOf[m],
                time |-> IF m \in RFC3164 THEN clock ELSE Stamp[m]]

\* The database keeps one point per measurement, tag set and time. (Of the
\* three tags, host name, severity and facility, the model has the first: its
\* messages agree on the other two.)
Key(p) == <<p.log, p.host, p.time>>

\* What the database holds after it stored the points of seq at the positions
\* in S, in order: a point replaces any earlier one with its key.
Store(old, seq, S) ==
    {p \in old : \A i \in S : Key(seq[i]) # Key(p)}
      \cup {seq[i] : i \in {j \in S : \A k \in S : k > j => Key(seq[k]) # Key(seq[j])}}

\* The condition prepareQuery builds from the parameters.
Matches(q, p) ==
    /\ p.log = q.AppName
    /\ q.Hostname # NoHost => p.host = q.Hostname
    /\ q.StartDate # NoDate => p.time >= q.StartDate
    /\ q.EndDate # NoDate => p.time <= q.EndDate

Init ==
    /\ clock = 0 /\ mut = NoOne
    /\ points = <<>> /\ db = {}
    /\ pc = [p \in Procs |-> IF p = "worker" THEN "select" ELSE "idle"]
    /\ fresh = Messages /\ wmsg = NoMsg /\ failed = {}
    /\ cutoff = NegRetention /\ rotating = {}
    /\ params \in [Readers -> Params]
    /\ rest = [r \in Readers |-> {}] /\ got = [r \in Readers |-> {}]
    /\ stopReq = {}
    /\ accepted = <<>>
    /\ mark = [r \in Readers |-> 0] /\ clean = [r \in Readers |-> FALSE]

Goto(p, label) == pc' = [pc EXCEPT ![p] = label]

-----------------------------------------------------------------------------
(* Write                                                                   *)

\* The length of the buffer is read without the mutex.
WriteCall(m) ==
    /\ pc["writer"] = "idle" /\ m \in fresh
    /\ fresh' = fresh \ {m}
    /\ wmsg' = m
    /\ Goto("writer", IF Len(points) >= MaxPoints THEN "flush" ELSE "append")
    /\ UNCHANGED <<clock, bufVars, failed, accepted, rotateVars, readVars, stopReq>>

\* Under the mutex: the point is made and appended, or Write fails.
WriteAppend ==
    /\ pc["writer"] = "append" /\ mut = NoOne
    /\ \/ /\ wmsg \notin Unrepresentable
          /\ points' = Append(points, NewPoint(wmsg))
          /\ accepted' = Append(accepted, NewPoint(wmsg))
          /\ UNCHANGED failed
       \/ /\ wmsg \in Unrepresentable
          /\ failed' = failed \cup {wmsg}
          /\ UNCHANGED <<points, accepted>>
    /\ wmsg' = NoMsg
    /\ Goto("writer", "idle")
    /\ UNCHANGED <<clock, mut, db, fresh, rotateVars, readVars, stopReq>>

-----------------------------------------------------------------------------
(* flush, called by Write, by doWork and by ReadNext                       *)

FlushLock(p) ==
    /\ pc[p] = "flush" /\ mut = NoOne
    /\ mut' = p
    /\ Goto(p, "flushing")
    /\ UNCHANGED <<clock, points, db, writeVars, rotateVars, readVars, stopReq>>

\* Where flush returns to: Write goes on or gives up, doWork waits for the next
\* tick, ReadNext prepares its query.
ReturnFromFlush(p, writerNext) ==
    Goto(p, IF p = "writer" THEN writerNext
            ELSE IF p = "worker" THEN "select" ELSE "query")

\* There is nothing to write, or i.con.Write stores the whole batch.
FlushOk(p) ==
    /\ pc[p] = "flushing"
    /\ \A i \in DOMAIN points : points[i].msg \notin Refused
    /\ db' = Store(db, points, DOMAIN points)
    /\ points' = <<>>
    /\ mut' = NoOne
    /\ ReturnFromFlush(p, "append")
    /\ clean' = IF p \in Readers THEN [clean EXCEPT ![p] = TRUE] ELSE clean
    /\ UNCHANGED <<clock, writeVars, rotateVars, params, rest, got, mark, stopReq>>

\* Mutant: the buffer is emptied although the write failed.
FlushErrForgets(p) ==
    /\ pc[p] = "flushing" /\ points # <<>>
    /\ mut' = NoOne
    /\ points' = <<>>
    /\ ReturnFromFlush(p, "idle")
    /\ IF p = "writer" THEN failed' = failed \cup {wmsg} /\ wmsg' = NoMsg
                       ELSE UNCHANGED <<failed, wmsg>>
    /\ UNCHANGED <<clock, db, fresh, accepted, rotateVars, readVars, stopReq>>

\* Mutant: Write ignores the error and appends to the full buffer.
FlushErrIgnored(p) ==
    /\ pc[p] = "flushing" /\ points # <<>>
    /\ mut' = NoOne
    /\ ReturnFromFlush(p, "append")
    /\ UNCHANGED <<clock, points, db, writeVars, rotateVars, readVars, stopReq>>

\* Mutant: the error path does not release the mutex.
FlushErrKeepsMutex(p) ==
    /\ pc[p] = "flushing" /\ points # <<>>
    /\ ReturnFromFlush(p, "idle")
    /\ IF p = "writer" THEN failed' = failed \cup {wmsg} /\ wmsg' = NoMsg
                       ELSE UNCHANGED <<failed, wmsg>>
    /\ UNCHANGED <<clock, bufVars, fresh, accepted, rotateVars, readVars, stopReq>>

\* Mutant: doWork returns when a flush fails.
FlushErrEndsWorker(p) ==
    /\ pc[p] = "flushing" /\ points # <<>>
    /\ mut' = NoOne
    /\ IF p = "worker" THEN Goto(p, "done") ELSE ReturnFromFlush(p, "idle")
    /\ IF p = "writer" THEN failed' = failed \cup {wmsg} /\ wmsg' = NoMsg
                       ELSE UNCHANGED <<failed, wmsg>>
    /\ UNCHANGED <<clock, points, db, fresh, accepted, rotateVars, readVars, stopReq>>

\* Mutant: the first point of a batch that failed is not tried again.
FlushErrDropsFirst(p) ==
    /\ pc[p] = "flushing" /\ points # <<>>
    /\ \E S \in SUBSET {i \in DOMAIN points : points[i].msg \notin Refused} :
         db' = Store(db, points, S)
    /\ mut' = NoOne
    /\ points' = Tail(points)
    /\ ReturnFromFlush(p, "idle")
    /\ IF p = "writer" THEN failed' = failed \cup {wmsg} /\ wmsg' = NoMsg
                       ELSE UNCHANGED <<failed, wmsg>>
    /\ UNCHANGED <<clock, fresh, accepted, rotateVars, readVars, stopReq>>

\* i.con.Write returns an error. The database may have stored any part of the
\* batch before that. The buffer is kept. Write passes the error on; doWork
\* logs it; ReadNext ignores it.
FlushErr(p) ==
    /\ pc[p] = "flushing" /\ points # <<>>
    /\ \E S \in SUBSET {i \in DOMAIN points : points[i].msg \notin Refused} :
         db' = Store(db, points, S)
    /\ mut' = NoOne
    /\ ReturnFromFlush(p, "idle")
    /\ IF p = "writer" THEN failed' = failed \cup {wmsg} /\ wmsg' = NoMsg
                       ELSE UNCHANGED <<failed, wmsg>>
    /\ UNCHANGED <<clock, points, fresh, accepted, rotateVars, readVars, stopReq>>

-----------------------------------------------------------------------------
(* doWork and Rotate                                                       *)

TickFlush ==
    /\ pc["worker"] = "select"
    /\ Goto("worker", "flush")
    /\ UNCHANGED <<clock, bufVars, writeVars, rotateVars, readVars, stopReq>>

\* Mutant: the limit is computed once, before the loop.
TickRotateOldLimit ==
    /\ pc["worker"] = "select"
    /\ Goto("worker", "list")
    /\ UNCHANGED <<clock, bufVars, writeVars, rotateVars, readVars, stopReq>>

\* The limit is computed, then Rotate asks for the list of logs.
TickRotate ==
    /\ pc["worker"] = "select"
    /\ cutoff' = clock + NegRetention
    /\ Goto("worker", "list")
    /\ UNCHANGED <<clock, bufVars, writeVars, rotating, readVars, stopReq>>

RotateList ==
    /\ pc["worker"] = "list"
    /\ rotating' = {p.log : p \in db}
    /\ Goto("worker", IF db = {} THEN "select" ELSE "delete")
    /\ UNCHANGED <<clock, bufVars, writeVars, cutoff, readVars, stopReq>>

\* Mutant: the limit itself is deleted too.
ExpiredOffByOne(l) == {p \in db : p.log = l /\ p.time <= cutoff}

\* delete from the log where time < olderThan
Expired(l) == {p \in db : p.log = l /\ p.time < cutoff}

RotateDelete(l) ==
    /\ pc["worker"] = "delete" /\ l \in rotating
    /\ db' = db \ Expired(l)
    /\ rotating' = rotating \ {l}
    /\ Goto("worker", IF rotating = {l} THEN "select" ELSE "delete")
    /\ UNCHANGED <<clock, mut, points, writeVars, cutoff, readVars, stopReq>>

\* List, or one of the deletes, fails: the rest of the rotation is skipped. (A
\* failure List meets inside a result it takes for an empty list: the same.) A
\* delete that fails may have taken effect.
RotateErr ==
    /\ \/ pc["worker"] = "list" /\ UNCHANGED db
       \/ pc["worker"] = "delete" /\ UNCHANGED db
       \/ pc["worker"] = "delete" /\ \E l \in rotating : db' = db \ Expired(l)
    /\ rotating' = {}
    /\ Goto("worker", "select")
    /\ UNCHANGED <<clock, mut, points, writeVars, cutoff, readVars, stopReq>>

\* The database reports the failure of a delete inside a result: Rotate looks at
\* resp.Err only, takes the delete for done and goes on to the next log.
RotateSkip(l) ==
    /\ pc["worker"] = "delete" /\ l \in rotating
    /\ rotating' = rotating \ {l}
    /\ Goto("worker", IF rotating = {l} THEN "select" ELSE "delete")
    /\ UNCHANGED <<clock, bufVars, writeVars, cutoff, readVars, stopReq>>

\* cancel() of the context in main, or Stop closing i.quit.
RequestStop(s) ==
    /\ s \notin stopReq
    /\ stopReq' = stopReq \cup {s}
    /\ UNCHANGED <<clock, bufVars, pc, writeVars, rotateVars, readVars>>

\* Mutant: only quit is honoured.
WorkerExitOnQuit ==
    /\ pc["worker"] = "select" /\ "quit" \in stopReq
    /\ Goto("worker", "done")
    /\ UNCHANGED <<clock, bufVars, writeVars, rotateVars, readVars, stopReq>>

\* ctx.Done or quit: doWork returns and closes i.closed.
WorkerExit ==
    /\ pc["worker"] = "select" /\ stopReq # {}
    /\ Goto("worker", "done")
    /\ UNCHANGED <<clock, bufVars, writeVars, rotateVars, readVars, stopReq>>

-----------------------------------------------------------------------------
(* ResultReader and ReadNext                                               *)

\* The first ReadNext of a download.
ReadStart(r) ==
    /\ pc[r] = "idle"
    /\ mark' = [mark EXCEPT ![r] = Len(accepted)]
    /\ Goto(r, "flush")
    /\ UNCHANGED <<clock, bufVars, writeVars, rotateVars, params, rest, got,
                   clean, stopReq>>

\* prepareQuery refuses an empty application name.
ReadQuery(r) ==
    /\ pc[r] = "query" /\ params[r].AppName # NoLog
    /\ rest' = [rest EXCEPT ![r] = {p \in db : Matches(params[r], p)}]
    /\ Goto(r, "reading")
    /\ UNCHANGED <<clock, bufVars, writeVars, rotateVars, params, got, mark,
                   clean, stopReq>>

\* NextResponse returns the next rows in time order.
ReadChunk(r) ==
    /\ pc[r] = "reading"
    /\ \E rows \in SUBSET rest[r] :
         /\ rows # {} /\ Cardinality(rows) <= ChunkSize
         /\ Cardinality(rows) < ChunkSize => rows = rest[r]
         /\ \A p \in rows, q \in rest[r] \ rows : p.time <= q.time
         /\ got' = [got EXCEPT ![r] = @ \cup rows]
         /\ rest' = [rest EXCEPT ![r] = @ \ rows]
    /\ UNCHANGED <<clock, bufVars, pc, writeVars, rotateVars, params, mark,
                   clean, stopReq>>

\* Mutant: one response is taken for the whole result.
ReadEOFEarly(r) ==
    /\ pc[r] = "reading" /\ (rest[r] = {} \/ got[r] # {})
    /\ Goto(r, "done")
    /\ UNCHANGED <<clock, bufVars, writeVars, rotateVars, readVars, stopReq>>

ReadEOF(r) ==
    /\ pc[r] = "reading" /\ rest[r] = {}
    /\ Goto(r, "done")
    /\ UNCHANGED <<clock, bufVars, writeVars, rotateVars, readVars, stopReq>>

\* The database reports an error inside a response: ReadNext does not look at
\* res.Err, takes the response for one without rows, and the result ends.
ReadErrIgnored(r) ==
    /\ pc[r] = "reading"
    /\ rest' = [rest EXCEPT ![r] = {}]
    /\ clean' = [clean EXCEPT ![r] = FALSE]
    /\ UNCHANGED <<clock, bufVars, pc, writeVars, rotateVars, params, got, mark,
                   stopReq>>

\* prepareQuery or QueryAsChunk fails, or NextResponse fails.
ReadErr(r) ==
    /\ pc[r] \in {"query", "reading"}
    /\ Goto(r, "failed")
    /\ UNCHANGED <<clock, bufVars, writeVars, rotateVars, readVars, stopReq>>

-----------------------------------------------------------------------------
ClockTick ==
    /\ clock < MaxClock
    /\ clock' = clock + 1
    /\ UNCHANGED <<bufVars, pc, writeVars, rotateVars, readVars, stopReq>>

WorkerStep ==
    \/ TickFlush \/ TickRotate
    \/ RotateList \/ RotateErr
    \/ \E l \in Logs : RotateDelete(l) \/ RotateSkip(l)
    \/ WorkerExit

ReaderStep(r) ==
    \/ ReadStart(r) \/ ReadQuery(r) \/ ReadChunk(r) \/ ReadEOF(r)
    \/ ReadErrIgnored(r) \/ ReadErr(r)

Next ==
    \/ \E m \in Messages : WriteCall(m)
    \/ WriteAppend
    \/ \E p \in Procs : FlushLock(p) \/ FlushOk(p) \/ FlushErr(p)
    \/ WorkerStep
    \/ \E r \in Readers : ReaderStep(r)
    \/ \E s \in StopSignals : RequestStop(s)
    \/ ClockTick

Spec == Init /\ [][Next]_vars

(***************************************************************************)
(* Fairness. A goroutine waiting for the mutex gets it in the end (Go's    *)
(* mutex hands itself over to a waiter that starves), a call to the        *)
(* database returns, the tickers fire, and a case of doWork's select that  *)
(* is ready again and again is taken. Of the database: the flushes of the  *)
(* worker, and each kind of query of its rotations, do not fail for ever.  *)
(* Writes, downloads, the clock and stop requests are not fair.            *)
(***************************************************************************)
Fairness ==
    /\ \A p \in {"writer", "worker"} : SF_vars(FlushLock(p))
    /\ \A p \in Procs : WF_vars(FlushOk(p) \/ FlushErr(p))
    /\ SF_vars(FlushOk("worker"))
    /\ SF_vars(WriteAppend)
    /\ SF_vars(TickFlush) /\ SF_vars(TickRotate) /\ SF_vars(WorkerExit)
    /\ WF_vars(RotateErr \/ RotateList \/ \E l \in Logs : RotateDelete(l) \/ RotateSkip(l))
    /\ SF_vars(RotateList)
    /\ \A l \in Logs : SF_vars(RotateDelete(l))

FairSpec == Spec /\ Fairness

-----------------------------------------------------------------------------
(* Safety                                                                  *)

\* The buffer never outgrows the size at which Write flushes it, although
\* Write tests the length before it takes the mutex and the flush it calls may
\* fail (influxdb.go:167-171 and 191).
BufferBounded == Len(points) <= MaxPoints

\* accepted[i] was not overwritten: no later point has its key.
IsNewest(i) ==
    \A j \in DOMAIN accepted : j > i => Key(accepted[j]) # Key(accepted[i])

\* An accepted point is in the buffer or in the database until a later point
\* of the same key replaces it or it expires: no failed or partial flush,
\* retry or rotation loses it or brings an older one back
\* (influxdb.go:144-164, 197-216).
NewestKept ==
    \A i \in DOMAIN accepted :
        IsNewest(i) => \/ accepted[i] \in Range(points) \cup db
                       \/ accepted[i].time < cutoff

\* A point leaves the database because another with its key replaces it or
\* because it is older than the retention period at that moment, even when
\* the rotation was slow (influxdb.go:92-100 and 205-206, config.go:265-270).
RetentionRespected ==
    [][\A p \in db \ db' :
          \/ \E q \in db' : Key(q) = Key(p)
          \/ p.time < clock - Retention]_vars

\* A download that met no error has every matching point accepted before it
\* began that was not overwritten or expired, whatever writes, flushes and
\* rotations ran beside it (influxdb.go:310-352).
DownloadComplete ==
    \A r \in Readers :
        pc[r] = "done" /\ clean[r] =>
            \A i \in 1..mark[r] :
                IsNewest(i) /\ Matches(params[r], accepted[i])
                    => accepted[i] \in got[r] \/ accepted[i].time < cutoff

-----------------------------------------------------------------------------
(* Refinement                                                              *)

\* The store seen from outside is the database as the next successful flush
\* would leave it: buffered points hide the ones they will overwrite.
LS == INSTANCE LogStore WITH contents  <- Store(db, points, DOMAIN points),
                             Retention <- Retention

\* The buffered, flushing, retrying, rotating store behaves like LogStore, an
\* atomic one: no flush, whole, partial or failed, and no retry changes what the
\* store answers for; only an accepted Write adds and only a rotation removes
\* (common.go:26-34, influxdb.go:144-216).
ImplementsLogStore == LS!Spec

-----------------------------------------------------------------------------
(* Liveness                                                                *)

Buffered == {points[i].msg : i \in DOMAIN points}

\* A buffered point reaches the database, unless the store is stopped or the
\* buffer holds a point that the database refuses, which keeps every flush of
\* the whole buffer from succeeding (influxdb.go:89-92 and 154-161).
BufferedIsStored ==
    \A m \in Messages :
        m \in Buffered ~> m \notin Buffered \/ stopReq # {} \/ Buffered \cap Refused # {}

\* Write returns, whoever else uses the mutex (influxdb.go:166-195).
WriteReturns == wmsg # NoMsg ~> wmsg = NoMsg

\* Unless the store is stopped, a point older than the retention period is
\* deleted, however often rotations fail half way (influxdb.go:93-101,
\* 197-216).
ExpiredIsDeleted ==
    \A l \in Logs :
        (\E p \in db : p.log = l /\ p.time < clock - Retention)
            ~> \/ \A p \in db : p.log = l => p.time >= clock - Retention
               \/ stopReq # {}

\* A stop request ends doWork even while the database fails
\* (influxdb.go:87-88, 102-103, 113-121).
StopEndsWorker == stopReq # {} ~> pc["worker"] = "done"
=============================================================================
