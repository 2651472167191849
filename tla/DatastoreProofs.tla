-------------------------- MODULE DatastoreProofs --------------------------
(***************************************************************************)
(* Proofs about the InfluxDB data store, for any messages, readers, buffer *)
(* size, retention period and behaviour of the database. The two theorems  *)
(* on what rotations delete take a retention period that fits a Duration.  *)
(***************************************************************************)
EXTENDS InfluxDatastore, SequenceTheorems, WellFoundedInduction, TLAPS

-----------------------------------------------------------------------------
(* Type correctness                                                        *)

\* The facts about the constants that the proofs use.
LEMMA ConstantFacts ==
    /\ MaxPoints \in Nat \ {0} /\ MaxClock \in Nat
    /\ Times \subseteq Nat
    /\ "writer" \in Procs /\ "worker" \in Procs /\ Readers \subseteq Procs
    /\ "writer" \notin Readers /\ "worker" \notin Readers
    /\ StopSignals \subseteq {"ctx", "quit"}
    /\ NoMsg \notin Messages /\ NoOne \notin Procs
  BY DatastoreAssumption DEF DatastoreAssumption, Times, Procs

\* What an int64 holds is a number, and the number itself when it fits.
LEMMA DurationType ==
    ASSUME NEW n \in Int
    PROVE  DurationOf(n) \in Int /\ (n \in Durations => DurationOf(n) = n)
<1>1. MaxDuration \in Nat
  BY DurationAssumption DEF DurationAssumption
<1>2. \A a \in Int, b \in Nat \ {0} : a % b \in Int
  OBVIOUS
<1>3. n + MaxDuration + 1 \in Int /\ 2 * (MaxDuration + 1) \in Nat \ {0}
  BY <1>1
<1>4. (n + MaxDuration + 1) % (2 * (MaxDuration + 1)) \in Int
  BY <1>2, <1>3
<1>5. QED
  BY <1>1, <1>4 DEF DurationOf

\* The retention period is a number of ticks, and so is its negation.
LEMMA RetentionType ==
    /\ Retention \in Int /\ NegRetention \in Int
    /\ RetentionFits => NegRetention = -Retention
<1>1. GetLogRetention \in Int /\ Day \in Nat
  BY DatastoreAssumption DEF DatastoreAssumption, GetLogRetention, DefaultLogRetentionPeriod
<1>2. \A a, b \in Int : a * b \in Int
  OBVIOUS
<1>3. Retention \in Int /\ -Retention \in Int
  BY <1>1, <1>2 DEF Retention
<1>4. QED
  BY <1>3, DurationType DEF NegRetention, RetentionFits

\* The point Write makes of a message is well formed.
LEMMA NewPointType ==
    ASSUME clock \in Times, NEW m \in Messages
    PROVE  NewPoint(m) \in Point
  BY DatastoreAssumption DEF DatastoreAssumption, NewPoint, Point

\* Storing points yields points.
LEMMA StoreType ==
    ASSUME NEW old \in SUBSET Point, NEW seq \in Seq(Point), NEW S \in SUBSET DOMAIN seq
    PROVE  Store(old, seq, S) \subseteq Point
<1>1. \A i \in S : seq[i] \in Point
  OBVIOUS
<1>2. QED
  BY <1>1 DEF Store

\* The variables start with values of their types.
LEMMA TypeInit == Init => TypeOK
<1> SUFFICES ASSUME Init PROVE TypeOK
  OBVIOUS
<1>1. pc = [p \in Procs |-> IF p = "worker" THEN "select" ELSE "idle"]
  BY DEF Init
<1>2. /\ pc \in [Procs -> WriterStates \cup WorkerStates \cup ReaderStates]
      /\ pc["writer"] = "idle" /\ pc["worker"] = "select"
      /\ \A r \in Readers : pc[r] = "idle"
  BY <1>1, ConstantFacts DEF WriterStates, WorkerStates, ReaderStates
<1>3. Params \subseteq QueryParams
  BY DatastoreAssumption DEF DatastoreAssumption
<1>4. QED
  BY <1>2, <1>3, ConstantFacts, RetentionType
     DEF Init, TypeOK, WriterStates, WorkerStates, ReaderStates, Times

\* A goroutine that moves to one of its own states keeps the program counters
\* well formed.
LEMMA GotoType ==
    ASSUME TypeOK, NEW p \in Procs, NEW label, Goto(p, label),
           p = "writer" => label \in WriterStates,
           p = "worker" => label \in WorkerStates,
           p \in Readers => label \in ReaderStates
    PROVE  /\ pc' \in [Procs -> WriterStates \cup WorkerStates \cup ReaderStates]
           /\ pc'["writer"] \in WriterStates
           /\ pc'["worker"] \in WorkerStates
           /\ \A r \in Readers : pc'[r] \in ReaderStates
           /\ pc'[p] = label
           /\ \A q \in Procs : q # p => pc'[q] = pc[q]
<1>1. p \in {"writer", "worker"} \cup Readers
  BY DEF Procs
<1>2. label \in WriterStates \cup WorkerStates \cup ReaderStates
  BY <1>1
<1>3. QED
  BY <1>2, ConstantFacts DEF TypeOK, Goto

\* Every step of every goroutine keeps the types.
LEMMA TypeNext == TypeOK /\ [Next]_vars => TypeOK'
<1> SUFFICES ASSUME TypeOK, [Next]_vars PROVE TypeOK'
  OBVIOUS
<1> DEFINE PcOK == /\ pc \in [Procs -> WriterStates \cup WorkerStates \cup ReaderStates]
                   /\ pc["writer"] \in WriterStates
                   /\ pc["worker"] \in WorkerStates
                   /\ \A r \in Readers : pc[r] \in ReaderStates
<1> USE ConstantFacts DEF bufVars, writeVars, rotateVars, readVars
<1>1. ASSUME NEW m \in Messages, WriteCall(m) PROVE TypeOK'
  <2>1. PcOK' /\ pc'["writer"] \in {"flush", "append"}
    BY <1>1, GotoType DEF WriteCall, WriterStates
  <2>2. QED
    BY <1>1, <2>1 DEF WriteCall, TypeOK
<1>2. CASE WriteAppend
  <2>1. PcOK' /\ pc'["writer"] = "idle"
    BY <1>2, GotoType DEF WriteAppend, WriterStates
  <2>2. wmsg \in Messages
    BY <1>2 DEF WriteAppend, TypeOK
  <2>3. NewPoint(wmsg) \in Point
    BY <2>2, NewPointType DEF TypeOK
  <2>4. points' \in Seq(Point) /\ accepted' \in Seq(Point)
    <3>1. ASSUME NEW s \in Seq(Point) PROVE Append(s, NewPoint(wmsg)) \in Seq(Point)
      BY <2>3
    <3>2. points \in Seq(Point) /\ accepted \in Seq(Point)
      BY DEF TypeOK
    <3>3. QED
      BY <1>2, <3>1, <3>2 DEF WriteAppend
  <2>5. failed' \subseteq Messages
    BY <1>2, <2>2 DEF WriteAppend, TypeOK
  <2>6. QED
    BY <1>2, <2>1, <2>4, <2>5 DEF WriteAppend, TypeOK
<1>3. ASSUME NEW p \in Procs, FlushLock(p) PROVE TypeOK'
  <2>1. PcOK' /\ pc'[p] = "flushing" /\ \A q \in Procs : q # p => pc'[q] = pc[q]
    BY <1>3, GotoType DEF FlushLock, WriterStates, WorkerStates, ReaderStates
  <2>2. wmsg = NoMsg <=> pc'["writer"] = "idle"
    BY <1>3, <2>1 DEF FlushLock, TypeOK
  <2>3. QED
    BY <1>3, <2>1, <2>2 DEF FlushLock, TypeOK
<1>4. ASSUME NEW p \in Procs, FlushOk(p) PROVE TypeOK'
  <2>1. /\ PcOK' /\ \A q \in Procs : q # p => pc'[q] = pc[q]
        /\ p = "writer" => pc'[p] = "append"
    BY <1>4, GotoType DEF FlushOk, ReturnFromFlush, WriterStates, WorkerStates, ReaderStates
  <2>2. wmsg = NoMsg <=> pc'["writer"] = "idle"
    BY <1>4, <2>1 DEF FlushOk, TypeOK
  <2>3. db' \subseteq Point
    BY <1>4, StoreType DEF FlushOk, TypeOK
  <2>4. clean' \in [Readers -> BOOLEAN]
    BY <1>4 DEF FlushOk, TypeOK
  <2>5. QED
    BY <1>4, <2>1, <2>2, <2>3, <2>4 DEF FlushOk, TypeOK
<1>5. ASSUME NEW p \in Procs, FlushErr(p) PROVE TypeOK'
  <2>1. /\ PcOK' /\ \A q \in Procs : q # p => pc'[q] = pc[q]
        /\ p = "writer" => pc'[p] = "idle"
    BY <1>5, GotoType DEF FlushErr, ReturnFromFlush, WriterStates, WorkerStates, ReaderStates
  <2>2. db' \subseteq Point
    <3>1. PICK S \in SUBSET {i \in DOMAIN points : points[i].msg \notin Refused} :
            db' = Store(db, points, S)
      BY <1>5 DEF FlushErr
    <3>2. QED
      BY <3>1, StoreType DEF TypeOK
  <2>3. /\ wmsg' \in Messages \cup {NoMsg}
        /\ wmsg' = NoMsg <=> pc'["writer"] = "idle"
        /\ failed' \subseteq Messages
    <3>1. CASE p = "writer"
      BY <1>5, <2>1, <3>1 DEF FlushErr, TypeOK
    <3>2. CASE p # "writer"
      BY <1>5, <2>1, <3>2 DEF FlushErr, TypeOK
    <3>3. QED
      BY <3>1, <3>2
  <2>4. QED
    BY <1>5, <2>1, <2>2, <2>3 DEF FlushErr, TypeOK
<1>6. ASSUME NEW label \in WorkerStates, Goto("worker", label)
      PROVE  PcOK' /\ pc'["writer"] = pc["writer"]
  BY <1>6, GotoType
<1>7. CASE TickFlush
  BY <1>6, <1>7 DEF TickFlush, WorkerStates, TypeOK
<1>8. CASE TickRotate
  BY <1>6, <1>8 DEF TickRotate, WorkerStates, TypeOK
<1>9. CASE RotateList
  <2>1. {p.log : p \in db} \subseteq Logs
    BY DEF TypeOK, Point
  <2>2. QED
    BY <1>6, <1>9, <2>1 DEF RotateList, WorkerStates, TypeOK
<1>10. CASE RotateErr
  BY <1>6, <1>10 DEF RotateErr, WorkerStates, TypeOK
<1>11. ASSUME NEW l \in Logs, RotateDelete(l) \/ RotateSkip(l) PROVE TypeOK'
  BY <1>6, <1>11 DEF RotateDelete, RotateSkip, WorkerStates, TypeOK
<1>12. CASE WorkerExit
  BY <1>6, <1>12 DEF WorkerExit, WorkerStates, TypeOK
<1>13. ASSUME NEW r \in Readers, NEW label \in ReaderStates, Goto(r, label)
       PROVE  PcOK' /\ pc'["writer"] = pc["writer"]
  BY <1>13, GotoType
<1>14. ASSUME NEW r \in Readers, ReadStart(r) PROVE TypeOK'
  <2>1. Len(accepted) \in Nat
    BY DEF TypeOK
  <2>2. QED
    BY <1>13, <1>14, <2>1 DEF ReadStart, ReaderStates, TypeOK
<1>15. ASSUME NEW r \in Readers, ReadQuery(r) PROVE TypeOK'
  BY <1>13, <1>15 DEF ReadQuery, ReaderStates, TypeOK
<1>16. ASSUME NEW r \in Readers, ReadChunk(r) PROVE TypeOK'
  BY <1>16 DEF ReadChunk, TypeOK
<1>17. ASSUME NEW r \in Readers, ReadEOF(r) PROVE TypeOK'
  BY <1>13, <1>17 DEF ReadEOF, ReaderStates, TypeOK
<1>18. ASSUME NEW r \in Readers, ReadErrIgnored(r) PROVE TypeOK'
  BY <1>18 DEF ReadErrIgnored, TypeOK
<1>19. ASSUME NEW r \in Readers, ReadErr(r) PROVE TypeOK'
  BY <1>13, <1>19 DEF ReadErr, ReaderStates, TypeOK
<1>20. ASSUME NEW s \in StopSignals, RequestStop(s) PROVE TypeOK'
  BY <1>20 DEF RequestStop, TypeOK
<1>21. CASE ClockTick
  BY <1>21 DEF ClockTick, TypeOK, Times
<1>22. CASE UNCHANGED vars
  BY <1>22 DEF vars, TypeOK
<1>23. QED
  BY <1>1, <1>2, <1>3, <1>4, <1>5, <1>7, <1>8, <1>9, <1>10, <1>11, <1>12, <1>14,
     <1>15, <1>16, <1>17, <1>18, <1>19, <1>20, <1>21, <1>22
     DEF Next, WorkerStep, ReaderStep

\* The data store's variables keep their types.
THEOREM TypeCorrect == Spec => []TypeOK
<1>1. QED
  BY TypeInit, TypeNext, PTL DEF Spec

-----------------------------------------------------------------------------
(* The inductive invariant                                                 *)

\* Write passes its test of the length only when there is room, and nobody
\* else adds to the buffer before it does.
RoomInv == pc["writer"] = "append" => Len(points) < MaxPoints

\* The number of accepted points that left the buffer.
Settled == Len(accepted) - Len(points)

\* The buffer is the end of the sequence of accepted points.
SuffixInv ==
    /\ Len(points) <= Len(accepted)
    /\ \A k \in 1..Len(points) : points[k] = accepted[Settled + k]

\* The limit of the last rotation lies as far back as doWork subtracts.
CutoffInv == cutoff <= clock + NegRetention

\* When a reader's flush succeeded, what was accepted before the download is
\* in the database; once the query ran, it is in the result.
ResultComplete(r) ==
    \A i \in 1..mark[r] :
        IsNewest(i) /\ Matches(params[r], accepted[i])
            => accepted[i] \in rest[r] \cup got[r] \/ accepted[i].time < cutoff

\* What is known of a reader at each of its steps.
ReaderOK(r) ==
    /\ mark[r] <= Len(accepted)
    /\ clean[r] => pc[r] \in {"query", "reading", "done", "failed"}
    /\ pc[r] = "query" /\ clean[r] => mark[r] <= Settled
    /\ pc[r] \in {"reading", "done"} /\ clean[r] => ResultComplete(r)
    /\ pc[r] = "done" => rest[r] = {}

\* And of all of them.
ReadersInv == \A r \in Readers : ReaderOK(r)

-----------------------------------------------------------------------------
(* What a step may change.                                                 *)

\* Only Write adds to the buffer and to the accepted points; only a flush
\* empties the buffer.
LEMMA BufferMoves ==
    ASSUME [Next]_vars
    PROVE  \/ UNCHANGED <<points, accepted>>
           \/ /\ pc["writer"] = "append"
              /\ Goto("writer", "idle")
              /\ points' = Append(points, NewPoint(wmsg))
              /\ accepted' = Append(accepted, NewPoint(wmsg))
              /\ UNCHANGED <<clock, db, rotateVars, readVars>>
           \/ points' = <<>> /\ UNCHANGED accepted
<1> USE DEF bufVars, writeVars
<1>1. CASE WriteAppend
  BY <1>1 DEF WriteAppend
<1>2. ASSUME NEW p \in Procs, FlushLock(p) \/ FlushOk(p) \/ FlushErr(p)
      PROVE  UNCHANGED <<points, accepted>> \/ (points' = <<>> /\ UNCHANGED accepted)
  BY <1>2 DEF FlushLock, FlushOk, FlushErr
<1>3. ASSUME NEW r \in Readers, ReaderStep(r) PROVE UNCHANGED <<points, accepted>>
  BY <1>3 DEF ReaderStep, ReadStart, ReadQuery, ReadChunk, ReadEOF, ReadErrIgnored, ReadErr
<1>4. CASE WorkerStep
  BY <1>4 DEF WorkerStep, TickFlush, TickRotate, RotateList, RotateErr, RotateDelete,
     RotateSkip, WorkerExit
<1>5. QED
  BY <1>1, <1>2, <1>3, <1>4 DEF Next, vars, WriteCall, RequestStop, ClockTick

\* The clock and the limit of the rotations do not go back.
LEMMA CutoffStep ==
    ASSUME TypeOK, CutoffInv, [Next]_vars
    PROVE  CutoffInv' /\ cutoff <= cutoff'
<1> USE DEF rotateVars
<1>1. \/ UNCHANGED <<clock, cutoff>>
      \/ clock' = clock + 1 /\ UNCHANGED cutoff
      \/ cutoff' = clock + NegRetention /\ UNCHANGED clock
  <2>1. ASSUME NEW p \in Procs, FlushLock(p) \/ FlushOk(p) \/ FlushErr(p)
        PROVE  UNCHANGED <<clock, cutoff>>
    BY <2>1 DEF FlushLock, FlushOk, FlushErr
  <2>2. ASSUME NEW r \in Readers, ReaderStep(r) PROVE UNCHANGED <<clock, cutoff>>
    BY <2>2 DEF ReaderStep, ReadStart, ReadQuery, ReadChunk, ReadEOF, ReadErrIgnored, ReadErr
  <2>3. CASE WorkerStep
    BY <2>3 DEF WorkerStep, TickFlush, TickRotate, RotateList, RotateErr, RotateDelete,
     RotateSkip, WorkerExit
  <2>4. QED
    BY <2>1, <2>2, <2>3 DEF Next, vars, WriteCall, WriteAppend, RequestStop, ClockTick
<1>2. clock \in Nat /\ cutoff \in Int /\ NegRetention \in Int
  BY ConstantFacts, RetentionType DEF TypeOK
<1>3. QED
  BY <1>1, <1>2 DEF CutoffInv

\* The buffer stays within its bound: what Write saw of the length still holds
\* when it appends, because others only shorten the buffer.
LEMMA RoomStep ==
    ASSUME TypeOK, RoomInv, BufferBounded, [Next]_vars
    PROVE  RoomInv' /\ BufferBounded'
<1> USE ConstantFacts
<1>0. points \in Seq(Point) /\ Len(points) \in Nat /\ Len(<<>>) = 0
      /\ pc \in [Procs -> WriterStates \cup WorkerStates \cup ReaderStates]
  BY DEF TypeOK
<1>1. Len(points') <= Len(points) \/ (pc["writer"] = "append" /\ Len(points') = Len(points) + 1)
  BY <1>0, BufferMoves
<1>2. BufferBounded'
  BY <1>0, <1>1 DEF BufferBounded, RoomInv
<1>3. ASSUME pc'["writer"] = "append", pc["writer"] = "append" PROVE Len(points') < MaxPoints
  <2>1. ~Goto("writer", "idle")
    BY <1>0, <1>3 DEF Goto
  <2>2. UNCHANGED points \/ points' = <<>>
    BY <2>1, BufferMoves
  <2>3. QED
    BY <1>0, <1>3, <2>2 DEF RoomInv
<1>4. ASSUME pc'["writer"] = "append", pc["writer"] # "append" PROVE Len(points') < MaxPoints
  <2>1. ASSUME NEW m \in Messages, WriteCall(m) PROVE Len(points') < MaxPoints
    BY <1>0, <1>4, <2>1 DEF WriteCall, Goto, bufVars
  <2>2. ASSUME FlushOk("writer") PROVE Len(points') < MaxPoints
    BY <1>0, <2>2 DEF FlushOk
  <2>3. \/ \E m \in Messages : WriteCall(m)
        \/ FlushOk("writer")
    <3>1. ASSUME NEW p \in Procs, FlushLock(p) \/ FlushErr(p) \/ (FlushOk(p) /\ p # "writer") PROVE FALSE
      BY <1>0, <1>4, <3>1 DEF FlushLock, FlushErr, FlushOk, ReturnFromFlush, Goto
    <3>2. ASSUME NEW r \in Readers, ReaderStep(r) PROVE FALSE
      BY <1>0, <1>4, <3>2 DEF ReaderStep, ReadStart, ReadQuery, ReadChunk, ReadEOF,
         ReadErrIgnored, ReadErr, Goto
    <3>3. CASE WorkerStep
      BY <1>0, <1>4, <3>3 DEF WorkerStep, TickFlush, TickRotate, RotateList, RotateErr,
         RotateDelete, RotateSkip, WorkerExit, Goto
    <3>4. CASE WriteAppend
      BY <1>0, <1>4, <3>4 DEF WriteAppend, Goto
    <3>5. QED
      BY <1>4, <3>1, <3>2, <3>3, <3>4 DEF Next, vars, RequestStop, ClockTick
  <2>4. QED
    BY <2>1, <2>2, <2>3
<1>5. QED
  BY <1>2, <1>3, <1>4 DEF RoomInv

\* The buffer stays the end of the accepted points: Write extends both, a flush
\* empties the buffer as a whole.
LEMMA SuffixStep ==
    ASSUME TypeOK, SuffixInv, [Next]_vars
    PROVE  SuffixInv'
<1>1. /\ points \in Seq(Point) /\ Len(points) \in Nat
      /\ accepted \in Seq(Point) /\ Len(accepted) \in Nat
  BY DEF TypeOK
<1>2. CASE UNCHANGED <<points, accepted>>
  BY <1>2 DEF SuffixInv, Settled
<1>3. CASE points' = <<>> /\ UNCHANGED accepted
  BY <1>1, <1>3 DEF SuffixInv, Settled
<1>4. CASE /\ points' = Append(points, NewPoint(wmsg))
           /\ accepted' = Append(accepted, NewPoint(wmsg))
  <2> DEFINE e == NewPoint(wmsg)
  <2>1. Len(points') = Len(points) + 1 /\ Len(accepted') = Len(accepted) + 1 /\ Settled' = Settled
    BY <1>1, <1>4 DEF Settled
  <2>2. ASSUME NEW k \in 1..Len(points') PROVE points'[k] = accepted'[Settled' + k]
    <3>1. CASE k = Len(points) + 1
      BY <1>1, <1>4, <2>1, <3>1 DEF Settled
    <3>2. CASE k # Len(points) + 1
      <4>1. k \in 1..Len(points) /\ Settled + k \in 1..Len(accepted)
        BY <1>1, <2>1, <2>2, <3>2 DEF Settled, SuffixInv
      <4>2. points'[k] = points[k] /\ accepted'[Settled + k] = accepted[Settled + k]
        BY <1>1, <1>4, <4>1
      <4>3. QED
        BY <2>1, <4>1, <4>2 DEF SuffixInv
    <3>3. QED
      BY <3>1, <3>2
  <2>3. QED
    BY <1>1, <2>1, <2>2 DEF SuffixInv
<1>5. QED
  BY <1>2, <1>3, <1>4, BufferMoves

-----------------------------------------------------------------------------
(* What the database does with a batch.                                    *)

\* A point stays when no point of the batch has its key.
LEMMA StoreKeeps ==
    ASSUME NEW old, NEW seq, NEW S, NEW p \in old,
           \A k \in S : Key(seq[k]) # Key(p)
    PROVE  p \in Store(old, seq, S)
  BY DEF Store

\* A point of the batch is stored when no later one has its key.
LEMMA StoreAdds ==
    ASSUME NEW old, NEW seq, NEW S, NEW k \in S,
           \A j \in S : j > k => Key(seq[j]) # Key(seq[k])
    PROVE  seq[k] \in Store(old, seq, S)
  BY DEF Store

\* Every step leaves the points alone, appends one, flushes, or deletes expired
\* ones.
LEMMA StoreMoves ==
    ASSUME [Next]_vars
    PROVE  \/ UNCHANGED <<points, accepted, db>>
           \/ /\ points' = Append(points, NewPoint(wmsg))
              /\ accepted' = Append(accepted, NewPoint(wmsg))
              /\ UNCHANGED <<db, cutoff>>
              /\ pc["writer"] = "append"
           \/ \E S \in SUBSET DOMAIN points :
                /\ db' = Store(db, points, S)
                /\ points' = points \/ (S = DOMAIN points /\ points' = <<>>)
                /\ UNCHANGED <<accepted, cutoff>>
           \/ \E X \in SUBSET {p \in db : p.time < cutoff} :
                db' = db \ X /\ UNCHANGED <<points, accepted, cutoff>>
<1> USE DEF bufVars, writeVars, rotateVars
<1>1. CASE WriteAppend
  BY <1>1 DEF WriteAppend
<1>2. ASSUME NEW p \in Procs, FlushOk(p)
      PROVE  /\ db' = Store(db, points, DOMAIN points)
             /\ points' = <<>>
             /\ UNCHANGED <<accepted, cutoff>>
  BY <1>2 DEF FlushOk
<1>3. ASSUME NEW p \in Procs, FlushErr(p)
      PROVE  \E S \in SUBSET DOMAIN points :
                db' = Store(db, points, S) /\ UNCHANGED <<points, accepted, cutoff>>
  BY <1>3 DEF FlushErr
<1>4. ASSUME NEW r \in Readers, ReaderStep(r) PROVE UNCHANGED <<points, accepted, db>>
  BY <1>4 DEF ReaderStep, ReadStart, ReadQuery, ReadChunk, ReadEOF, ReadErrIgnored, ReadErr
<1>5. CASE WorkerStep
  <2>1. ASSUME NEW l PROVE Expired(l) \in SUBSET {p \in db : p.time < cutoff}
    BY DEF Expired
  <2>2. ASSUME NEW l, db' = db \ Expired(l), UNCHANGED <<points, accepted, cutoff>>
        PROVE  \E X \in SUBSET {p \in db : p.time < cutoff} :
                  db' = db \ X /\ UNCHANGED <<points, accepted, cutoff>>
    BY <2>1, <2>2
  <2>3. QED
    BY <1>5, <2>2 DEF WorkerStep, TickFlush, TickRotate, RotateList, RotateErr,
       RotateDelete, RotateSkip, WorkerExit
<1>6. QED
  BY <1>1, <1>2, <1>3, <1>4, <1>5 DEF Next, vars, WriteCall, FlushLock, RequestStop, ClockTick

\* Appending to the accepted points makes none of them the newest of its key.
LEMMA NewestBefore ==
    ASSUME TypeOK, [Next]_vars, NEW i \in 1..Len(accepted), IsNewest(i)'
    PROVE  IsNewest(i) /\ accepted'[i] = accepted[i] /\ Len(accepted) <= Len(accepted')
<1>1. accepted \in Seq(Point) /\ Len(accepted) \in Nat
  BY DEF TypeOK
<1>2. CASE UNCHANGED accepted
  BY <1>1, <1>2 DEF IsNewest
<1>3. CASE accepted' = Append(accepted, NewPoint(wmsg))
  <2>1. /\ Len(accepted') = Len(accepted) + 1
        /\ \A j \in 1..Len(accepted) : accepted'[j] = accepted[j] /\ j \in DOMAIN accepted'
        /\ DOMAIN accepted = 1..Len(accepted)
    BY <1>1, <1>3
  <2>2. QED
    BY <1>1, <2>1 DEF IsNewest, Key
<1>4. QED
  BY <1>2, <1>3, BufferMoves

\* An accepted point that left the buffer and was not overwritten is in the
\* database, or it expired.
LEMMA SettledInDb ==
    ASSUME TypeOK, SuffixInv, NewestKept, NEW i \in 1..Settled, IsNewest(i)
    PROVE  /\ accepted[i] \in db \/ accepted[i].time < cutoff
           /\ \A k \in 1..Len(points) : Key(points[k]) # Key(accepted[i])
<1>1. /\ points \in Seq(Point) /\ Len(points) \in Nat /\ DOMAIN points = 1..Len(points)
      /\ Len(accepted) \in Nat /\ DOMAIN accepted = 1..Len(accepted)
  BY DEF TypeOK
<1>2. ASSUME NEW k \in 1..Len(points) PROVE Key(points[k]) # Key(accepted[i])
  <2>1. Settled + k \in DOMAIN accepted /\ Settled + k > i /\ points[k] = accepted[Settled + k]
    BY <1>1, <1>2 DEF Settled, SuffixInv
  <2>2. QED
    BY <2>1 DEF IsNewest
<1>3. accepted[i] \notin Range(points)
  BY <1>1, <1>2 DEF Range
<1>4. i \in DOMAIN accepted
  BY <1>1 DEF Settled
<1>5. QED
  BY <1>2, <1>3, <1>4 DEF NewestKept

\* A step keeps every accepted point that was not overwritten in the buffer or
\* in the database, unless it expires.
LEMMA KeptStep ==
    ASSUME TypeOK, SuffixInv, CutoffInv, NewestKept, [Next]_vars
    PROVE  NewestKept'
<1>1. SUFFICES ASSUME NEW i \in DOMAIN accepted', IsNewest(i)'
               PROVE  accepted'[i] \in Range(points') \cup db' \/ accepted'[i].time < cutoff'
  BY DEF NewestKept
<1>2. /\ points \in Seq(Point) /\ Len(points) \in Nat /\ DOMAIN points = 1..Len(points)
      /\ accepted \in Seq(Point) /\ Len(accepted) \in Nat /\ DOMAIN accepted = 1..Len(accepted)
      /\ cutoff \in Int
  BY DEF TypeOK
<1>3. cutoff <= cutoff' /\ cutoff' \in Int
  BY CutoffStep, TypeNext DEF TypeOK
<1>4. ASSUME i \in DOMAIN accepted
      PROVE  /\ IsNewest(i) /\ accepted'[i] = accepted[i]
             /\ accepted[i] \in Range(points) \cup db \/ accepted[i].time < cutoff
             /\ accepted[i].time \in Nat
  <2>1. IsNewest(i) /\ accepted'[i] = accepted[i]
    BY <1>1, <1>2, <1>4, NewestBefore
  <2>2. accepted[i].time \in Nat
    <3>1. accepted[i] \in Point
      BY <1>2, <1>4
    <3>2. QED
      BY <3>1, ConstantFacts DEF Point
  <2>3. QED
    BY <1>4, <2>1, <2>2 DEF NewestKept
<1>5. CASE UNCHANGED <<points, accepted, db>>
  BY <1>1, <1>2, <1>3, <1>4, <1>5
<1>6. CASE /\ points' = Append(points, NewPoint(wmsg))
           /\ accepted' = Append(accepted, NewPoint(wmsg))
           /\ UNCHANGED <<db, cutoff>>
  <2>1. /\ DOMAIN points' = 1..(Len(points) + 1) /\ DOMAIN accepted' = 1..(Len(accepted) + 1)
        /\ \A k \in 1..Len(points) : points'[k] = points[k]
        /\ points'[Len(points) + 1] = NewPoint(wmsg)
        /\ accepted'[Len(accepted) + 1] = NewPoint(wmsg)
    BY <1>2, <1>6
  <2>2. Range(points) \subseteq Range(points')
    BY <1>2, <2>1 DEF Range
  <2>3. CASE i = Len(accepted) + 1
    BY <1>2, <2>1, <2>3 DEF Range
  <2>4. CASE i # Len(accepted) + 1
    <3>1. i \in DOMAIN accepted
      BY <1>1, <1>2, <2>1, <2>4
    <3>2. QED
      BY <1>4, <1>6, <2>2, <3>1
  <2>5. QED
    BY <2>3, <2>4
<1>7. ASSUME NEW S \in SUBSET DOMAIN points,
             db' = Store(db, points, S),
             points' = points \/ (S = DOMAIN points /\ points' = <<>>),
             UNCHANGED <<accepted, cutoff>>
      PROVE  accepted'[i] \in Range(points') \cup db' \/ accepted'[i].time < cutoff'
  <2>1. i \in DOMAIN accepted /\ IsNewest(i) /\ accepted'[i] = accepted[i]
    BY <1>1, <1>4, <1>7
  <2>2. CASE i <= Settled
    <3>1. i \in 1..Settled
      BY <1>2, <2>1, <2>2 DEF Settled
    <3>2. /\ accepted[i] \in db \/ accepted[i].time < cutoff
          /\ \A k \in S : Key(points[k]) # Key(accepted[i])
      BY <1>2, <2>1, <3>1, SettledInDb
    <3>3. QED
      BY <1>7, <2>1, <3>2, StoreKeeps
  <2>3. CASE i > Settled
    <3> DEFINE k == i - Settled
    <3>1. k \in DOMAIN points /\ points[k] = accepted[i] /\ i = Settled + k
      BY <1>2, <2>1, <2>3 DEF Settled, SuffixInv
    <3>2. CASE points' = points
      BY <2>1, <3>1, <3>2 DEF Range
    <3>3. CASE S = DOMAIN points /\ points' = <<>>
      <4>1. ASSUME NEW j \in S, j > k PROVE Key(points[j]) # Key(points[k])
        <5>1. Settled + j \in DOMAIN accepted /\ Settled + j > i /\ points[j] = accepted[Settled + j]
          BY <1>2, <3>1, <3>3, <4>1 DEF Settled, SuffixInv
        <5>2. QED
          BY <2>1, <3>1, <5>1 DEF IsNewest
      <4>2. points[k] \in Store(db, points, S)
        BY <3>1, <3>3, <4>1, StoreAdds
      <4>3. QED
        BY <1>7, <2>1, <3>1, <4>2
    <3>4. QED
      BY <1>7, <3>2, <3>3
  <2>4. QED
    BY <1>2, <2>1, <2>2, <2>3 DEF Settled
<1>8. ASSUME NEW X \in SUBSET {p \in db : p.time < cutoff},
             db' = db \ X, UNCHANGED <<points, accepted, cutoff>>
      PROVE  accepted'[i] \in Range(points') \cup db' \/ accepted'[i].time < cutoff'
  BY <1>1, <1>4, <1>8
<1>9. QED
  BY <1>5, <1>6, <1>7, <1>8, StoreMoves

\* A non-empty set of positions of a sequence has a last one.
LEMMA LastOne ==
    ASSUME NEW n \in Nat, NEW T \in SUBSET (1..n), T # {}
    PROVE  \E x \in T : \A y \in T : ~(y > x)
<1> DEFINE U == {n - x : x \in T}
<1>1. U \subseteq Nat /\ U # {}
  <2>1. ASSUME NEW x \in T PROVE n - x \in Nat
    OBVIOUS
  <2>2. U \subseteq Nat
    BY <2>1
  <2>3. PICK x \in T : TRUE
    OBVIOUS
  <2>4. n - x \in U
    OBVIOUS
  <2>5. QED
    BY <2>2, <2>4
<1>2. IsWellFoundedOn(OpToRel(<, Nat), Nat)
  BY NatLessThanWellFounded
<1>3. PICK u \in U : \A v \in U : ~(<<v, u>> \in OpToRel(<, Nat))
  BY <1>1, <1>2, WFMin
<1>4. \A v \in U : ~(v < u)
  BY <1>1, <1>3 DEF OpToRel
<1>5. PICK x \in T : u = n - x
  OBVIOUS
<1>6. ASSUME NEW y \in T, y > x PROVE FALSE
  <2>1. n - y \in U /\ n - y < u
    BY <1>5, <1>6
  <2>2. QED
    BY <1>4, <2>1
<1>7. QED
  BY <1>5, <1>6

\* A point that a batch removes is replaced by one with its key.
LEMMA StoreReplaces ==
    ASSUME NEW old, NEW seq \in Seq(Point), NEW S \in SUBSET DOMAIN seq,
           NEW p \in old, p \notin Store(old, seq, S)
    PROVE  \E q \in Store(old, seq, S) : Key(q) = Key(p)
<1> DEFINE T == {k \in S : Key(seq[k]) = Key(p)}
<1>1. T # {}
  BY StoreKeeps
<1>2. T \in SUBSET (1..Len(seq)) /\ Len(seq) \in Nat
  OBVIOUS
<1>3. PICK k \in T : \A j \in T : ~(j > k)
  <2> HIDE DEF T
  <2>1. QED
    BY <1>1, <1>2, LastOne
<1>4. \A j \in S : j > k => Key(seq[j]) # Key(seq[k])
  BY <1>3
<1>5. seq[k] \in Store(old, seq, S)
  BY <1>4, StoreAdds
<1>6. QED
  BY <1>5

\* Accepted points accumulate, and those that left the buffer do not return.
LEMMA Progress ==
    ASSUME TypeOK, SuffixInv, [Next]_vars
    PROVE  Len(accepted) <= Len(accepted') /\ Settled <= Settled'
<1>1. /\ points \in Seq(Point) /\ Len(points) \in Nat /\ Len(<<>>) = 0
      /\ accepted \in Seq(Point) /\ Len(accepted) \in Nat
  BY DEF TypeOK
<1>2. QED
  BY <1>1, BufferMoves DEF Settled

\* What a reader's result contains stays complete while others work.
LEMMA ResultStays ==
    ASSUME TypeOK, CutoffInv, [Next]_vars, NEW r \in Readers,
           mark[r] <= Len(accepted), ResultComplete(r),
           mark'[r] = mark[r], params'[r] = params[r],
           rest[r] \cup got[r] \subseteq rest'[r] \cup got'[r]
    PROVE  ResultComplete(r)'
<1>1. SUFFICES ASSUME NEW i \in 1..mark[r], IsNewest(i)', Matches(params[r], accepted'[i])
               PROVE  accepted'[i] \in rest'[r] \cup got'[r] \/ accepted'[i].time < cutoff'
  BY DEF ResultComplete, Matches
<1>2. /\ accepted \in Seq(Point) /\ Len(accepted) \in Nat /\ mark[r] \in Nat
      /\ cutoff \in Int
  BY DEF TypeOK
<1>3. i \in 1..Len(accepted)
  BY <1>2
<1>4. IsNewest(i) /\ accepted'[i] = accepted[i]
  BY <1>1, <1>3, NewestBefore
<1>5. accepted[i].time \in Nat
  <2>1. accepted[i] \in Point
    BY <1>2, <1>3
  <2>2. QED
    BY <2>1, ConstantFacts DEF Point
<1>6. cutoff <= cutoff' /\ cutoff' \in Int
  BY CutoffStep, TypeNext DEF TypeOK
<1>7. QED
  BY <1>1, <1>2, <1>4, <1>5, <1>6 DEF ResultComplete

\* A step keeps what is known of a reader's flush and result.
LEMMA ReadersStep ==
    ASSUME TypeOK, SuffixInv, CutoffInv, NewestKept, ReadersInv, [Next]_vars
    PROVE  ReadersInv'
<1>1. SUFFICES ASSUME NEW r \in Readers PROVE ReaderOK(r)'
  BY DEF ReadersInv
<1>2. /\ ReaderOK(r) /\ r \in Procs
      /\ pc \in [Procs -> WriterStates \cup WorkerStates \cup ReaderStates]
      /\ rest \in [Readers -> SUBSET Point] /\ got \in [Readers -> SUBSET Point]
      /\ mark \in [Readers -> Nat] /\ clean \in [Readers -> BOOLEAN]
      /\ params \in [Readers -> QueryParams]
      /\ accepted \in Seq(Point) /\ Len(accepted) \in Nat /\ Len(points) \in Nat
  BY ConstantFacts DEF ReadersInv, TypeOK
<1>3. ASSUME pc'[r] = pc[r], rest'[r] = rest[r], got'[r] = got[r], mark'[r] = mark[r],
             clean'[r] = clean[r], params'[r] = params[r]
      PROVE  ReaderOK(r)'
  <2>1. mark[r] <= Len(accepted) /\ Len(accepted) <= Len(accepted') /\ Settled <= Settled'
        /\ Len(accepted') \in Nat /\ Settled \in Int /\ Settled' \in Int
    BY <1>2, Progress, TypeNext DEF ReaderOK, Settled, TypeOK
  <2>2. ResultComplete(r) => ResultComplete(r)'
    BY <1>3, <2>1, ResultStays
  <2>3. QED
    BY <1>2, <1>3, <2>1, <2>2 DEF ReaderOK
<1>4. CASE ReadStart(r)
  <2>1. /\ pc[r] = "idle" /\ pc'[r] = "flush" /\ mark'[r] = Len(accepted)
        /\ clean' = clean /\ accepted' = accepted
    BY <1>2, <1>4 DEF ReadStart, Goto, writeVars
  <2>2. QED
    BY <1>2, <2>1 DEF ReaderOK
<1>5. CASE FlushLock(r)
  <2>1. /\ pc[r] = "flush" /\ pc'[r] = "flushing"
        /\ UNCHANGED <<mark, clean, accepted>>
    BY <1>2, <1>5 DEF FlushLock, Goto, writeVars, readVars
  <2>2. QED
    BY <1>2, <2>1 DEF ReaderOK
<1>6. CASE FlushOk(r)
  <2>1. /\ pc'[r] = "query" /\ points' = <<>> /\ UNCHANGED <<mark, accepted>>
    BY <1>2, <1>6, ConstantFacts DEF FlushOk, ReturnFromFlush, Goto, writeVars
  <2>2. Settled' = Len(accepted)
    BY <1>2, <2>1 DEF Settled
  <2>3. QED
    BY <1>2, <2>1, <2>2 DEF ReaderOK
<1>7. CASE FlushErr(r)
  <2>1. /\ pc[r] = "flushing" /\ pc'[r] = "query" /\ UNCHANGED <<mark, clean, accepted>>
    BY <1>2, <1>7, ConstantFacts DEF FlushErr, ReturnFromFlush, Goto, readVars
  <2>2. QED
    BY <1>2, <2>1 DEF ReaderOK
<1>8. CASE ReadQuery(r)
  <2>1. /\ pc[r] = "query" /\ pc'[r] = "reading"
        /\ rest'[r] = {p \in db : Matches(params[r], p)}
        /\ UNCHANGED <<mark, clean, accepted, params, got, cutoff>>
    BY <1>2, <1>8 DEF ReadQuery, Goto, writeVars, rotateVars
  <2>2. clean[r] => ResultComplete(r)'
    <3>1. SUFFICES ASSUME clean[r], NEW i \in 1..mark[r], IsNewest(i), Matches(params[r], accepted[i])
                   PROVE  accepted[i] \in rest'[r] \/ accepted[i].time < cutoff
      BY <2>1 DEF ResultComplete, IsNewest, Matches
    <3>2. i \in 1..Settled
      BY <1>2, <2>1, <3>1 DEF ReaderOK, Settled
    <3>3. accepted[i] \in db \/ accepted[i].time < cutoff
      BY <3>1, <3>2, SettledInDb
    <3>4. QED
      BY <2>1, <3>1, <3>3
  <2>3. QED
    BY <1>2, <2>1, <2>2 DEF ReaderOK
<1>9. CASE ReadChunk(r)
  <2>1. PICK rows \in SUBSET rest[r] : /\ got' = [got EXCEPT ![r] = got[r] \cup rows]
                                       /\ rest' = [rest EXCEPT ![r] = rest[r] \ rows]
    BY <1>9 DEF ReadChunk
  <2>2. rest[r] \cup got[r] \subseteq rest'[r] \cup got'[r]
    BY <1>2, <2>1
  <2>3. pc[r] = "reading" /\ UNCHANGED <<pc, mark, clean, accepted, params>>
    BY <1>9 DEF ReadChunk, writeVars
  <2>4. ResultComplete(r) => ResultComplete(r)'
    BY <1>2, <2>2, <2>3, ResultStays DEF ReaderOK
  <2>5. QED
    BY <1>2, <2>3, <2>4 DEF ReaderOK
<1>10. CASE ReadEOF(r)
  <2>1. /\ pc[r] = "reading" /\ rest[r] = {} /\ pc'[r] = "done"
        /\ UNCHANGED <<rest, got, mark, clean, accepted, params>>
    BY <1>2, <1>10 DEF ReadEOF, Goto, writeVars, readVars
  <2>2. ResultComplete(r) => ResultComplete(r)'
    BY <1>2, <2>1, ResultStays DEF ReaderOK
  <2>3. QED
    BY <1>2, <2>1, <2>2 DEF ReaderOK
<1>11. CASE ReadErrIgnored(r)
  <2>1. /\ pc[r] = "reading" /\ ~clean'[r] /\ UNCHANGED <<pc, mark, accepted>>
    BY <1>2, <1>11 DEF ReadErrIgnored, writeVars
  <2>2. QED
    BY <1>2, <2>1 DEF ReaderOK
<1>12. CASE ReadErr(r)
  <2>1. /\ pc'[r] = "failed" /\ UNCHANGED <<mark, accepted>>
    BY <1>2, <1>12 DEF ReadErr, Goto, writeVars, readVars
  <2>2. QED
    BY <1>2, <2>1 DEF ReaderOK
<1>13. \/ ReaderStep(r) \/ FlushLock(r) \/ FlushOk(r) \/ FlushErr(r)
       \/ /\ pc'[r] = pc[r] /\ rest'[r] = rest[r] /\ got'[r] = got[r]
          /\ mark'[r] = mark[r] /\ clean'[r] = clean[r] /\ params'[r] = params[r]
  <2> DEFINE Same == /\ pc'[r] = pc[r] /\ rest'[r] = rest[r] /\ got'[r] = got[r]
                     /\ mark'[r] = mark[r] /\ clean'[r] = clean[r] /\ params'[r] = params[r]
  <2> USE DEF readVars
  <2>1. ASSUME NEW p, p # r, NEW label, Goto(p, label) PROVE pc'[r] = pc[r]
    BY <1>2, <2>1 DEF Goto
  <2>2. ASSUME NEW p \in Procs, p # r, FlushLock(p) PROVE Same
    BY <2>1, <2>2 DEF FlushLock
  <2>3. ASSUME NEW p \in Procs, p # r, FlushOk(p) PROVE Same
    <3>1. pc'[r] = pc[r]
      BY <2>1, <2>3 DEF FlushOk, ReturnFromFlush
    <3>2. clean'[r] = clean[r]
      BY <1>2, <2>3 DEF FlushOk
    <3>3. QED
      BY <2>3, <3>1, <3>2 DEF FlushOk
  <2>4. ASSUME NEW p \in Procs, p # r, FlushErr(p) PROVE Same
    BY <2>1, <2>4 DEF FlushErr, ReturnFromFlush
  <2>5. ASSUME NEW q \in Readers, q # r, ReaderStep(q) PROVE Same
    <3>1. CASE ReadStart(q)
      BY <1>2, <2>1, <2>5, <3>1 DEF ReadStart
    <3>2. CASE ReadQuery(q)
      BY <1>2, <2>1, <2>5, <3>2 DEF ReadQuery
    <3>3. CASE ReadChunk(q)
      BY <1>2, <2>5, <3>3 DEF ReadChunk
    <3>4. CASE ReadEOF(q) \/ ReadErr(q)
      BY <2>1, <2>5, <3>4 DEF ReadEOF, ReadErr
    <3>5. CASE ReadErrIgnored(q)
      BY <1>2, <2>5, <3>5 DEF ReadErrIgnored
    <3>6. QED
      BY <2>5, <3>1, <3>2, <3>3, <3>4, <3>5 DEF ReaderStep
  <2>6. r # "worker" /\ r # "writer"
    BY ConstantFacts
  <2>7. CASE WorkerStep
    BY <2>1, <2>6, <2>7 DEF WorkerStep, TickFlush, TickRotate, RotateList, RotateErr,
       RotateDelete, RotateSkip, WorkerExit
  <2>8. CASE WriteAppend
    BY <2>1, <2>6, <2>8 DEF WriteAppend
  <2>9. ASSUME NEW m \in Messages, WriteCall(m) PROVE Same
    BY <2>1, <2>6, <2>9 DEF WriteCall
  <2>10. ASSUME NEW t \in StopSignals, RequestStop(t) PROVE Same
    BY <2>10 DEF RequestStop
  <2>11. CASE ClockTick \/ UNCHANGED vars
    BY <2>11 DEF ClockTick, vars
  <2>12. QED
    BY <2>2, <2>3, <2>4, <2>5, <2>7, <2>8, <2>9, <2>10, <2>11 DEF Next
<1>14. QED
  BY <1>3, <1>4, <1>5, <1>6, <1>7, <1>8, <1>9, <1>10, <1>11, <1>12, <1>13 DEF ReaderStep

-----------------------------------------------------------------------------
(* Theorems                                                                *)

\* The inductive invariant: the types, the buffer's bound and its relation to
\* what was accepted, the rotation limit, and the readers' results.
StoreInv ==
    /\ TypeOK /\ RoomInv /\ BufferBounded /\ SuffixInv /\ CutoffInv
    /\ NewestKept /\ ReadersInv

\* The invariant holds when the store starts.
LEMMA StoreInvInit == Init => StoreInv
<1> SUFFICES ASSUME Init PROVE StoreInv
  OBVIOUS
<1>1. TypeOK
  BY TypeInit
<1>2. /\ points = <<>> /\ accepted = <<>> /\ Len(<<>>) = 0 /\ DOMAIN <<>> = {}
      /\ clock = 0 /\ cutoff = NegRetention
      /\ mark = [r \in Readers |-> 0] /\ clean = [r \in Readers |-> FALSE]
      /\ \A r \in Readers : pc[r] = "idle"
  BY ConstantFacts DEF Init
<1>3. BufferBounded /\ SuffixInv /\ NewestKept
  BY <1>2, ConstantFacts DEF BufferBounded, SuffixInv, Settled, NewestKept
<1>4. CutoffInv
  BY <1>2, RetentionType DEF CutoffInv
<1>5. RoomInv
  BY <1>2, ConstantFacts DEF RoomInv
<1>6. ReadersInv
  BY <1>2 DEF ReadersInv, ReaderOK
<1>7. QED
  BY <1>1, <1>3, <1>4, <1>5, <1>6 DEF StoreInv

\* Every step of the store preserves the invariant.
LEMMA StoreInvNext == StoreInv /\ [Next]_vars => StoreInv'
  BY TypeNext, RoomStep, SuffixStep, CutoffStep, KeptStep, ReadersStep DEF StoreInv

\* The parts of the invariant hold together in every reachable state of the
\* data store.
THEOREM StoreInvariant == Spec => []StoreInv
<1>1. QED
  BY StoreInvInit, StoreInvNext, PTL DEF Spec

\* The buffer never outgrows the size at which Write flushes it.
THEOREM BufferNeverOverflows == Spec => []BufferBounded
<1>1. StoreInv => BufferBounded
  BY DEF StoreInv
<1>2. QED
  BY <1>1, StoreInvariant, PTL

\* No accepted point is lost to a failed flush, a retry or a rotation.
THEOREM NewestNeverLost == Spec => []NewestKept
<1>1. StoreInv => NewestKept
  BY DEF StoreInv
<1>2. QED
  BY <1>1, StoreInvariant, PTL

\* A download that met no error is complete.
THEOREM DownloadsAreComplete == Spec => []DownloadComplete
<1>1. StoreInv => DownloadComplete
  BY DEF StoreInv, ReadersInv, ReaderOK, ResultComplete, DownloadComplete
<1>2. QED
  BY <1>1, StoreInvariant, PTL

\* Nothing within a retention period that fits a Duration is deleted.
THEOREM RetentionAlwaysRespected == RetentionFits => (Spec => RetentionRespected)
<1> SUFFICES ASSUME RetentionFits PROVE Spec => RetentionRespected
  OBVIOUS
<1>1. ASSUME StoreInv, [Next]_vars
      PROVE  [\A p \in db \ db' :
                 \/ \E q \in db' : Key(q) = Key(p)
                 \/ p.time < clock - Retention]_vars
  <2>1. SUFFICES ASSUME NEW p \in db \ db', ~(\E q \in db' : Key(q) = Key(p))
                 PROVE  p.time < clock - Retention
    OBVIOUS
  <2>2. /\ points \in Seq(Point) /\ p.time \in Nat /\ cutoff \in Int
        /\ clock \in Nat /\ Retention \in Int /\ NegRetention = -Retention
    BY <1>1, <2>1, ConstantFacts, RetentionType DEF StoreInv, TypeOK, Point
  <2>3. p.time < cutoff
    <3>1. ASSUME NEW S \in SUBSET DOMAIN points, db' = Store(db, points, S) PROVE FALSE
      BY <2>1, <2>2, <3>1, StoreReplaces
    <3>2. QED
      BY <1>1, <2>1, <3>1, StoreMoves
  <2>4. QED
    BY <1>1, <2>2, <2>3 DEF StoreInv, CutoffInv
<1>2. QED
  BY <1>1, StoreInvariant, PTL DEF Spec, RetentionRespected

-----------------------------------------------------------------------------
(* Refinement of LogStore                                                  *)

\* What a part of the batch stored before an error is stored again by the next
\* flush: the outcome is that of one whole flush.
LEMMA StoreAbsorbs ==
    ASSUME NEW old, NEW seq, NEW S \in SUBSET DOMAIN seq
    PROVE  Store(Store(old, seq, S), seq, DOMAIN seq) = Store(old, seq, DOMAIN seq)
<1>1. {p \in Store(old, seq, S) : \A i \in DOMAIN seq : Key(seq[i]) # Key(p)}
        = {p \in old : \A i \in DOMAIN seq : Key(seq[i]) # Key(p)}
  BY DEF Store
<1>2. QED
  BY <1>1 DEF Store

\* A flush with nothing to write changes nothing.
LEMMA StoreNothing ==
    ASSUME NEW old
    PROVE  Store(old, <<>>, DOMAIN <<>>) = old
<1>1. DOMAIN <<>> = {}
  OBVIOUS
<1>2. QED
  BY <1>1 DEF Store

\* A point appended to the buffer replaces the one with its key.
LEMMA StoreAppend ==
    ASSUME NEW old, NEW seq \in Seq(Point), NEW p \in Point
    PROVE  Store(old, Append(seq, p), DOMAIN Append(seq, p))
             = {q \in Store(old, seq, DOMAIN seq) : Key(q) # Key(p)} \cup {p}
<1> DEFINE n == Len(seq)
           longer == Append(seq, p)
           D == DOMAIN seq
           E == DOMAIN longer
           LastIn(s, I) == {j \in I : \A k \in I : k > j => Key(s[k]) # Key(s[j])}
<1>1. /\ n \in Nat /\ D = 1..n /\ E = 1..(n + 1)
      /\ longer[n + 1] = p /\ \A i \in D : longer[i] = seq[i]
  OBVIOUS
<1>2. {q \in old : \A i \in E : Key(longer[i]) # Key(q)}
        = {q \in old : (\A i \in D : Key(seq[i]) # Key(q)) /\ Key(q) # Key(p)}
  <2>1. ASSUME NEW q, \A i \in E : Key(longer[i]) # Key(q)
        PROVE  (\A i \in D : Key(seq[i]) # Key(q)) /\ Key(q) # Key(p)
    BY <1>1, <2>1
  <2>2. ASSUME NEW q, \A i \in D : Key(seq[i]) # Key(q), Key(q) # Key(p), NEW i \in E
        PROVE  Key(longer[i]) # Key(q)
    <3>1. i \in D \/ i = n + 1
      BY <1>1
    <3>2. QED
      BY <1>1, <2>2, <3>1
  <2>3. QED
    BY <2>1, <2>2
<1>3. LastIn(longer, E) = {j \in LastIn(seq, D) : Key(seq[j]) # Key(p)} \cup {n + 1}
  <2>1. ASSUME NEW j \in LastIn(longer, E), j # n + 1
        PROVE  j \in LastIn(seq, D) /\ Key(seq[j]) # Key(p)
    <3>1. j \in D /\ n + 1 \in E /\ n + 1 > j
      BY <1>1, <2>1
    <3>2. Key(longer[n + 1]) # Key(longer[j])
      BY <2>1, <3>1
    <3>3. ASSUME NEW k \in D, k > j PROVE Key(seq[k]) # Key(seq[j])
      BY <1>1, <2>1, <3>1, <3>3
    <3>4. QED
      BY <1>1, <3>1, <3>2, <3>3
  <2>2. ASSUME NEW j \in LastIn(seq, D), Key(seq[j]) # Key(p)
        PROVE  j \in LastIn(longer, E)
    <3>1. ASSUME NEW k \in E, k > j PROVE Key(longer[k]) # Key(longer[j])
      <4>1. CASE k \in D
        BY <1>1, <2>2, <3>1, <4>1
      <4>2. CASE k = n + 1
        BY <1>1, <2>2, <4>2
      <4>3. QED
        BY <1>1, <4>1, <4>2
    <3>2. QED
      BY <1>1, <2>2, <3>1
  <2>3. n + 1 \in LastIn(longer, E)
    BY <1>1
  <2>4. QED
    BY <2>1, <2>2, <2>3
<1>4. {longer[j] : j \in LastIn(longer, E)}
        = {q \in {seq[j] : j \in LastIn(seq, D)} : Key(q) # Key(p)} \cup {p}
  BY <1>1, <1>3
<1>5. /\ Store(old, longer, E) = {q \in old : \A i \in E : Key(longer[i]) # Key(q)}
                                   \cup {longer[j] : j \in LastIn(longer, E)}
      /\ Store(old, seq, D) = {q \in old : \A i \in D : Key(seq[i]) # Key(q)}
                                \cup {seq[j] : j \in LastIn(seq, D)}
  BY DEF Store
<1>6. QED
  BY <1>2, <1>4, <1>5

\* Deleting from the database removes nothing else from the store's contents.
LEMMA StoreDelete ==
    ASSUME NEW old, NEW X, NEW seq
    PROVE  /\ Store(old \ X, seq, DOMAIN seq) \subseteq Store(old, seq, DOMAIN seq)
           /\ Store(old, seq, DOMAIN seq) \ Store(old \ X, seq, DOMAIN seq) \subseteq X
  BY DEF Store

\* A step that touches buffer or database leaves the clock alone.
LEMMA ClockMoves ==
    ASSUME [Next]_vars
    PROVE  clock' = clock \/ (clock' = clock + 1 /\ UNCHANGED <<points, db>>)
<1> USE DEF bufVars
<1>1. ASSUME NEW p \in Procs, FlushLock(p) \/ FlushOk(p) \/ FlushErr(p)
      PROVE  clock' = clock
  BY <1>1 DEF FlushLock, FlushOk, FlushErr
<1>2. ASSUME NEW r \in Readers, ReaderStep(r) PROVE clock' = clock
  BY <1>2 DEF ReaderStep, ReadStart, ReadQuery, ReadChunk, ReadEOF, ReadErrIgnored, ReadErr
<1>3. CASE WorkerStep
  BY <1>3 DEF WorkerStep, TickFlush, TickRotate, RotateList, RotateErr, RotateDelete,
     RotateSkip, WorkerExit
<1>4. QED
  BY <1>1, <1>2, <1>3 DEF Next, vars, WriteCall, WriteAppend, RequestStop, ClockTick

\* The data store implements the atomic store: Write is its Accept, the deletes
\* of a rotation are its Forget as long as the retention period fits a
\* Duration, and flushes, failed or not, are invisible.
THEOREM StoreImplementsLogStore == RetentionFits => (Spec => ImplementsLogStore)
<1> SUFFICES ASSUME RetentionFits PROVE Spec => ImplementsLogStore
  OBVIOUS
<1>1. Init => LS!Init
  <2>1. SUFFICES ASSUME Init PROVE clock = 0 /\ Store(db, points, DOMAIN points) = {}
    BY DEF LS!Init
  <2>2. clock = 0 /\ db = {} /\ points = <<>>
    BY <2>1 DEF Init
  <2>3. Store(db, points, DOMAIN points) = Store({}, <<>>, DOMAIN <<>>)
    BY <2>2
  <2>4. QED
    BY <2>2, <2>3, StoreNothing
<1>2. ASSUME StoreInv, [Next]_vars PROVE [LS!Next]_(LS!vars)
  <2> DEFINE before == Store(db, points, DOMAIN points)
             after  == Store(db', points', DOMAIN points')
  <2>1. /\ points \in Seq(Point) /\ wmsg \in Messages \cup {NoMsg}
        /\ clock \in Times /\ clock \in Int /\ cutoff \in Int /\ Retention \in Int
        /\ cutoff <= clock - Retention
        /\ \A p \in db : p.time \in Int
    <3>1. /\ clock \in Times /\ Times \subseteq Int /\ db \subseteq Point
      BY <1>2, ConstantFacts DEF StoreInv, TypeOK
    <3>2. \A p \in Point : p.time \in Times
      BY DEF Point
    <3>3. QED
      BY <1>2, <3>1, <3>2, RetentionType DEF StoreInv, TypeOK, CutoffInv
  <2>2. CASE UNCHANGED <<points, db>>
    <3>1. after = before
      BY <2>2
    <3>2. QED
      BY <1>2, <3>1, ClockMoves DEF LS!Next, LS!Tick, LS!vars
  <2>3. CASE /\ points' = Append(points, NewPoint(wmsg))
             /\ accepted' = Append(accepted, NewPoint(wmsg)) /\ UNCHANGED <<db, cutoff>>
             /\ pc["writer"] = "append"
    <3>0. clock' = clock
      <4>1. points' # points
        BY <2>1, <2>3
      <4>2. QED
        BY <1>2, <4>1, ClockMoves
    <3>1. NewPoint(wmsg) \in Point
      <4>1. wmsg \in Messages
        BY <1>2, <2>3 DEF StoreInv, TypeOK
      <4>2. QED
        BY <2>1, <4>1, NewPointType
    <3>2. after = {q \in before : Key(q) # Key(NewPoint(wmsg))} \cup {NewPoint(wmsg)}
      <4>1. after = Store(db, Append(points, NewPoint(wmsg)),
                          DOMAIN Append(points, NewPoint(wmsg)))
        BY <2>3
      <4> HIDE DEF after, before
      <4>2. before = Store(db, points, DOMAIN points)
        BY DEF before
      <4>3. QED
        BY <2>1, <3>1, <4>1, <4>2, StoreAppend
    <3>3. LS!Accept(NewPoint(wmsg))
      BY <2>3, <3>0, <3>2 DEF LS!Accept, LS!Key, Key
    <3>4. QED
      BY <3>1, <3>3 DEF LS!Next
  <2>4. ASSUME NEW S \in SUBSET DOMAIN points, db' = Store(db, points, S), clock' = clock,
               points' = points \/ (S = DOMAIN points /\ points' = <<>>)
        PROVE  UNCHANGED LS!vars
    <3>1. after = before
      BY <2>4, StoreAbsorbs, StoreNothing
    <3>2. QED
      BY <2>4, <3>1 DEF LS!vars
  <2>5. ASSUME NEW X \in SUBSET {p \in db : p.time < cutoff}, db' = db \ X,
               UNCHANGED points, clock' = clock
        PROVE  LS!Forget
    <3>1. /\ after \subseteq before /\ before \ after \subseteq X
      BY <2>5, StoreDelete
    <3>2. \A p \in X : p.time < clock - Retention
      BY <2>1, <2>5
    <3>3. before \ after \in SUBSET {p \in before : p.time < clock - Retention}
      BY <3>1, <3>2
    <3>4. after = before \ (before \ after)
      BY <3>1
    <3>5. QED
      BY <2>5, <3>3, <3>4 DEF LS!Forget
  <2>6. QED
    BY <1>2, <2>2, <2>3, <2>4, <2>5, StoreMoves, ClockMoves DEF LS!Next
<1>3. QED
  BY <1>1, <1>2, StoreInvariant, PTL DEF Spec, ImplementsLogStore, LS!Spec
=============================================================================
