--------------------------- MODULE StreamLoopProofs ---------------------------
(***************************************************************************)
(* Theorems about streamOutput (StreamLoop.tla), for every buffer limit,   *)
(* merge window and bound: the type invariant, then that no byte and no    *)
(* report is lost, duplicated or moved, however the reader, the tickers    *)
(* and the loop interleave, that the loop implements the abstract event    *)
(* stream, and that what it says of times is true: the heartbeat, the end  *)
(* time and the segments that date the bytes.                              *)
(***************************************************************************)
EXTENDS StreamLoop, SequenceTheorems, WellFoundedInduction, TLAPS

-----------------------------------------------------------------------------
(* Runs of consecutive bytes.                                              *)

\* What a run is: its length and its bytes.
LEMMA RunFacts ==
  ASSUME NEW base \in Nat, NEW n \in Nat
  PROVE  /\ Run(base, n) \in Seq(Nat)
         /\ Len(Run(base, n)) = n
         /\ \A i \in 1 .. n : Run(base, n)[i] = base + i
BY DEF Run

\* The length of a concatenation.
LEMMA ConcatFacts ==
  ASSUME NEW s \in Seq(Nat), NEW t \in Seq(Nat)
  PROVE  s \o t \in Seq(Nat) /\ Len(s \o t) = Len(s) + Len(t)
OBVIOUS

\* A run that continues another one makes a longer run.
LEMMA RunConcat ==
  ASSUME NEW base \in Nat, NEW m \in Nat, NEW n \in Nat
  PROVE  Run(base, m) \o Run(base + m, n) = Run(base, m + n)
<1> DEFINE lhs == Run(base, m) \o Run(base + m, n)
           rhs == Run(base, m + n)
<1>1. /\ Run(base, m) \in Seq(Nat) /\ Len(Run(base, m)) = m
      /\ \A i \in 1 .. m : Run(base, m)[i] = base + i
  BY RunFacts
<1>2. /\ Run(base + m, n) \in Seq(Nat) /\ Len(Run(base + m, n)) = n
      /\ \A i \in 1 .. n : Run(base + m, n)[i] = base + m + i
  <2>1. base + m \in Nat
    OBVIOUS
  <2>2. QED
    BY <2>1, RunFacts
<1>3. /\ rhs \in Seq(Nat) /\ Len(rhs) = m + n
      /\ \A i \in 1 .. m + n : rhs[i] = base + i
  <2>1. m + n \in Nat
    OBVIOUS
  <2>2. QED
    BY <2>1, RunFacts
<1>4. /\ lhs \in Seq(Nat) /\ Len(lhs) = m + n
      /\ \A i \in 1 .. m + n :
           lhs[i] = IF i <= m THEN Run(base, m)[i] ELSE Run(base + m, n)[i - m]
  <2> DEFINE a == Run(base, m)
             b == Run(base + m, n)
  <2>1. a \in Seq(Nat) /\ b \in Seq(Nat) /\ Len(a) = m /\ Len(b) = n
    BY <1>1, <1>2
  <2> HIDE DEF a, b
  <2>2. /\ a \o b \in Seq(Nat)
        /\ Len(a \o b) = Len(a) + Len(b)
        /\ \A i \in 1 .. Len(a) + Len(b) :
             (a \o b)[i] = IF i <= Len(a) THEN a[i] ELSE b[i - Len(a)]
    BY <2>1, ConcatProperties
  <2>3. QED
    BY <2>1, <2>2 DEF a, b
<1>5. ASSUME NEW i \in 1 .. Len(lhs)
      PROVE  lhs[i] = rhs[i]
  <2>1. i \in 1 .. m + n
    BY <1>4
  <2>2. rhs[i] = base + i
    BY <2>1, <1>3
  <2>3. lhs[i] = IF i <= m THEN Run(base, m)[i] ELSE Run(base + m, n)[i - m]
    BY <2>1, <1>4
  <2>4. i <= m => Run(base, m)[i] = base + i
    BY <2>1, <1>1
  <2>5. i > m => Run(base + m, n)[i - m] = base + m + (i - m)
    BY <2>1, <1>2
  <2> HIDE DEF lhs, rhs
  <2>6. QED
    BY <2>1, <2>2, <2>3, <2>4, <2>5
<1>6. QED
  BY <1>3, <1>4, <1>5, SeqEqual

\* A piece of a run is a run.
LEMMA RunSub ==
  ASSUME NEW base \in Nat, NEW n \in Nat, NEW p \in 0 .. n, NEW q \in p .. n
  PROVE  SubSeq(Run(base, n), p + 1, q) = Run(base + p, q - p)
<1> DEFINE lhs == SubSeq(Run(base, n), p + 1, q)
           rhs == Run(base + p, q - p)
<1>1. /\ Run(base, n) \in Seq(Nat) /\ Len(Run(base, n)) = n
      /\ \A i \in 1 .. n : Run(base, n)[i] = base + i
  BY RunFacts
<1>2. base + p \in Nat /\ q - p \in Nat
  OBVIOUS
<1>3. /\ rhs \in Seq(Nat) /\ Len(rhs) = q - p
      /\ \A i \in 1 .. q - p : rhs[i] = base + p + i
  BY <1>2, RunFacts
<1>4. \A i \in p + 1 .. q : Run(base, n)[i] \in Nat
  BY <1>1
<1>5. /\ lhs \in Seq(Nat)
      /\ Len(lhs) = IF p + 1 <= q THEN q - (p + 1) + 1 ELSE 0
      /\ \A i \in 1 .. q - (p + 1) + 1 : lhs[i] = Run(base, n)[p + 1 + i - 1]
  BY <1>4, SubSeqProperties
<1>6. Len(lhs) = Len(rhs)
  BY <1>3, <1>5
<1>7. ASSUME NEW i \in 1 .. Len(lhs)
      PROVE  lhs[i] = rhs[i]
  BY <1>1, <1>3, <1>5, <1>6
<1>8. QED
  BY <1>3, <1>5, <1>6, <1>7, SeqEqual

-----------------------------------------------------------------------------
(* Types.                                                                  *)

\* The operations of the writer keep it a writer, and give batches.
LEMMA WriterTypes ==
  ASSUME NEW v \in Writers
  PROVE  /\ \A data \in Seq(Nat), t \in Nat : Write(v, data, t) \in Writers
         /\ \A r \in Nat, t \in Nat : AddStatus(v, r, t) \in Writers
         /\ Batch(v) \in Batches
         /\ Drained(v) \in Writers
<1>1. /\ v.buffer \in Seq(Nat) /\ v.segments \in Segments /\ v.statuses \in Statuses
      /\ Len(v.buffer) \in Nat
  BY DEF Writers
<1>2. <<>> \in Seq(Nat) /\ <<>> \in Segments /\ <<>> \in Statuses
  BY DEF Segments, Statuses
<1>3. ASSUME NEW data \in Seq(Nat), NEW t \in Nat
      PROVE  Write(v, data, t) \in Writers
  <2>1. v.buffer \o data \in Seq(Nat)
    BY <1>1
  <2>2. Append(v.segments, [offset |-> Len(v.buffer), time |-> t]) \in Segments
    BY <1>1 DEF Segments
  <2>3. QED
    BY <1>1, <2>1, <2>2 DEF Write, Writers
<1>4. ASSUME NEW r \in Nat, NEW t \in Nat
      PROVE  AddStatus(v, r, t) \in Writers
  <2>1. Append(v.statuses, [offset |-> Len(v.buffer), time |-> t, report |-> r])
          \in Statuses
    BY <1>1 DEF Statuses
  <2>2. QED
    BY <1>1, <2>1 DEF AddStatus, Writers
<1>5. Batch(v) \in Batches
  BY <1>1, <1>2 DEF Batch, Batches
<1>6. Drained(v) \in Writers
  BY <1>1, <1>2 DEF Drained, Writers
<1>7. QED
  BY <1>3, <1>4, <1>5, <1>6

\* The next report's place in the batch is a position in it, not before prev.
LEMMA CutFacts ==
  ASSUME TypeOK, idx <= Len(batch.statuses)
  PROVE  /\ batch.statuses[idx].offset \in Nat
         /\ Cut \in 0 .. Len(batch.data)
         /\ prev <= Len(batch.data) => Cut >= prev
<1>1. batch.statuses \in Statuses /\ idx \in 1 .. Len(batch.statuses)
  BY DEF TypeOK, Batches
<1>2. batch.statuses[idx] \in [offset : Nat, time : Nat, report : Nat]
  BY <1>1, ElementOfSeq DEF Statuses
<1>3. batch.data \in Seq(Nat) /\ Len(batch.data) \in Nat /\ prev \in Nat
  BY DEF TypeOK, Batches
<1>4. QED
  BY <1>2, <1>3 DEF Cut, Larger, Smaller

\* A piece of the batch is a sequence of bytes of the expected length.
LEMMA PieceFacts ==
  ASSUME TypeOK, NEW to \in 0 .. Len(batch.data), to > prev
  PROVE  /\ SubSeq(batch.data, prev + 1, to) \in Seq(Nat)
         /\ Len(SubSeq(batch.data, prev + 1, to)) = to - prev
<1>1. batch.data \in Seq(Nat) /\ Len(batch.data) \in Nat /\ prev \in Nat
  BY DEF TypeOK, Batches
<1>2. \A i \in prev + 1 .. to : batch.data[i] \in Nat
  BY <1>1, ElementOfSeq
<1>3. QED
  BY <1>1, <1>2, SubSeqProperties

\* Every step of the reader, of the environment and of the loop keeps the
\* writer, the batch and what the consumer received well typed.
THEOREM TypeCorrect == Spec => []TypeOK
<1>1. ASSUME Init
      PROVE  TypeOK
  <2>1. NewBufferWriter \in Writers
    BY DEF NewBufferWriter, Writers, Segments, Statuses
  <2>2. NoBatch \in Batches
    BY DEF NoBatch, Batches, Segments, Statuses
  <2>3. /\ reads \in Seq(Nat) /\ reports \in Seq([at : Nat, time : Nat])
        /\ out \in Seq(Nat)
    BY <1>1 DEF Init
  <2>4. w \in Writers /\ batch \in Batches
    BY <1>1, <2>1, <2>2 DEF Init
  <2>5. /\ now \in Nat /\ prev \in Nat /\ idx \in Nat \ {0} /\ endTime \in Nat
        /\ told \in Nat /\ hbMark \in Nat
    BY <1>1 DEF Init
  <2>6. QED
    BY <1>1, <2>3, <2>4, <2>5, Zenon DEF Init, TypeOK
<1>2. ASSUME TypeOK, ReaderWrite
      PROVE  TypeOK'
  <2>1. PICK k \in 1 .. MaxBytes - Len(reads) :
          /\ w' = Write(w, Run(Len(reads), k), now)
          /\ flush' = (flush \/ WriteSignals(w, Run(Len(reads), k)))
          /\ reads' = reads \o [i \in 1 .. k |-> now]
    BY <1>2 DEF ReaderWrite
  <2>2. reads \in Seq(Nat) /\ Len(reads) \in Nat /\ now \in Nat /\ k \in Nat
    BY <1>2, BoundsAssumption DEF TypeOK
  <2>3. w' \in Writers
    BY <1>2, <2>1, <2>2, RunFacts, WriterTypes DEF TypeOK
  <2>4. reads' \in Seq(Nat)
    <3>1. [i \in 1 .. k |-> now] \in Seq(Nat)
      BY <2>2
    <3>2. QED
      BY <2>1, <2>2, <3>1
  <2>5. flush' \in BOOLEAN
    BY <1>2, <2>1 DEF TypeOK, WriteSignals
  <2>6. QED
    BY <1>2, <2>3, <2>4, <2>5 DEF ReaderWrite, TypeOK, loop, seen
<1>3. ASSUME TypeOK, ReaderReport
      PROVE  TypeOK'
  <2>1. reports \in Seq([at : Nat, time : Nat]) /\ Len(reports) + 1 \in Nat
    BY <1>3 DEF TypeOK
  <2>2. Len(reads) \in Nat /\ now \in Nat
    BY <1>3 DEF TypeOK
  <2>3. w' \in Writers
    BY <1>3, <2>1, <2>2, WriterTypes DEF TypeOK, ReaderReport
  <2>4. reports' \in Seq([at : Nat, time : Nat])
    BY <1>3, <2>1, <2>2 DEF ReaderReport
  <2>5. QED
    BY <1>3, <2>3, <2>4 DEF ReaderReport, TypeOK, loop, seen
<1>4. ASSUME TypeOK, Drain
      PROVE  TypeOK'
  <2>1. w' \in Writers /\ batch' \in Batches
    BY <1>4, WriterTypes DEF TypeOK, Drain
  <2>2. QED
    BY <1>4, <2>1 DEF Drain, AfterBatch, TypeOK, world, chans, seen
<1>5. ASSUME TypeOK, DeliverBefore
      PROVE  TypeOK'
  <2>1. Cut \in 0 .. Len(batch.data) /\ Cut > prev
    BY <1>5, CutFacts DEF DeliverBefore, TypeOK, Batches
  <2>2. SubSeq(batch.data, prev + 1, Cut) \in Seq(Nat)
    BY <1>5, <2>1, PieceFacts
  <2>3. out' \in Seq(Nat)
    BY <1>5, <2>2 DEF DeliverBefore, YieldOutput, TypeOK
  <2>4. Cut \in Nat
    BY <2>1
  <2>5. QED
    BY <1>5, <2>3, <2>4 DEF DeliverBefore, YieldOutput, TypeOK, world, chans
<1>6. ASSUME TypeOK, DeliverStatus
      PROVE  TypeOK'
  <2>1. told + 1 \in Nat /\ idx + 1 \in Nat \ {0}
    BY <1>6 DEF TypeOK
  <2>2. /\ told' \in Nat
        /\ idx' \in Nat \ {0}
        /\ pc' \in {"deliver", "stopped"}
        /\ active' \in BOOLEAN
    BY <1>6, <2>1 DEF DeliverStatus, TypeOK
  <2>3. QED
    BY <1>6, <2>2 DEF DeliverStatus, TypeOK, world, chans
<1>7. ASSUME TypeOK, DeliverRest
      PROVE  TypeOK'
  <2>1. Len(batch.data) \in 0 .. Len(batch.data) /\ Len(batch.data) > prev
    BY <1>7 DEF DeliverRest, TypeOK, Batches
  <2>2. SubSeq(batch.data, prev + 1, Len(batch.data)) \in Seq(Nat)
    BY <1>7, <2>1, PieceFacts
  <2>3. out' \in Seq(Nat)
    BY <1>7, <2>2 DEF DeliverRest, YieldOutput, TypeOK
  <2>4. Len(batch.data) \in Nat
    BY <2>1
  <2>5. QED
    BY <1>7, <2>3, <2>4 DEF DeliverRest, YieldOutput, TypeOK, world, chans
<1>8. ASSUME TypeOK, DeliverEnd
      PROVE  TypeOK'
  <2>1. NoBatch \in Batches
    BY EmptySeq DEF NoBatch, Batches, Segments, Statuses
  <2>2. QED
    BY <1>8, <2>1 DEF DeliverEnd, AfterBatch, TypeOK, world, chans, seen
<1>9. ASSUME TypeOK, ClockTick
      PROVE  TypeOK'
  BY <1>9 DEF ClockTick, TypeOK, vars, world, chans, loop, seen
<1>10. ASSUME TypeOK, ReaderEOF
      PROVE  TypeOK'
  BY <1>10 DEF ReaderEOF, TypeOK, vars, world, chans, loop, seen
<1>11. ASSUME TypeOK, SendDone
      PROVE  TypeOK'
  BY <1>11 DEF SendDone, TypeOK, vars, world, chans, loop, seen
<1>12. ASSUME TypeOK, TickerFire
      PROVE  TypeOK'
  BY <1>12 DEF TickerFire, TypeOK, vars, world, chans, loop, seen
<1>13. ASSUME TypeOK, HbTickerFire
      PROVE  TypeOK'
  BY <1>13 DEF HbTickerFire, TypeOK, vars, world, chans, loop, seen
<1>14. ASSUME TypeOK, CtxCancel
      PROVE  TypeOK'
  BY <1>14 DEF CtxCancel, TypeOK, vars, world, chans, loop, seen
<1>15. ASSUME TypeOK, SelectCtx
      PROVE  TypeOK'
  BY <1>15 DEF SelectCtx, TypeOK, vars, world, chans, loop, seen
<1>16. ASSUME TypeOK, SelectTick
      PROVE  TypeOK'
  BY <1>16 DEF SelectTick, TypeOK, vars, world, chans, loop, seen
<1>17. ASSUME TypeOK, YieldHeartbeat
      PROVE  TypeOK'
  <2>1. Len(out) + told \in Nat
    BY <1>17 DEF TypeOK
  <2>2. /\ hbMark' \in Nat
        /\ pc' \in {"select", "stopped"}
        /\ active' \in BOOLEAN
    BY <1>17, <2>1 DEF YieldHeartbeat, TypeOK
  <2>3. QED
    BY <1>17, <2>2 DEF YieldHeartbeat, TypeOK, world, chans
<1>18. ASSUME TypeOK, SelectFlush
      PROVE  TypeOK'
  BY <1>18 DEF SelectFlush, TypeOK, vars, world, chans, loop, seen
<1>19. ASSUME TypeOK, CheckLen
      PROVE  TypeOK'
  BY <1>19 DEF CheckLen, TypeOK, vars, world, chans, loop, seen
<1>20. ASSUME TypeOK, CheckStatus
      PROVE  TypeOK'
  BY <1>20 DEF CheckStatus, TypeOK, vars, world, chans, loop, seen
<1>21. ASSUME TypeOK, SelectDone
      PROVE  TypeOK'
  BY <1>21 DEF SelectDone, TypeOK, vars, world, chans, loop, seen
<1>22. ASSUME TypeOK, SelectHeartbeat
      PROVE  TypeOK'
  <2>1. Len(out) + told \in Nat
    BY <1>22 DEF TypeOK
  <2>2. /\ hbMark' \in Nat
        /\ pc' \in {"select", "heartbeat"}
        /\ active' \in BOOLEAN
    BY <1>22, <2>1 DEF SelectHeartbeat, TypeOK
  <2>3. QED
    BY <1>22, <2>2 DEF SelectHeartbeat, TypeOK, world
<1>23. ASSUME TypeOK, Terminated
      PROVE  TypeOK'
  BY <1>23 DEF Terminated, TypeOK, vars, world, chans, loop, seen
<1>24. TypeOK /\ UNCHANGED vars => TypeOK'
  BY DEF TypeOK, vars
<1>25. TypeOK /\ [Next]_vars => TypeOK'
  BY <1>2, <1>3, <1>4, <1>5, <1>6, <1>7, <1>8, <1>9, <1>10, <1>11, <1>12, <1>13, <1>14, <1>15, <1>16, <1>17, <1>18, <1>19, <1>20, <1>21, <1>22, <1>23, <1>24
     DEF Next, Reader, Environment, Select, Body
<1>26. QED
  BY <1>1, <1>25, PTL DEF Spec

-----------------------------------------------------------------------------
(* Where the bytes and the reports are.                                    *)

\* The lengths are numbers, whatever the state.
LEMMA Lengths ==
  ASSUME TypeOK
  PROVE  /\ Len(reads) \in Nat /\ Len(reports) \in Nat /\ Len(out) \in Nat
         /\ Len(w.buffer) \in Nat /\ Len(w.statuses) \in Nat
         /\ Len(batch.data) \in Nat /\ Len(batch.statuses) \in Nat
         /\ prev \in Nat /\ idx \in Nat \ {0} /\ told \in Nat
BY DEF TypeOK, Writers, Batches, Segments, Statuses

\* The fields of the reports in the history, the writer and the batch.
LEMMA Elements ==
  ASSUME TypeOK
  PROVE  /\ \A r \in 1 .. Len(reports) : reports[r].at \in Nat
         /\ \A i \in 1 .. Len(w.statuses) : w.statuses[i].offset \in Nat
         /\ \A i \in 1 .. Len(batch.statuses) : batch.statuses[i].offset \in Nat
<1>1. /\ reports \in Seq([at : Nat, time : Nat])
      /\ w.statuses \in Seq([offset : Nat, time : Nat, report : Nat])
      /\ batch.statuses \in Seq([offset : Nat, time : Nat, report : Nat])
  BY DEF TypeOK, Writers, Batches, Statuses
<1>2. \A r \in 1 .. Len(reports) : reports[r] \in [at : Nat, time : Nat]
  BY <1>1, ElementOfSeq
<1>3. \A i \in 1 .. Len(w.statuses) :
        w.statuses[i] \in [offset : Nat, time : Nat, report : Nat]
  BY <1>1, ElementOfSeq
<1>4. \A i \in 1 .. Len(batch.statuses) :
        batch.statuses[i] \in [offset : Nat, time : Nat, report : Nat]
  BY <1>1, ElementOfSeq
<1>5. QED
  BY <1>2, <1>3, <1>4

\* A step that moves no data keeps the data invariant, wherever in the loop it
\* leads, as long as it does not start or resume a batch.
LEMMA DataUnchanged ==
  ASSUME DataInv,
         UNCHANGED <<reads, reports, w, batch, prev, idx, out, told>>,
         pc' = "stopped" \/ pc' = pc \/ (pc \notin {"stopped", "deliver"})
  PROVE  DataInv'
<1>1. ReportsInv' /\ WriterInv' /\ OutputExact' /\ ReportsInPlace'
  BY DEF DataInv, ReportsInv, WriterInv, OutputExact, ReportsInPlace,
         TakenBytes, TakenReports
<1>2. ASSUME pc' # "stopped"
      PROVE  BatchInv' /\ PositionInv'
  <2>1. BatchInv /\ PositionInv
    BY <1>2 DEF DataInv
  <2>2. QED
    BY <1>2, <2>1 DEF BatchInv, PositionInv, BaseBytes, BaseReports,
                      TakenBytes, TakenReports
<1>3. QED
  BY <1>1, <1>2 DEF DataInv

\* Bytes that arrive continue the buffer.
LEMMA WriteKeepsData ==
  ASSUME TypeOK, DataInv, ReaderWrite
  PROVE  DataInv'
<1>1. PICK k \in 1 .. MaxBytes - Len(reads) :
        /\ w' = Write(w, Run(Len(reads), k), now)
        /\ reads' = reads \o [i \in 1 .. k |-> now]
  BY DEF ReaderWrite
<1>2. UNCHANGED <<reports, pc, batch, prev, idx, out, told>>
  BY DEF ReaderWrite, loop, seen
<1>0. /\ Len(reads) \in Nat /\ Len(reports) \in Nat /\ Len(out) \in Nat
      /\ Len(w.buffer) \in Nat /\ Len(w.statuses) \in Nat
      /\ Len(batch.data) \in Nat /\ Len(batch.statuses) \in Nat
      /\ prev \in Nat /\ idx \in Nat \ {0} /\ told \in Nat
  BY Lengths
<1>3. k \in Nat \ {0} /\ now \in Nat
  BY <1>0, BoundsAssumption DEF TypeOK
<1>4. Len(reads') = Len(reads) + k
  BY <1>0, <1>1, <1>3 DEF TypeOK
<1>5. Run(Len(reads), k) # <<>>
  BY <1>0, <1>3, RunFacts
<1>6. /\ w'.buffer = w.buffer \o Run(Len(reads), k)
      /\ w'.statuses = w.statuses
  BY <1>0, <1>1, <1>5 DEF Write, TypeOK, Writers
<1>7. Len(w'.buffer) = Len(w.buffer) + k
  <2>1. Run(Len(reads), k) \in Seq(Nat) /\ Len(Run(Len(reads), k)) = k
    BY <1>0, <1>3, RunFacts
  <2>2. w.buffer \in Seq(Nat)
    BY DEF TypeOK, Writers
  <2>3. QED
    BY <2>1, <2>2, <1>6, ConcatFacts
<1>8. TakenBytes' = TakenBytes /\ TakenReports' = TakenReports
  BY <1>0, <1>2, <1>4, <1>6, <1>7, <1>3 DEF TakenBytes, TakenReports
<1>9. w'.buffer = Run(TakenBytes, Len(w'.buffer))
  <2>1. TakenBytes \in Nat /\ w.buffer = Run(TakenBytes, Len(w.buffer))
    BY <1>0 DEF DataInv, WriterInv, TakenBytes
  <2>2. Len(reads) = TakenBytes + Len(w.buffer)
    BY <1>0 DEF TakenBytes
  <2>3. Run(TakenBytes, Len(w.buffer)) \o Run(TakenBytes + Len(w.buffer), k)
          = Run(TakenBytes, Len(w.buffer) + k)
    BY <1>0, <2>1, <1>3, RunConcat
  <2>4. QED
    BY <2>1, <2>2, <2>3, <1>6, <1>7
<1>10. WriterInv'
  BY <1>0, <1>2, <1>6, <1>8, <1>9 DEF DataInv, WriterInv
<1>11. ReportsInv' /\ OutputExact' /\ ReportsInPlace'
  BY <1>0, <1>2, <1>3, <1>4, Elements
     DEF DataInv, ReportsInv, OutputExact, ReportsInPlace
<1>12. ASSUME pc' # "stopped"
       PROVE  BatchInv' /\ PositionInv'
  <2>1. BatchInv /\ PositionInv
    BY <1>0, <1>2, <1>12 DEF DataInv
  <2>2. BaseBytes' = BaseBytes /\ BaseReports' = BaseReports
    BY <1>0, <1>2, <1>8 DEF BaseBytes, BaseReports
  <2>3. QED
    BY <1>0, <2>1, <2>2, <1>2 DEF BatchInv, PositionInv
<1>13. QED
  BY <1>0, <1>10, <1>11, <1>12 DEF DataInv

\* A report is recorded behind every byte read so far.
LEMMA ReportKeepsData ==
  ASSUME TypeOK, DataInv, ReaderReport
  PROVE  DataInv'
<1> DEFINE n == Len(reports)
           m == Len(w.statuses)
<1>1. /\ w' = AddStatus(w, n + 1, now)
      /\ reports' = Append(reports, [at |-> Len(reads), time |-> now])
      /\ UNCHANGED <<reads, pc, batch, prev, idx, out, told>>
  BY DEF ReaderReport, loop, seen
<1>0. /\ Len(reads) \in Nat /\ Len(reports) \in Nat /\ Len(out) \in Nat
      /\ Len(w.buffer) \in Nat /\ Len(w.statuses) \in Nat
      /\ Len(batch.data) \in Nat /\ Len(batch.statuses) \in Nat
      /\ prev \in Nat /\ idx \in Nat \ {0} /\ told \in Nat
  BY Lengths
<1>2. /\ w'.buffer = w.buffer
      /\ w'.statuses = Append(w.statuses,
            [offset |-> Len(w.buffer), time |-> now, report |-> n + 1])
  BY <1>0, <1>1 DEF AddStatus, TypeOK, Writers
<1>3. /\ Len(reports') = n + 1
      /\ \A r \in 1 .. n : reports'[r] = reports[r]
      /\ reports'[n + 1].at = Len(reads)
  BY <1>0, <1>1 DEF TypeOK
<1>4. /\ Len(w'.statuses) = m + 1
      /\ \A i \in 1 .. m : w'.statuses[i] = w.statuses[i]
      /\ w'.statuses[m + 1].offset = Len(w.buffer)
  BY <1>0, <1>2 DEF TypeOK, Writers, Statuses
<1>5. TakenBytes' = TakenBytes /\ TakenReports' = TakenReports
  <2>1. TakenBytes' = TakenBytes
    BY <1>1, <1>2 DEF TakenBytes
  <2>2. TakenReports' = (n + 1) - (m + 1)
    BY <1>3, <1>4 DEF TakenReports
  <2>3. TakenReports = n - m
    BY DEF TakenReports
  <2>4. QED
    BY <2>1, <2>2, <2>3, <1>0
<1>6. TakenReports \in 0 .. n /\ n = TakenReports + m
  BY <1>0 DEF DataInv, WriterInv, TakenReports
<1>7. WriterInv'
  <2>1. ASSUME NEW i \in 1 .. m + 1
        PROVE  w'.statuses[i].offset = reports'[TakenReports + i].at - TakenBytes
    <3>1. CASE i = m + 1
      <4>1. /\ w'.statuses[i].offset = Len(w.buffer)
            /\ TakenReports + i = n + 1
        BY <3>1, <1>0, <1>4, <1>6
      <4>2. reports'[TakenReports + i].at = Len(reads)
        BY <4>1, <1>3
      <4>3. QED
        BY <4>1, <4>2, <1>0 DEF TakenBytes
    <3>2. CASE i # m + 1
      <4>1. i \in 1 .. m /\ TakenReports + i \in 1 .. n
        BY <1>0, <3>2, <1>6
      <4>2. QED
        BY <1>0, <4>1, <1>3, <1>4 DEF DataInv, WriterInv
    <3>3. QED
      BY <1>0, <3>1, <3>2
  <2>2. QED
    BY <1>0, <2>1, <1>2, <1>4, <1>5 DEF DataInv, WriterInv
<1>8. ReportsInv'
  BY <1>0, <1>1, <1>3, Elements DEF DataInv, ReportsInv
<1>9. OutputExact' /\ ReportsInPlace'
  BY <1>0, <1>1, <1>3 DEF DataInv, OutputExact, ReportsInPlace
<1>10. ASSUME pc' # "stopped"
       PROVE  BatchInv' /\ PositionInv'
  <2>1. BatchInv /\ PositionInv
    BY <1>0, <1>1, <1>10 DEF DataInv
  <2>2. BaseBytes' = BaseBytes /\ BaseReports' = BaseReports
    BY <1>0, <1>1, <1>5 DEF BaseBytes, BaseReports
  <2>3. \A i \in 1 .. Len(batch.statuses) : BaseReports + i \in 1 .. n
    BY <1>0, <2>1, <1>6 DEF BatchInv, BaseReports
  <2>4. QED
    BY <1>0, <2>1, <2>2, <2>3, <1>1, <1>3 DEF BatchInv, PositionInv
<1>11. QED
  BY <1>0, <1>7, <1>8, <1>9, <1>10 DEF DataInv

\* flushBatch moves what the writer holds into an empty batch, whole.
LEMMA DrainKeepsData ==
  ASSUME TypeOK, DataInv, Drain
  PROVE  DataInv'
<1>0. /\ Len(reads) \in Nat /\ Len(reports) \in Nat /\ Len(out) \in Nat
      /\ Len(w.buffer) \in Nat /\ Len(w.statuses) \in Nat
      /\ Len(batch.data) \in Nat /\ Len(batch.statuses) \in Nat
      /\ prev \in Nat /\ idx \in Nat \ {0} /\ told \in Nat
  BY Lengths
<1>1. UNCHANGED <<reads, reports, prev, idx, out, told>>
  BY DEF Drain, world, seen
<1>2. /\ BatchInv /\ PositionInv
      /\ batch = NoBatch /\ prev = 0 /\ idx = 1
  BY DEF Drain, DataInv, BatchInv
<1>3. Len(batch.data) = 0 /\ Len(batch.statuses) = 0
  BY <1>2 DEF NoBatch
<1>4. BaseBytes = TakenBytes /\ BaseReports = TakenReports
  <2>1. TakenBytes \in Int /\ TakenReports \in Int
    BY <1>0 DEF TakenBytes, TakenReports
  <2>2. QED
    BY <1>3, <2>1 DEF BaseBytes, BaseReports
<1>5. w'.buffer = <<>> /\ w'.statuses = <<>>
  BY DEF Drain, Drained
<1>6. TakenBytes' = Len(reads) /\ TakenReports' = Len(reports)
  <2>1. Len(w'.buffer) = 0 /\ Len(w'.statuses) = 0
    BY <1>5
  <2>2. TakenBytes' = Len(reads) - 0 /\ TakenReports' = Len(reports) - 0
    BY <1>1, <2>1 DEF TakenBytes, TakenReports
  <2>3. QED
    BY <2>2, <1>0
<1>7. WriterInv'
  <2>1. Run(Len(reads), 0) = <<>>
    BY DEF Run
  <2>2. QED
    BY <1>0, <1>5, <1>6, <2>1 DEF WriterInv
<1>8. ReportsInv' /\ OutputExact' /\ ReportsInPlace'
  BY <1>1 DEF DataInv, ReportsInv, OutputExact, ReportsInPlace
<1>9. CASE IsEmptyBatch(Batch(w))
  <2>1. w.buffer = <<>> /\ w.statuses = <<>>
    BY <1>9 DEF IsEmptyBatch, Batch
  <2>2. TakenBytes' = TakenBytes /\ TakenReports' = TakenReports
    BY <1>0, <1>6, <2>1 DEF TakenBytes, TakenReports
  <2>3. UNCHANGED batch
    BY <1>9 DEF Drain
  <2>4. BaseBytes' = BaseBytes /\ BaseReports' = BaseReports
    BY <2>2, <2>3 DEF BaseBytes, BaseReports
  <2>5. BatchInv' /\ PositionInv'
    BY <1>1, <1>2, <2>3, <2>4 DEF BatchInv, PositionInv
  <2>6. QED
    BY <1>7, <1>8, <2>5 DEF DataInv
<1>10. CASE ~IsEmptyBatch(Batch(w))
  <2>1. pc' = "deliver" /\ batch' = Batch(w)
    BY <1>10 DEF Drain
  <2>2. batch'.data = w.buffer /\ batch'.statuses = w.statuses
    BY <2>1 DEF Batch
  <2>3. BaseBytes' = TakenBytes /\ BaseReports' = TakenReports
    <3>1. /\ BaseBytes' = Len(reads) - Len(w.buffer)
          /\ BaseReports' = Len(reports) - Len(w.statuses)
      BY <1>6, <2>2 DEF BaseBytes, BaseReports
    <3>2. QED
      BY <3>1 DEF TakenBytes, TakenReports
  <2>4. TakenBytes \in Nat /\ TakenReports \in Nat
    BY <1>0 DEF DataInv, WriterInv, TakenBytes, TakenReports
  <2>5. ASSUME NEW i \in 1 .. Len(w.statuses)
        PROVE  /\ w.statuses[i].offset = reports[TakenReports + i].at - TakenBytes
               /\ w.statuses[i].offset \in 0 .. Len(w.buffer)
    <3>1. w.statuses[i].offset = reports[TakenReports + i].at - TakenBytes
      BY DEF DataInv, WriterInv
    <3>2. TakenReports + i \in 1 .. Len(reports)
      BY <1>0, <2>4 DEF TakenReports
    <3>3. reports[TakenReports + i].at <= Len(reads)
      BY <3>2 DEF DataInv, ReportsInv
    <3>4. reports[TakenReports + i].at \in Nat /\ w.statuses[i].offset \in Nat
      BY <3>2, Elements
    <3>5. QED
      BY <1>0, <3>1, <3>3, <3>4 DEF TakenBytes
  <2>6. BatchInv'
    <3>1. w.buffer = Run(TakenBytes, Len(w.buffer))
      BY DEF DataInv, WriterInv
    <3>2. QED
      BY <1>1, <2>1, <2>2, <2>3, <2>4, <2>5, <3>1 DEF BatchInv
  <2>7. PositionInv'
    <3>1. Len(out) = TakenBytes /\ told = TakenReports
      BY <1>0, <1>2, <1>4, <2>4 DEF PositionInv
    <3>2. QED
      BY <1>0, <1>1, <1>2, <2>2, <2>3, <2>4, <2>5, <3>1 DEF PositionInv
  <2>8. QED
    BY <1>7, <1>8, <2>6, <2>7 DEF DataInv
<1>11. QED
  BY <1>9, <1>10

\* A position of the batch that no report still to come is before.
BeforeNext(to) ==
  \A i \in idx .. Len(batch.statuses) : to <= batch.statuses[i].offset

\* yield(OutputData) of the next piece of the batch, up to the next report if
\* there is one, whatever the consumer answers.
LEMMA OutputKeepsData ==
  ASSUME TypeOK, DataInv, pc = "deliver",
         NEW to \in 0 .. Len(batch.data), to > prev, YieldOutput(to),
         BeforeNext(to)
  PROVE  DataInv'
<1>0. /\ Len(reads) \in Nat /\ Len(reports) \in Nat /\ Len(out) \in Nat
      /\ Len(w.buffer) \in Nat /\ Len(w.statuses) \in Nat
      /\ Len(batch.data) \in Nat /\ Len(batch.statuses) \in Nat
      /\ prev \in Nat /\ idx \in Nat \ {0} /\ told \in Nat
  BY Lengths
<1>1. /\ UNCHANGED <<reads, reports, w, batch, idx, told>>
      /\ out' = out \o SubSeq(batch.data, prev + 1, to)
  BY DEF YieldOutput, world
<1>2. BatchInv /\ PositionInv
  BY DEF DataInv
<1>3. /\ BaseBytes \in Nat /\ BaseReports \in Nat
      /\ TakenBytes \in Nat /\ TakenReports \in Nat
      /\ TakenBytes = BaseBytes + Len(batch.data)
      /\ TakenReports = BaseReports + Len(batch.statuses)
      /\ Len(reads) = TakenBytes + Len(w.buffer)
      /\ Len(reports) = TakenReports + Len(w.statuses)
  <2>1. /\ TakenBytes = Len(reads) - Len(w.buffer)
        /\ TakenReports = Len(reports) - Len(w.statuses)
    BY DEF TakenBytes, TakenReports
  <2>2. TakenBytes >= 0 /\ TakenReports >= 0
    BY DEF DataInv, WriterInv
  <2>3. /\ BaseBytes = TakenBytes - Len(batch.data)
        /\ BaseReports = TakenReports - Len(batch.statuses)
    BY DEF BaseBytes, BaseReports
  <2>4. BaseBytes >= 0 /\ BaseReports >= 0
    BY <1>2 DEF BatchInv
  <2>5. TakenBytes \in Nat /\ TakenReports \in Nat
    BY <1>0, <2>1, <2>2
  <2>6. BaseBytes \in Nat /\ BaseReports \in Nat
    BY <1>0, <2>3, <2>4, <2>5
  <2>7. QED
    BY <1>0, <2>1, <2>3, <2>5, <2>6
<1>4. /\ UNCHANGED <<BaseBytes, BaseReports, TakenBytes, TakenReports>>
  BY <1>1 DEF BaseBytes, BaseReports, TakenBytes, TakenReports
<1>5. out' = Run(0, BaseBytes + to)
  <2>1. SubSeq(batch.data, prev + 1, to) = Run(BaseBytes + prev, to - prev)
    <3>1. batch.data = Run(BaseBytes, Len(batch.data))
      BY <1>2 DEF BatchInv
    <3>2. prev \in 0 .. Len(batch.data) /\ to \in prev .. Len(batch.data)
      BY <1>0
    <3>3. SubSeq(Run(BaseBytes, Len(batch.data)), prev + 1, to)
            = Run(BaseBytes + prev, to - prev)
      <4>1. BaseBytes \in Nat /\ Len(batch.data) \in Nat
        BY <1>0, <1>3
      <4>2. QED
        BY <3>2, <4>1, RunSub
    <3>4. QED
      BY <3>1, <3>3
  <2>2. out = Run(0, BaseBytes + prev)
    BY <1>2 DEF DataInv, OutputExact, PositionInv
  <2>3. BaseBytes + prev \in Nat /\ to - prev \in Nat
    BY <1>0, <1>3
  <2>4. Run(0, BaseBytes + prev) \o Run(0 + (BaseBytes + prev), to - prev)
          = Run(0, (BaseBytes + prev) + (to - prev))
    BY <2>3, RunConcat
  <2>5. /\ 0 + (BaseBytes + prev) = BaseBytes + prev
        /\ (BaseBytes + prev) + (to - prev) = BaseBytes + to
    BY <1>0, <1>3
  <2>6. QED
    BY <1>1, <2>1, <2>2, <2>4, <2>5
<1>6. Len(out') = BaseBytes + to
  <2>1. BaseBytes + to \in Nat
    BY <1>3
  <2>2. QED
    BY <1>5, <2>1, RunFacts
<1>7. OutputExact'
  <2>1. Len(out') <= Len(reads')
    <3>1. Len(reads') = Len(reads)
      BY <1>1
    <3>2. Len(out') <= TakenBytes
      BY <1>0, <1>3, <1>6
    <3>3. TakenBytes \in Nat /\ TakenBytes <= Len(reads)
      <4>1. TakenBytes \in Nat
        BY <1>3
      <4>2. TakenBytes <= Len(reads)
        BY <1>0 DEF TakenBytes
      <4>3. QED
        BY <4>1, <4>2
    <3>4. BaseBytes \in Nat /\ BaseBytes + to \in Nat
      BY <1>0, <1>3
    <3>5. QED
      BY <1>0, <1>6, <3>1, <3>2, <3>3, <3>4
  <2>2. QED
    BY <2>1, <1>5, <1>6 DEF OutputExact
<1>8. told = BaseReports + idx - 1 /\ Len(out) = BaseBytes + prev
  BY <1>2 DEF PositionInv
<1>9. ReportsInPlace'
  <2>1. ASSUME NEW r \in 1 .. Len(reports)
        PROVE  IF r <= told THEN reports[r].at <= Len(out')
                            ELSE Len(out') <= reports[r].at
    <3>1. reports[r].at \in Nat
      BY Elements
    <3>2. CASE r <= told
      <4>1. reports[r].at <= Len(out)
        BY <3>2 DEF DataInv, ReportsInPlace
      <4>2. QED
        BY <3>1, <3>2, <4>1, <1>0, <1>3, <1>6, <1>8
    <3>3. CASE r > told /\ r <= TakenReports
      <4>1. r - BaseReports \in idx .. Len(batch.statuses)
        BY <3>3, <1>0, <1>3, <1>8
      <4>2. to <= batch.statuses[r - BaseReports].offset
        BY <4>1 DEF BeforeNext
      <4>3. batch.statuses[r - BaseReports].offset = reports[r].at - BaseBytes
        <5>1. r - BaseReports \in 1 .. Len(batch.statuses)
          BY <4>1, <1>0
        <5>2. BaseReports + (r - BaseReports) = r
          BY <1>3
        <5>3. QED
          BY <5>1, <5>2, <1>2 DEF BatchInv
      <4>4. Len(out') <= reports[r].at
        BY ONLY <3>1, <4>2, <4>3, <1>3, <1>6, to \in 0 .. Len(batch.data), <1>0
      <4>5. QED
        BY <3>3, <4>4, <1>0
    <3>4. CASE r > TakenReports
      <4>1. r - TakenReports \in 1 .. Len(w.statuses)
        <5>1. r \in Nat /\ r <= Len(reports)
          BY <1>0
        <5>2. /\ TakenReports \in Nat /\ Len(w.statuses) \in Nat
              /\ r <= TakenReports + Len(w.statuses)
          BY <5>1, <1>0, <1>3
        <5>3. QED
          BY <3>4, <5>1, <5>2
      <4>2. w.statuses[r - TakenReports].offset = reports[r].at - TakenBytes
        <5>1. TakenReports + (r - TakenReports) = r
          BY <1>3
        <5>2. QED
          BY <4>1, <5>1 DEF DataInv, WriterInv
      <4>3. w.statuses[r - TakenReports].offset \in Nat
        BY <4>1, Elements
      <4>4. told < r
        BY <3>4, <1>0, <1>2, <1>3, <1>8 DEF PositionInv
      <4>5. QED
        BY <3>1, <4>2, <4>3, <4>4, <1>0, <1>3, <1>6
    <3>5. QED
      BY <3>2, <3>3, <3>4, <1>0, <1>3
  <2>2. QED
    BY <2>1, <1>1 DEF DataInv, ReportsInPlace
<1>10. ReportsInv' /\ WriterInv'
  BY <1>1, <1>4 DEF DataInv, ReportsInv, WriterInv
<1>11. ASSUME pc' # "stopped"
       PROVE  BatchInv' /\ PositionInv'
  <2>1. prev' = to /\ UNCHANGED pc
    BY <1>11 DEF YieldOutput
  <2>2. BatchInv'
    BY <2>1, <1>1, <1>2, <1>4 DEF BatchInv
  <2>3. ASSUME NEW i \in 1 .. Len(batch.statuses)
        PROVE  IF i < idx THEN batch.statuses[i].offset <= to
                          ELSE to <= batch.statuses[i].offset
    <3>1. i < idx => batch.statuses[i].offset <= prev
      BY <1>2 DEF PositionInv
    <3>2. batch.statuses[i].offset \in Nat
      BY Elements
    <3>3. i >= idx => to <= batch.statuses[i].offset
      BY <1>0 DEF BeforeNext
    <3>4. QED
      BY <3>1, <3>2, <3>3, <1>0
  <2>4. PositionInv'
    BY <2>1, <2>3, <1>0, <1>1, <1>2, <1>4, <1>6, <1>8 DEF PositionInv
  <2>5. QED
    BY <2>2, <2>4
<1>12. QED
  BY <1>7, <1>9, <1>10, <1>11 DEF DataInv

\* DeliverBefore yields the output before the next report, DeliverRest what
\* follows the last one.
LEMMA PiecesKeepData ==
  ASSUME TypeOK, DataInv, DeliverBefore \/ DeliverRest
  PROVE  DataInv'
<1>0. /\ Len(reads) \in Nat /\ Len(reports) \in Nat /\ Len(out) \in Nat
      /\ Len(w.buffer) \in Nat /\ Len(w.statuses) \in Nat
      /\ Len(batch.data) \in Nat /\ Len(batch.statuses) \in Nat
      /\ prev \in Nat /\ idx \in Nat \ {0} /\ told \in Nat
  BY Lengths
<1>1. PositionInv
  BY DEF DataInv, DeliverBefore, DeliverRest
<1>2. CASE DeliverBefore
  <2>1. idx \in 1 .. Len(batch.statuses) /\ Cut > prev /\ YieldOutput(Cut)
    BY <1>0, <1>2 DEF DeliverBefore
  <2>2. Cut \in 0 .. Len(batch.data) /\ batch.statuses[idx].offset \in Nat
    BY <2>1, <1>0, CutFacts
  <2>3. Cut <= batch.statuses[idx].offset
    BY <2>1, <2>2, <1>0 DEF Cut, Larger, Smaller
  <2>4. ASSUME NEW i \in idx .. Len(batch.statuses)
        PROVE  Cut <= batch.statuses[i].offset
    <3>1. batch.statuses[idx].offset <= batch.statuses[i].offset
      <4>1. i \in 1 .. Len(batch.statuses) /\ idx <= i
        BY <1>0
      <4>2. /\ BatchInv /\ BaseReports \in Nat
            /\ TakenReports \in Int /\ BaseReports + Len(batch.statuses) <= Len(reports)
        <5>1. BatchInv
          BY <1>2 DEF DataInv, DeliverBefore
        <5>2. TakenReports \in Int /\ TakenReports <= Len(reports)
          BY <1>0 DEF TakenReports
        <5>3. BaseReports = TakenReports - Len(batch.statuses) /\ BaseReports >= 0
          BY <5>1 DEF BatchInv, BaseReports
        <5>4. QED
          BY <5>1, <5>2, <5>3, <1>0
      <4>3. /\ BaseReports + idx \in 1 .. Len(reports)
            /\ BaseReports + i \in 1 .. Len(reports)
            /\ BaseReports + idx <= BaseReports + i
        BY <4>1, <4>2, <1>0
      <4>4. reports[BaseReports + idx].at <= reports[BaseReports + i].at
        BY <4>3 DEF DataInv, ReportsInv
      <4>5. /\ batch.statuses[idx].offset = reports[BaseReports + idx].at - BaseBytes
            /\ batch.statuses[i].offset = reports[BaseReports + i].at - BaseBytes
        BY <2>1, <4>1, <4>2 DEF BatchInv
      <4>6. /\ reports[BaseReports + idx].at \in Nat
            /\ reports[BaseReports + i].at \in Nat
        BY <4>3, Elements
      <4>7. BaseBytes \in Int
        BY <1>0 DEF BaseBytes, TakenBytes
      <4>8. QED
        BY <4>4, <4>5, <4>6, <4>7
    <3>2. batch.statuses[i].offset \in Nat
      <4>1. i \in 1 .. Len(batch.statuses)
        BY <1>0
      <4>2. QED
        BY <4>1, Elements
    <3>3. QED
      BY <2>2, <2>3, <3>1, <3>2
  <2>5. BeforeNext(Cut)
    BY <2>4 DEF BeforeNext
  <2>6. pc = "deliver"
    BY <1>2 DEF DeliverBefore
  <2>7. QED
    BY <2>1, <2>2, <2>5, <2>6, OutputKeepsData
<1>3. CASE DeliverRest
  <2>1. /\ pc = "deliver" /\ Len(batch.data) > prev
        /\ YieldOutput(Len(batch.data))
    BY <1>0, <1>3 DEF DeliverRest
  <2>2. BeforeNext(Len(batch.data))
    BY <1>0, <1>3 DEF BeforeNext, DeliverRest
  <2>3. Len(batch.data) \in 0 .. Len(batch.data)
    BY <1>0
  <2>4. QED
    BY <2>1, <2>2, <2>3, OutputKeepsData
<1>4. QED
  BY <1>2, <1>3

\* yield(ProgramStatus): all the output before the report was delivered.
LEMMA StatusKeepsData ==
  ASSUME TypeOK, DataInv, DeliverStatus
  PROVE  DataInv'
<1>0. /\ Len(reads) \in Nat /\ Len(reports) \in Nat /\ Len(out) \in Nat
      /\ Len(w.buffer) \in Nat /\ Len(w.statuses) \in Nat
      /\ Len(batch.data) \in Nat /\ Len(batch.statuses) \in Nat
      /\ prev \in Nat /\ idx \in Nat \ {0} /\ told \in Nat
  BY Lengths
<1>1. /\ UNCHANGED <<reads, reports, w, batch, prev, out>>
      /\ told' = told + 1
      /\ pc = "deliver" /\ idx \in 1 .. Len(batch.statuses) /\ Cut <= prev
  BY <1>0 DEF DeliverStatus, world
<1>2. BatchInv /\ PositionInv
  BY <1>1 DEF DataInv
<1>3. batch.statuses[idx].offset <= prev
  <2>1. batch.statuses[idx].offset \in Nat
    BY <1>1, Elements
  <2>2. /\ prev <= Len(batch.data)
        /\ batch.statuses[idx].offset <= Len(batch.data)
    BY <1>1, <1>2 DEF BatchInv, PositionInv
  <2>3. QED
    BY <2>1, <2>2, <1>0, <1>1 DEF Cut, Larger, Smaller
<1>4. told = BaseReports + idx - 1 /\ Len(out) = BaseBytes + prev
  BY <1>2 DEF PositionInv
<1>5. /\ BaseBytes \in Int /\ BaseReports \in Nat
      /\ BaseReports + Len(batch.statuses) <= Len(reports)
  <2>1. TakenReports \in Int /\ TakenReports <= Len(reports) /\ TakenBytes \in Int
    BY <1>0 DEF TakenReports, TakenBytes
  <2>2. BaseReports = TakenReports - Len(batch.statuses) /\ BaseReports >= 0
    BY <1>2 DEF BatchInv, BaseReports
  <2>3. BaseBytes \in Int
    BY <1>0, <2>1 DEF BaseBytes
  <2>4. QED
    BY <2>1, <2>2, <2>3, <1>0
<1>6. told + 1 = BaseReports + idx /\ told + 1 \in 1 .. Len(reports)
  BY <1>0, <1>1, <1>4, <1>5
<1>7. reports[told + 1].at <= Len(out)
  <2>1. batch.statuses[idx].offset = reports[told + 1].at - BaseBytes
    BY <1>1, <1>2, <1>6 DEF BatchInv
  <2>2. reports[told + 1].at \in Nat /\ batch.statuses[idx].offset \in Nat
    BY <1>1, <1>6, Elements
  <2>3. QED
    BY <2>1, <2>2, <1>0, <1>3, <1>4, <1>5
<1>8. ReportsInPlace'
  BY <1>0, <1>1, <1>6, <1>7 DEF DataInv, ReportsInPlace
<1>9. UNCHANGED <<BaseBytes, BaseReports, TakenBytes, TakenReports>>
  BY <1>1 DEF BaseBytes, BaseReports, TakenBytes, TakenReports
<1>10. ReportsInv' /\ WriterInv' /\ OutputExact'
  BY <1>1, <1>9 DEF DataInv, ReportsInv, WriterInv, OutputExact
<1>11. ASSUME pc' # "stopped"
       PROVE  BatchInv' /\ PositionInv'
  <2>1. idx' = idx + 1 /\ UNCHANGED pc
    BY <1>11 DEF DeliverStatus
  <2>2. BatchInv'
    BY <2>1, <1>1, <1>2, <1>9 DEF BatchInv
  <2>3. ASSUME NEW i \in 1 .. Len(batch.statuses)
        PROVE  IF i < idx + 1 THEN batch.statuses[i].offset <= prev
                              ELSE prev <= batch.statuses[i].offset
    <3>1. IF i < idx THEN batch.statuses[i].offset <= prev
                     ELSE prev <= batch.statuses[i].offset
      BY <1>2 DEF PositionInv
    <3>2. i = idx => batch.statuses[i].offset <= prev
      BY <1>0, <1>1, <1>2, <1>3 DEF PositionInv
    <3>3. i < idx + 1 => i < idx \/ i = idx
      BY <1>0
    <3>4. ~ (i < idx + 1) => ~ (i < idx)
      BY <1>0
    <3>5. QED
      BY <3>1, <3>2, <3>3, <3>4
  <2>4. PositionInv'
    BY <2>1, <2>3, <1>0, <1>1, <1>2, <1>4, <1>5, <1>9 DEF PositionInv
  <2>5. QED
    BY <2>2, <2>4
<1>12. QED
  BY <1>8, <1>10, <1>11 DEF DataInv

\* A batch that was delivered to its end leaves nothing behind.
LEMMA EndKeepsData ==
  ASSUME TypeOK, DataInv, DeliverEnd
  PROVE  DataInv'
<1>0. /\ Len(reads) \in Nat /\ Len(reports) \in Nat /\ Len(out) \in Nat
      /\ Len(w.buffer) \in Nat /\ Len(w.statuses) \in Nat
      /\ Len(batch.data) \in Nat /\ Len(batch.statuses) \in Nat
      /\ prev \in Nat /\ idx \in Nat \ {0} /\ told \in Nat
  BY Lengths
<1>1. /\ UNCHANGED <<reads, reports, w, out, told>>
      /\ batch' = NoBatch /\ prev' = 0 /\ idx' = 1
      /\ pc = "deliver" /\ idx > Len(batch.statuses) /\ prev >= Len(batch.data)
  BY DEF DeliverEnd, world, seen
<1>2. BatchInv /\ PositionInv
  BY <1>1 DEF DataInv
<1>3. prev = Len(batch.data) /\ idx = Len(batch.statuses) + 1
  <2>1. prev <= Len(batch.data) /\ idx <= Len(batch.statuses) + 1
    BY <1>2 DEF PositionInv
  <2>2. QED
    BY <2>1, <1>0, <1>1
<1>4. TakenBytes \in Nat /\ TakenReports \in Nat
  BY <1>0 DEF DataInv, WriterInv, TakenBytes, TakenReports
<1>5. Len(out) = TakenBytes
  BY <1>0, <1>2, <1>3, <1>4 DEF PositionInv, BaseBytes
<1>6. told = TakenReports
  BY <1>0, <1>2, <1>3, <1>4 DEF PositionInv, BaseReports
<1>7. UNCHANGED <<TakenBytes, TakenReports>>
  BY <1>1 DEF TakenBytes, TakenReports
<1>8. Len(batch'.data) = 0 /\ Len(batch'.statuses) = 0 /\ batch'.data = <<>>
  BY <1>1 DEF NoBatch
<1>9. BaseBytes' = TakenBytes /\ BaseReports' = TakenReports
  <2>1. BaseBytes' = TakenBytes - 0 /\ BaseReports' = TakenReports - 0
    BY <1>7, <1>8 DEF BaseBytes, BaseReports
  <2>2. QED
    BY <2>1, <1>4
<1>10. Run(TakenBytes, 0) = <<>>
  BY DEF Run
<1>11. BatchInv'
  BY <1>1, <1>4, <1>8, <1>9, <1>10 DEF BatchInv
<1>12. PositionInv'
  BY <1>1, <1>4, <1>5, <1>6, <1>8, <1>9 DEF PositionInv
<1>13. ReportsInv' /\ WriterInv' /\ OutputExact' /\ ReportsInPlace'
  BY <1>1, <1>7 DEF DataInv, ReportsInv, WriterInv, OutputExact, ReportsInPlace
<1>14. QED
  BY <1>11, <1>12, <1>13 DEF DataInv

-----------------------------------------------------------------------------
(* What the final flush leaves behind, and the flush requests.             *)

\* done is sent after the last write, so the final flush empties the writer.
LEMMA FinalKept ==
  ASSUME FinalInv, [Next]_vars
  PROVE  FinalInv'
<1>1. CASE ReaderWrite
  BY <1>1 DEF ReaderWrite, FinalInv, vars, world, chans, loop, seen
<1>2. CASE ReaderReport
  BY <1>2 DEF ReaderReport, FinalInv, vars, world, chans, loop, seen
<1>3. CASE ClockTick
  BY <1>3 DEF ClockTick, FinalInv, vars, world, chans, loop, seen
<1>4. CASE ReaderEOF
  BY <1>4 DEF ReaderEOF, FinalInv, vars, world, chans, loop, seen
<1>5. CASE SendDone
  BY <1>5 DEF SendDone, FinalInv, vars, world, chans, loop, seen
<1>6. CASE TickerFire
  BY <1>6 DEF TickerFire, FinalInv, vars, world, chans, loop, seen
<1>7. CASE HbTickerFire
  BY <1>7 DEF HbTickerFire, FinalInv, vars, world, chans, loop, seen
<1>8. CASE CtxCancel
  BY <1>8 DEF CtxCancel, FinalInv, vars, world, chans, loop, seen
<1>9. CASE SelectCtx
  BY <1>9 DEF SelectCtx, FinalInv, vars, world, chans, loop, seen
<1>10. CASE SelectTick
  BY <1>10 DEF SelectTick, FinalInv, vars, world, chans, loop, seen
<1>11. CASE SelectHeartbeat
  BY <1>11 DEF SelectHeartbeat, FinalInv, vars, world, chans, loop, seen
<1>12. CASE YieldHeartbeat
  BY <1>12 DEF YieldHeartbeat, FinalInv, vars, world, chans, loop, seen
<1>13. CASE SelectFlush
  BY <1>13 DEF SelectFlush, FinalInv, vars, world, chans, loop, seen
<1>14. CASE CheckLen
  BY <1>14 DEF CheckLen, FinalInv, vars, world, chans, loop, seen
<1>15. CASE CheckStatus
  BY <1>15 DEF CheckStatus, FinalInv, vars, world, chans, loop, seen
<1>16. CASE SelectDone
  BY <1>16 DEF SelectDone, FinalInv, vars, world, chans, loop, seen
<1>17. CASE Drain
  BY <1>17 DEF Drain, Drained, AfterBatch, FinalInv, world, chans, seen
<1>18. CASE DeliverBefore
  BY <1>18 DEF DeliverBefore, YieldOutput, FinalInv, world, chans
<1>19. CASE DeliverStatus
  BY <1>19 DEF DeliverStatus, FinalInv, vars, world, chans, loop, seen
<1>20. CASE DeliverRest
  BY <1>20 DEF DeliverRest, YieldOutput, FinalInv, world, chans
<1>21. CASE DeliverEnd
  BY <1>21 DEF DeliverEnd, AfterBatch, FinalInv, world, chans, seen
<1>22. CASE Terminated
  BY <1>22 DEF Terminated, FinalInv, vars, world, chans, loop, seen
<1>23. CASE UNCHANGED vars
  BY <1>23 DEF FinalInv, vars
<1>24. QED
  BY <1>1, <1>2, <1>3, <1>4, <1>5, <1>6, <1>7, <1>8, <1>9, <1>10, <1>11, <1>12, <1>13, <1>14, <1>15, <1>16, <1>17, <1>18, <1>19, <1>20, <1>21, <1>22, <1>23 DEF Next, Reader, Environment, Select, Body

\* A step that does not fill the writer does not lose a request: the token it
\* takes is honoured by the two checks and the drain that follow.
LEMMA FlushKept ==
  ASSUME TypeOK, NoLostFlush, [Next]_vars
  PROVE  NoLostFlush'
<1>1. CASE ReaderWrite
  <2>1. PICK k \in 1 .. MaxBytes - Len(reads) :
          /\ w' = Write(w, Run(Len(reads), k), now)
          /\ flush' = (flush \/ WriteSignals(w, Run(Len(reads), k)))
    BY <1>1 DEF ReaderWrite
  <2>2. /\ Run(Len(reads), k) \in Seq(Nat) /\ Run(Len(reads), k) # <<>>
        /\ Len(Run(Len(reads), k)) = k
    <3>1. Len(reads) \in Nat /\ k \in Nat \ {0}
      BY Lengths, BoundsAssumption
    <3>2. QED
      BY <3>1, RunFacts
  <2>3. /\ w'.buffer = w.buffer \o Run(Len(reads), k)
        /\ w'.statuses = w.statuses
    BY <2>1, <2>2 DEF Write, TypeOK, Writers
  <2>4. Len(w'.buffer) = Len(w.buffer) + Len(Run(Len(reads), k))
    <3>1. w.buffer \in Seq(Nat)
      BY DEF TypeOK, Writers
    <3>2. QED
      BY <2>2, <2>3, <3>1, ConcatFacts
  <2>5. Length(w') >= MaxBufferSize => flush'
    BY <2>1, <2>2, <2>4 DEF Length, WriteSignals
  <2>6. HasStatus(w') <=> HasStatus(w)
    BY <2>3 DEF HasStatus
  <2>7. (flush => flush') /\ UNCHANGED pc
    BY <1>1, <2>1 DEF ReaderWrite, loop
  <2>8. QED
    BY <2>5, <2>6, <2>7 DEF NoLostFlush
<1>2. CASE ReaderReport
  BY <1>2 DEF ReaderReport, NoLostFlush
<1>3. CASE ClockTick
  BY <1>3 DEF ClockTick, NoLostFlush, Length, HasStatus, vars, world, chans, loop, seen
<1>4. CASE ReaderEOF
  BY <1>4 DEF ReaderEOF, NoLostFlush, Length, HasStatus, vars, world, chans, loop, seen
<1>5. CASE SendDone
  BY <1>5 DEF SendDone, NoLostFlush, Length, HasStatus, vars, world, chans, loop, seen
<1>6. CASE TickerFire
  BY <1>6 DEF TickerFire, NoLostFlush, Length, HasStatus, vars, world, chans, loop, seen
<1>7. CASE HbTickerFire
  BY <1>7 DEF HbTickerFire, NoLostFlush, Length, HasStatus, vars, world, chans, loop, seen
<1>8. CASE CtxCancel
  BY <1>8 DEF CtxCancel, NoLostFlush, Length, HasStatus, vars, world, chans, loop, seen
<1>9. CASE SelectCtx
  BY <1>9 DEF SelectCtx, NoLostFlush, Length, HasStatus, vars, world, chans, loop, seen
<1>10. CASE SelectTick
  BY <1>10 DEF SelectTick, NoLostFlush, Length, HasStatus, vars, world, chans, loop, seen
<1>11. CASE SelectHeartbeat
  BY <1>11 DEF SelectHeartbeat, NoLostFlush, Length, HasStatus, vars, world, chans, loop, seen
<1>12. CASE YieldHeartbeat
  BY <1>12 DEF YieldHeartbeat, NoLostFlush, Length, HasStatus, vars, world, chans, loop, seen
<1>13. CASE SelectFlush
  BY <1>13 DEF SelectFlush, NoLostFlush, Length, HasStatus, vars, world, chans, loop, seen
<1>14. CASE CheckLen
  BY <1>14 DEF CheckLen, NoLostFlush, Length, HasStatus, vars, world, chans, loop, seen
<1>15. CASE CheckStatus
  BY <1>15 DEF CheckStatus, NoLostFlush, Length, HasStatus, vars, world, chans, loop, seen
<1>16. CASE SelectDone
  BY <1>16 DEF SelectDone, NoLostFlush, Length, HasStatus, vars, world, chans, loop, seen
<1>17. CASE Drain
  <2>1. w'.buffer = <<>> /\ w'.statuses = <<>>
    BY <1>17 DEF Drain, Drained
  <2>2. ~HasStatus(w') /\ Length(w') = 0
    BY <2>1 DEF HasStatus, Length
  <2>3. QED
    BY <2>2, MaxBufferSizeAssumption DEF NoLostFlush
<1>18. CASE DeliverBefore
  BY <1>18 DEF DeliverBefore, YieldOutput, NoLostFlush, world, chans
<1>19. CASE DeliverStatus
  BY <1>19 DEF DeliverStatus, NoLostFlush, Length, HasStatus, vars, world, chans, loop, seen
<1>20. CASE DeliverRest
  BY <1>20 DEF DeliverRest, YieldOutput, NoLostFlush, world, chans
<1>21. CASE DeliverEnd
  BY <1>21 DEF DeliverEnd, NoLostFlush, Length, HasStatus, vars, world, chans, loop, seen
<1>22. CASE Terminated
  BY <1>22 DEF Terminated, NoLostFlush, Length, HasStatus, vars, world, chans, loop, seen
<1>23. CASE UNCHANGED vars
  BY <1>23 DEF NoLostFlush, vars
<1>24. QED
  BY <1>1, <1>2, <1>3, <1>4, <1>5, <1>6, <1>7, <1>8, <1>9, <1>10, <1>11, <1>12, <1>13, <1>14, <1>15, <1>16, <1>17, <1>18, <1>19, <1>20, <1>21, <1>22, <1>23 DEF Next, Reader, Environment, Select, Body

-----------------------------------------------------------------------------
(* The invariants of streamOutput.                                         *)

\* Each step of the reader, the environment or the loop keeps the data
\* invariant.
LEMMA DataKept ==
  ASSUME TypeOK, DataInv, [Next]_vars
  PROVE  DataInv'
<1>1. CASE ReaderWrite
  BY <1>1, WriteKeepsData
<1>2. CASE ReaderReport
  BY <1>2, ReportKeepsData
<1>3. CASE Drain
  BY <1>3, DrainKeepsData
<1>4. CASE DeliverBefore \/ DeliverRest
  BY <1>4, PiecesKeepData
<1>5. CASE DeliverStatus
  BY <1>5, StatusKeepsData
<1>6. CASE DeliverEnd
  BY <1>6, EndKeepsData
<1>7. CASE ReaderEOF \/ Environment
  <2>1. UNCHANGED <<reads, reports, w, batch, prev, idx, out, told, pc>>
    BY <1>7 DEF ReaderEOF, Environment, ClockTick, SendDone, TickerFire,
                HbTickerFire, CtxCancel, world, loop, seen
  <2>2. QED
    BY <2>1, DataUnchanged
<1>8. CASE Select
  <2>1. /\ UNCHANGED <<reads, reports, w, batch, prev, idx, out, told>>
        /\ pc = "select"
    BY <1>8 DEF Select, SelectCtx, SelectTick, SelectHeartbeat, SelectFlush,
                SelectDone, world, seen
  <2>2. QED
    BY <2>1, DataUnchanged
<1>9. CASE YieldHeartbeat \/ CheckLen \/ CheckStatus
  <2>1. /\ UNCHANGED <<reads, reports, w, batch, prev, idx, out, told>>
        /\ pc \in {"heartbeat", "checkLen", "checkStatus"}
    BY <1>9 DEF YieldHeartbeat, CheckLen, CheckStatus, world, seen
  <2>2. QED
    BY <2>1, DataUnchanged
<1>10. CASE Terminated \/ UNCHANGED vars
  <2>1. UNCHANGED <<reads, reports, w, batch, prev, idx, out, told, pc>>
    BY <1>10 DEF Terminated, vars
  <2>2. QED
    BY <2>1, DataUnchanged
<1>11. QED
  BY <1>1, <1>2, <1>3, <1>4, <1>5, <1>6, <1>7, <1>8, <1>9, <1>10
     DEF Next, Reader, Body

\* Nothing has been read, buffered or delivered yet.
LEMMA InitInv ==
  ASSUME Init
  PROVE  IInv
<1>1. /\ reads = <<>> /\ reports = <<>> /\ out = <<>> /\ told = 0
      /\ w.buffer = <<>> /\ w.statuses = <<>>
      /\ batch = NoBatch /\ batch.data = <<>> /\ batch.statuses = <<>>
      /\ prev = 0 /\ idx = 1 /\ pc = "select" /\ endTime = 0 /\ done = "pending"
  BY DEF Init, NewBufferWriter, NoBatch
<1>2. Len(<<>>) = 0 /\ Run(0, 0) = <<>>
  BY DEF Run
<1>3. TakenBytes = 0 /\ TakenReports = 0 /\ BaseBytes = 0 /\ BaseReports = 0
  <2>1. /\ Len(reads) = 0 /\ Len(reports) = 0
        /\ Len(w.buffer) = 0 /\ Len(w.statuses) = 0
        /\ Len(batch.data) = 0 /\ Len(batch.statuses) = 0
    BY <1>1, <1>2
  <2>2. TakenBytes = 0 /\ TakenReports = 0
    BY <2>1 DEF TakenBytes, TakenReports
  <2>3. QED
    BY <2>1, <2>2 DEF BaseBytes, BaseReports
<1>4. ReportsInv /\ OutputExact /\ ReportsInPlace
  BY <1>1, <1>2 DEF ReportsInv, OutputExact, ReportsInPlace
<1>5. WriterInv
  BY <1>1, <1>2, <1>3 DEF WriterInv
<1>6. BatchInv /\ PositionInv
  BY <1>1, <1>2, <1>3 DEF BatchInv, PositionInv
<1>7. FinalInv
  BY <1>1 DEF FinalInv
<1>8. NoLostFlush
  BY <1>1, <1>2, MaxBufferSizeAssumption DEF NoLostFlush, HasStatus, Length
<1>9. QED
  BY <1>4, <1>5, <1>6, <1>7, <1>8 DEF IInv, DataInv

\* Every byte and report read is delivered, in the batch or in the writer, in
\* that order, at every step of streamOutput and of the reader.
THEOREM InvariantHolds == Spec => []IInv
<1>1. Init => IInv
  BY InitInv
<1>2. TypeOK /\ IInv /\ [Next]_vars => IInv'
  BY DataKept, FinalKept, FlushKept DEF IInv
<1>3. QED
  BY <1>1, <1>2, TypeCorrect, PTL DEF Spec

\* The consumer receives exactly the bytes the child wrote, in order: no
\* interleaving of Write, flushBatch and deliver loses or repeats one.
THEOREM BytesExact == Spec => []OutputExact
<1>1. IInv => OutputExact
  BY DEF IInv, DataInv
<1>2. QED
  BY <1>1, InvariantHolds, PTL

\* A ProgramStatus comes after all the output before it and before any output
\* after it, whatever batches and flushes it falls in.
THEOREM StatusInPlace == Spec => []ReportsInPlace
<1>1. IInv => ReportsInPlace
  BY DEF IInv, DataInv
<1>2. QED
  BY <1>1, InvariantHolds, PTL

\* A pending report or a full buffer is never left without a flush request,
\* although the flush channel drops tokens.
THEOREM FlushNotLost == Spec => []NoLostFlush
<1>1. IInv => NoLostFlush
  BY DEF IInv
<1>2. QED
  BY <1>1, InvariantHolds, PTL

\* What the final flush of done delivers is everything that was left.
LEMMA OkIsComplete ==
  ASSUME TypeOK, IInv
  PROVE  Complete
<1>1. SUFFICES ASSUME pc = "ok"
               PROVE  Len(out) = Len(reads) /\ told = Len(reports)
  BY DEF Complete
<1>2. w.buffer = <<>> /\ w.statuses = <<>>
  BY <1>1 DEF IInv, FinalInv
<1>3. BatchInv /\ PositionInv /\ batch = NoBatch /\ prev = 0 /\ idx = 1
  BY <1>1 DEF IInv, DataInv, BatchInv
<1>4. /\ Len(w.buffer) = 0 /\ Len(w.statuses) = 0
      /\ Len(batch.data) = 0 /\ Len(batch.statuses) = 0
  BY <1>2, <1>3 DEF NoBatch
<1>5. BaseBytes = Len(reads) /\ BaseReports = Len(reports)
  <2>1. TakenBytes = Len(reads) - 0 /\ TakenReports = Len(reports) - 0
    BY <1>4 DEF TakenBytes, TakenReports
  <2>2. BaseBytes = TakenBytes - 0 /\ BaseReports = TakenReports - 0
    BY <1>4 DEF BaseBytes, BaseReports
  <2>3. QED
    BY <2>1, <2>2, Lengths
<1>6. QED
  BY <1>3, <1>5, Lengths DEF PositionInv

\* When streamOutput returns ok, all output and all reports were delivered.
THEOREM CompleteOnReturn == Spec => []Complete
BY OkIsComplete, TypeCorrect, InvariantHolds, PTL

-----------------------------------------------------------------------------
(* The abstract event stream.                                              *)

\* The report positions of the abstract stream.
LEMMA PositionFacts ==
  ASSUME TypeOK
  PROVE  /\ Positions \in Seq(Nat)
         /\ Len(Positions) = Len(reports)
         /\ \A r \in 1 .. Len(reports) : Positions[r] = reports[r].at
BY Elements, Lengths DEF Positions

\* Bytes the consumer receives next are the next of the stream, and do not pass
\* a report it has not received.
LEMMA OutputIsDelivery ==
  ASSUME TypeOK, IInv, TypeOK', IInv',
         UNCHANGED <<reads, reports, eof, told>>, pc = "deliver",
         pc' \in {"deliver", "stopped"}, Len(out') > Len(out)
  PROVE  Stream!DeliverBytes
<1> DEFINE n == Len(out') - Len(out)
<1>1. /\ Len(out) \in Nat /\ Len(out') \in Nat /\ n \in Nat \ {0}
      /\ Len(reads) \in Nat /\ Len(reports) \in Nat /\ told \in Nat
  BY Lengths
<1>2. out' = out \o Run(Len(out), n)
  <2>1. out = Run(0, Len(out)) /\ out' = Run(0, Len(out'))
    BY DEF IInv, DataInv, OutputExact
  <2>2. Run(0, Len(out)) \o Run(0 + Len(out), n) = Run(0, Len(out) + n)
    BY <1>1, RunConcat
  <2>3. 0 + Len(out) = Len(out) /\ Len(out) + n = Len(out')
    BY <1>1
  <2>4. QED
    BY <2>1, <2>2, <2>3
<1>3. Len(out') <= Stream!Deliverable
  <2>1. CASE told < Len(reports)
    <3>1. told + 1 \in 1 .. Len(reports) /\ ~(told + 1 <= told)
      BY <1>1, <2>1
    <3>2. Len(out') <= reports[told + 1].at
      BY <3>1 DEF IInv, DataInv, ReportsInPlace
    <3>3. QED
      BY <2>1, <3>1, <3>2, PositionFacts DEF Stream!Deliverable
  <2>2. CASE ~(told < Len(reports))
    <3>1. Len(out') <= Len(reads)
      BY DEF IInv, DataInv, OutputExact
    <3>2. QED
      BY <2>2, <3>1, PositionFacts DEF Stream!Deliverable
  <2>3. QED
    BY <2>1, <2>2
<1>4. Stream!Deliverable \in Nat
  <2>1. told < Len(reports) => Positions[told + 1] \in Nat
    <3>1. told < Len(reports) => told + 1 \in 1 .. Len(reports)
      BY <1>1
    <3>2. QED
      BY <3>1, PositionFacts, Elements
  <2>2. QED
    BY <1>1, <2>1, PositionFacts DEF Stream!Deliverable
<1>5. n \in 1 .. Stream!Deliverable - Len(out)
  BY <1>1, <1>3, <1>4
<1>6. StreamState = "open" /\ StreamState' \in {"open", "abandoned"}
  BY DEF StreamState
<1>7. Run(Len(out), n) = Stream!Run(Len(out), n)
  BY DEF Run, Stream!Run
<1>8. UNCHANGED <<Len(reads), Positions, eof, told>>
  BY DEF Positions
<1>9. QED
  BY <1>2, <1>5, <1>6, <1>7, <1>8 DEF Stream!DeliverBytes

\* A report the consumer receives is the next of the stream, at its place.
LEMMA StatusIsDelivery ==
  ASSUME TypeOK, IInv, IInv',
         UNCHANGED <<reads, reports, eof, out>>, told' = told + 1,
         pc = "deliver", pc' \in {"deliver", "stopped"}
  PROVE  Stream!DeliverReport
<1>1. Len(reports) \in Nat /\ told \in Nat /\ Len(out) \in Nat
  BY Lengths
<1>2. told + 1 \in 1 .. Len(reports)
  BY <1>1 DEF IInv, DataInv, ReportsInPlace
<1>3. Len(out) <= reports[told + 1].at
  <2>1. ~(told + 1 <= told)
    BY <1>1
  <2>2. QED
    BY <1>2, <2>1 DEF IInv, DataInv, ReportsInPlace
<1>4. reports[told + 1].at <= Len(out)
  BY <1>1, <1>2 DEF IInv, DataInv, ReportsInPlace
<1>5. reports[told + 1].at = Len(out)
  <2>1. reports[told + 1].at \in Nat
    BY <1>2, Elements
  <2>2. QED
    BY <2>1, <1>1, <1>3, <1>4
<1>6. told < Len(Positions) /\ Positions[told + 1] = Len(out)
  BY <1>1, <1>2, <1>5, PositionFacts
<1>7. StreamState = "open" /\ StreamState' \in {"open", "abandoned"}
  BY DEF StreamState
<1>8. UNCHANGED <<Len(reads), Positions, eof, out>>
  BY DEF Positions
<1>9. QED
  BY <1>6, <1>7, <1>8 DEF Stream!DeliverReport

\* A step that delivers nothing either leaves the stream as it is, or ends it:
\* complete when everything was delivered, abandoned otherwise.
LEMMA QuietStep ==
  ASSUME TypeOK, TypeOK', IInv', Complete',
         UNCHANGED <<reads, reports, eof, out, told>>,
         pc' = pc \/ pc \notin {"ok", "stopped"}
  PROVE  [Stream!ENext]_(Stream!evars)
<1>1. UNCHANGED <<Len(reads), Positions, eof, out, told>>
  BY DEF Positions
<1>2. CASE StreamState' = StreamState
  BY <1>1, <1>2 DEF Stream!evars
<1>3. CASE StreamState' # StreamState
  <2>1. StreamState = "open" /\ pc' \in {"ok", "stopped"}
    BY <1>3 DEF StreamState
  <2>2. CASE pc' = "ok"
    <3>1. StreamState' = "complete"
      BY <2>2 DEF StreamState
    <3>2. eof
      BY <2>2 DEF IInv, FinalInv
    <3>3. Len(out) = Len(reads) /\ told = Len(Positions)
      BY <2>2, PositionFacts DEF Complete
    <3>4. QED
      BY <1>1, <2>1, <3>1, <3>2, <3>3 DEF Stream!ENext, Stream!Finish
  <2>3. CASE pc' = "stopped"
    <3>1. StreamState' = "abandoned"
      BY <2>3 DEF StreamState
    <3>2. QED
      BY <1>1, <2>1, <3>1 DEF Stream!ENext, Stream!Abandon
  <2>4. QED
    BY <2>1, <2>2, <2>3
<1>4. QED
  BY <1>2, <1>3

\* What the reader adds to the writer, the source adds to the stream.
LEMMA ReaderIsSource ==
  ASSUME TypeOK, TypeOK', Reader
  PROVE  [Stream!ENext]_(Stream!evars)
<1>1. Len(reads) \in Nat /\ Len(reads') \in Nat /\ Len(reports) \in Nat
  BY Lengths
<1>2. CASE ReaderWrite
  <2>1. PICK k \in 1 .. MaxBytes - Len(reads) :
          reads' = reads \o [i \in 1 .. k |-> now]
    BY <1>2 DEF ReaderWrite
  <2>2. Len(reads') = Len(reads) + k /\ k >= 1
    <3>1. k \in Nat \ {0}
      BY <1>1, BoundsAssumption
    <3>2. [i \in 1 .. k |-> now] \in Seq(Nat) /\ reads \in Seq(Nat)
      BY <3>1 DEF TypeOK
    <3>3. Len([i \in 1 .. k |-> now]) = k
      BY <3>1
    <3>4. QED
      BY <2>1, <3>1, <3>2, <3>3, ConcatFacts
  <2>3. ~eof /\ UNCHANGED <<Positions, eof, out, told, StreamState>>
    BY <1>2 DEF ReaderWrite, loop, seen, Positions, StreamState
  <2>4. QED
    BY <1>1, <2>2, <2>3 DEF Stream!ENext, Stream!EmitBytes
<1>3. CASE ReaderReport
  <2>1. /\ reports' = Append(reports, [at |-> Len(reads), time |-> now])
        /\ ~eof /\ UNCHANGED <<reads, eof, out, told, StreamState>>
    BY <1>3 DEF ReaderReport, loop, seen, StreamState
  <2>2. /\ Len(reports') = Len(reports) + 1
        /\ \A r \in 1 .. Len(reports) : reports'[r] = reports[r]
        /\ reports'[Len(reports) + 1].at = Len(reads)
    BY <2>1 DEF TypeOK
  <2>3. Positions' = Append(Positions, Len(reads))
    <3>1. /\ Positions' \in Seq(Nat) /\ Len(Positions') = Len(reports) + 1
          /\ \A r \in 1 .. Len(reports) + 1 : Positions'[r] = reports'[r].at
      BY <2>2, PositionFacts DEF Positions
    <3>2. /\ Positions \in Seq(Nat) /\ Len(Positions) = Len(reports)
          /\ \A r \in 1 .. Len(reports) : Positions[r] = reports[r].at
      BY PositionFacts
    <3>3. /\ Append(Positions, Len(reads)) \in Seq(Nat)
          /\ Len(Append(Positions, Len(reads))) = Len(reports) + 1
          /\ \A r \in 1 .. Len(reports) :
               Append(Positions, Len(reads))[r] = Positions[r]
          /\ Append(Positions, Len(reads))[Len(reports) + 1] = Len(reads)
      BY <1>1, <3>2, AppendProperties
    <3>4. ASSUME NEW r \in 1 .. Len(reports) + 1
          PROVE  Positions'[r] = Append(Positions, Len(reads))[r]
      <4>1. Positions'[r] = reports'[r].at
        BY <3>1
      <4>2. CASE r = Len(reports) + 1
        BY <4>1, <4>2, <2>2, <3>3
      <4>3. CASE r # Len(reports) + 1
        <5>1. r \in 1 .. Len(reports)
          BY <4>3, <1>1
        <5>2. reports'[r] = reports[r] /\ Positions[r] = reports[r].at
          BY <5>1, <2>2, <3>2
        <5>3. Append(Positions, Len(reads))[r] = Positions[r]
          BY <5>1, <3>3
        <5>4. QED
          BY <4>1, <5>2, <5>3
      <4>4. QED
        BY <4>2, <4>3
    <3>5. QED
      BY <3>1, <3>3, <3>4, SeqEqual
  <2>4. UNCHANGED <<Len(reads), eof, out, told, StreamState>>
    BY <2>1
  <2>5. QED
    BY <2>1, <2>3, <2>4 DEF Stream!ENext, Stream!EmitReport
<1>4. CASE ReaderEOF
  <2>1. eof' = TRUE /\ UNCHANGED <<Len(reads), Positions, out, told, StreamState>>
    BY <1>4 DEF ReaderEOF, loop, seen, Positions, StreamState
  <2>2. QED
    BY <2>1 DEF Stream!ENext, Stream!Close
<1>5. QED
  BY <1>2, <1>3, <1>4 DEF Reader

\* A piece of output makes what the consumer has longer.
LEMMA PieceGrows ==
  ASSUME TypeOK, NEW to \in 0 .. Len(batch.data), to > prev,
         out' = out \o SubSeq(batch.data, prev + 1, to)
  PROVE  Len(out') > Len(out)
<1>1. SubSeq(batch.data, prev + 1, to) \in Seq(Nat)
      /\ Len(SubSeq(batch.data, prev + 1, to)) = to - prev
  BY PieceFacts
<1>2. Len(out') = Len(out) + Len(SubSeq(batch.data, prev + 1, to))
  BY <1>1, ConcatFacts DEF TypeOK
<1>3. QED
  BY <1>1, <1>2, Lengths

\* Every step of the loop and of its environment is a step of the abstract
\* event stream, or leaves it unchanged.
LEMMA StepRefines ==
  ASSUME TypeOK, IInv, TypeOK', IInv', Complete', [Next]_vars
  PROVE  [Stream!ENext]_(Stream!evars)
<1>1. CASE Reader
  BY <1>1, ReaderIsSource
<1>2. CASE DeliverBefore \/ DeliverRest
  <2>1. PICK to : to \in 0 .. Len(batch.data) /\ to > prev /\ YieldOutput(to)
    <3>1. CASE DeliverBefore
      BY <3>1, CutFacts DEF DeliverBefore
    <3>2. CASE DeliverRest
      BY <3>2, Lengths DEF DeliverRest
    <3>3. QED
      BY <1>2, <3>1, <3>2
  <2>2. out' = out \o SubSeq(batch.data, prev + 1, to)
    BY <2>1 DEF YieldOutput
  <2>3. Len(out') > Len(out)
    BY <2>1, <2>2, PieceGrows
  <2>4. /\ UNCHANGED <<reads, reports, eof, told>>
        /\ pc = "deliver" /\ pc' \in {"deliver", "stopped"}
    BY <1>2, <2>1 DEF DeliverBefore, DeliverRest, YieldOutput, world
  <2>5. QED
    BY <2>3, <2>4, OutputIsDelivery DEF Stream!ENext
<1>3. CASE DeliverStatus
  <2>1. /\ UNCHANGED <<reads, reports, eof, out>> /\ told' = told + 1
        /\ pc = "deliver" /\ pc' \in {"deliver", "stopped"}
    BY <1>3 DEF DeliverStatus, world
  <2>2. QED
    BY <2>1, StatusIsDelivery DEF Stream!ENext
<1>4. CASE Environment
  <2>1. UNCHANGED <<reads, reports, eof, out, told, pc>>
    BY <1>4 DEF Environment, ClockTick, SendDone, TickerFire, HbTickerFire,
                CtxCancel, world, loop, seen
  <2>2. QED
    BY <2>1, QuietStep
<1>5. CASE Select
  <2>1. UNCHANGED <<reads, reports, eof, out, told>> /\ pc = "select"
    BY <1>5 DEF Select, SelectCtx, SelectTick, SelectHeartbeat, SelectFlush,
                SelectDone, world, seen
  <2>2. QED
    BY <2>1, QuietStep
<1>6. CASE YieldHeartbeat \/ CheckLen \/ CheckStatus \/ Drain \/ DeliverEnd
  <2>1. /\ UNCHANGED <<reads, reports, eof, out, told>>
        /\ pc \in {"heartbeat", "checkLen", "checkStatus", "drain", "deliver"}
    BY <1>6 DEF YieldHeartbeat, CheckLen, CheckStatus, Drain, DeliverEnd,
                world, seen
  <2>2. QED
    BY <2>1, QuietStep
<1>7. CASE Terminated \/ UNCHANGED vars
  <2>1. UNCHANGED <<reads, reports, eof, out, told, pc>>
    BY <1>7 DEF Terminated, vars
  <2>2. QED
    BY <2>1, QuietStep
<1>8. QED
  BY <1>1, <1>2, <1>3, <1>4, <1>5, <1>6, <1>7 DEF Next, Body

\* streamOutput implements the abstract event stream: bytes in order and once,
\* each report in its place, complete only when everything was delivered.
THEOREM LoopImplementsStream == Spec => ImplementsEventStream
<1>1. Init => Stream!EInit
  <2>1. SUFFICES ASSUME Init
                 PROVE  Stream!EInit
    OBVIOUS
  <2>2. /\ Len(reads) = 0 /\ Positions = <<>>
        /\ StreamState = "open"
    BY <2>1 DEF Init, Positions, StreamState
  <2>3. eof = FALSE /\ out = <<>> /\ told = 0
    BY <2>1 DEF Init
  <2>4. QED
    BY <2>2, <2>3 DEF Stream!EInit
<1>2. TypeOK /\ IInv /\ TypeOK' /\ IInv' /\ Complete' /\ [Next]_vars
        => [Stream!ENext]_(Stream!evars)
  BY StepRefines
<1>3. QED
  BY <1>1, <1>2, TypeCorrect, InvariantHolds, CompleteOnReturn, PTL
     DEF Spec, ImplementsEventStream, Stream!ESpec

-----------------------------------------------------------------------------
(* When the bytes were read: the heartbeat, the end time and the segments. *)

\* A byte read at time r belongs in a segment of time t.
InWindow(t, r) == t <= r /\ r < t + MergeWindow

\* The i-th segment holds byte k: it starts there or before, the next one after.
Holds(segs, i, k) ==
  /\ segs[i].offset <= k
  /\ \A j \in i + 1 .. Len(segs) : k < segs[j].offset

\* The segments start at different offsets, in order.
Ascending(segs) ==
  \A i, j \in 1 .. Len(segs) : i < j => segs[i].offset < segs[j].offset

\* The segments cover n bytes, which follow the `base' first ones read at these
\* times, and date each of them to within the merge window.
Dated(times, segs, n, base) ==
  /\ n > 0 => segs # <<>> /\ segs[1].offset = 0
  /\ \A i \in 1 .. Len(segs) : segs[i].offset < n
  /\ Ascending(segs)
  /\ \A i \in 1 .. Len(segs) : \A k \in 0 .. n - 1 :
       Holds(segs, i, k) => InWindow(segs[i].time, times[base + k + 1])

\* The flag `active' is clear only while nothing was delivered.
QuietInv ==
  /\ ~active /\ pc # "stopped" => Len(out) + told = hbMark
  /\ pc = "heartbeat" => ~active

\* No clock reading is ahead of the clock.
ClockInv ==
  /\ \A i \in 1 .. Len(reads) : reads[i] <= now
  /\ \A r \in 1 .. Len(reports) : reports[r].time <= now
  /\ \A i \in 1 .. Len(w.segments) : w.segments[i].time <= now

\* The segments of the writer, of the batch and of what was delivered date
\* the bytes they are about.  A batch without a report is one event.
DatesInv ==
  /\ outTimes \in Seq(Nat)
  /\ Dated(reads, w.segments, Len(w.buffer), TakenBytes)
  /\ pc = "deliver" =>
       /\ Dated(reads, batch.segments, Len(batch.data), BaseBytes)
       /\ batch.statuses = <<>> => prev \in {0, Len(batch.data)}
  /\ SegmentFidelity

TimeInv == QuietInv /\ ClockInv /\ EndCoversOutput /\ DatesInv

\* A set of positions that is not empty has a last one.
LEMMA LastExists ==
  ASSUME NEW n \in Nat, NEW S \in SUBSET (1 .. n), S # {}
  PROVE  \E i \in S : \A j \in S : j <= i
<1> DEFINE T == {n - i : i \in S}
<1>1. T \subseteq Nat /\ T # {}
  <2>1. \A i \in S : n - i \in Nat
    OBVIOUS
  <2>2. QED
    BY <2>1
<1>2. PICK x \in T : \A y \in T : ~ (<<y, x>> \in OpToRel(<, Nat))
  BY <1>1, NatLessThanWellFounded, WFMin, Zenon
<1>3. ASSUME NEW y \in T
      PROVE  x <= y
  <2>1. x \in Nat /\ y \in Nat
    BY <1>1
  <2> HIDE DEF T
  <2>2. y < x => <<y, x>> \in OpToRel(<, Nat)
    BY <2>1, Zenon DEF OpToRel
  <2>3. ~ (<<y, x>> \in OpToRel(<, Nat))
    BY <1>2, Zenon
  <2>4. ~ (y < x)
    BY <2>2, <2>3, Zenon
  <2>5. QED
    BY <2>1, <2>4
<1>4. PICK i \in S : x = n - i
  OBVIOUS
<1>5. ASSUME NEW j \in S
      PROVE  j <= i
  <2>1. x <= n - j
    BY <1>3
  <2>2. QED
    BY <1>4, <2>1
<1>6. QED
  BY <1>5

\* The fields of a list of segments.
LEMMA SegmentFields ==
  ASSUME NEW segs \in Segments
  PROVE  /\ Len(segs) \in Nat /\ DOMAIN segs = 1 .. Len(segs)
         /\ \A i \in 1 .. Len(segs) : segs[i].offset \in Nat /\ segs[i].time \in Nat
<1>1. segs \in Seq([offset : Nat, time : Nat])
  BY DEF Segments
<1>2. \A i \in 1 .. Len(segs) : segs[i] \in [offset : Nat, time : Nat]
  BY <1>1, ElementOfSeq
<1>3. QED
  BY <1>1, <1>2

\* The segment that holds a byte is the one in effect there.
LEMMA HolderIsInEffect ==
  ASSUME NEW segs \in Segments, NEW k \in Nat, NEW i \in 1 .. Len(segs),
         Holds(segs, i, k)
  PROVE  InEffect(segs, k) = i
<1> DEFINE before == {j \in DOMAIN segs : segs[j].offset <= k}
<1>1. Len(segs) \in Nat /\ DOMAIN segs = 1 .. Len(segs)
  BY SegmentFields
<1>2. \A j \in 1 .. Len(segs) : segs[j].offset \in Nat
  BY SegmentFields
<1>3. i \in before
  BY <1>1 DEF Holds
<1>4. ASSUME NEW j \in before
      PROVE  j <= i
  <2>1. j \in 1 .. Len(segs) /\ segs[j].offset <= k
    BY <1>1
  <2>2. j \in i + 1 .. Len(segs) => k < segs[j].offset
    BY DEF Holds
  <2>3. segs[j].offset \in Nat
    BY <1>2, <2>1
  <2>4. QED
    BY <1>1, <2>1, <2>2, <2>3
<1>5. before \subseteq Nat
  BY <1>1
<1>6. InEffect(segs, k) = CHOOSE j \in before : \A l \in before : l <= j
  BY <1>3 DEF InEffect
<1> HIDE DEF before
<1>7. \A j \in before : (\A l \in before : l <= j) => j = i
  BY <1>3, <1>4, <1>5
<1>8. QED
  BY <1>3, <1>4, <1>6, <1>7

\* A byte at or after the first segment is held by the one in effect there.
LEMMA InEffectHolds ==
  ASSUME NEW segs \in Segments, NEW k \in Nat,
         1 \in 1 .. Len(segs), segs[1].offset <= k
  PROVE  /\ InEffect(segs, k) \in 1 .. Len(segs)
         /\ Holds(segs, InEffect(segs, k), k)
<1> DEFINE before == {j \in 1 .. Len(segs) : segs[j].offset <= k}
<1>1. Len(segs) \in Nat /\ \A j \in 1 .. Len(segs) : segs[j].offset \in Nat
  BY SegmentFields
<1>2. before # {} /\ before \in SUBSET (1 .. Len(segs))
  OBVIOUS
<1>3. PICK i \in before : \A j \in before : j <= i
  BY <1>1, <1>2, LastExists
<1>4. Holds(segs, i, k)
  <2>1. ASSUME NEW j \in i + 1 .. Len(segs)
        PROVE  k < segs[j].offset
    <3>1. i \in 1 .. Len(segs)
      BY <1>2
    <3>2. j \in 1 .. Len(segs) /\ ~ (j <= i)
      BY <3>1, <1>1
    <3>3. ~ (segs[j].offset <= k)
      BY <1>3, <3>2
    <3>4. QED
      BY <3>2, <3>3, <1>1
  <2>2. QED
    BY <1>3, <2>1 DEF Holds
<1>5. InEffect(segs, k) = i
  BY <1>2, <1>4, HolderIsInEffect
<1>6. QED
  BY <1>2, <1>4, <1>5

\* What sliceSegments gives: the segments from the one in effect at the start
\* of the piece to the last one that starts in it, each moved to the piece.
LEMMA SliceIs ==
  ASSUME NEW segs \in Segments, 1 \in 1 .. Len(segs), segs[1].offset = 0,
         Ascending(segs), NEW from \in Nat, NEW to \in Nat, from < to
  PROVE  \E last \in 1 .. Len(segs) :
           LET first == InEffect(segs, from)
               s     == SliceSegments(segs, from, to)
           IN  /\ first \in 1 .. last /\ Holds(segs, first, from)
               /\ \A j \in last + 1 .. Len(segs) : to <= segs[j].offset
               /\ s \in Segments
               /\ Len(s) = last - first + 1
               /\ \A i \in 1 .. Len(s) :
                    /\ s[i].offset = Larger(segs[first + i - 1].offset - from, 0)
                    /\ s[i].time = segs[first + i - 1].time
<1> DEFINE first == InEffect(segs, from)
           kept  == {i \in first .. Len(segs) :
                       \A j \in first + 1 .. i : segs[j].offset < to}
           last  == CHOOSE i \in kept : \A j \in kept : j <= i
           entry(i) == [offset |-> Larger(segs[first + i - 1].offset - from, 0),
                        time   |-> segs[first + i - 1].time]
           s     == SliceSegments(segs, from, to)
<1>1. /\ Len(segs) \in Nat
      /\ \A j \in 1 .. Len(segs) : segs[j].offset \in Nat /\ segs[j].time \in Nat
  BY SegmentFields
<1>2. first \in 1 .. Len(segs) /\ Holds(segs, first, from)
  BY InEffectHolds
<1>3. first \in kept /\ kept \in SUBSET (1 .. Len(segs))
  BY <1>1, <1>2
<1>4. \E i \in kept : \A j \in kept : j <= i
  BY <1>1, <1>3, LastExists
<1>5. last \in kept /\ \A j \in kept : j <= last
  BY <1>4
<1>6. s = [i \in 1 .. last - first + 1 |-> entry(i)]
  BY <1>2 DEF SliceSegments
<1> HIDE DEF first, s, last
<1>7. last \in first .. Len(segs) /\ first \in 1 .. last
  BY <1>1, <1>2, <1>5
<1>8. ASSUME NEW j \in last + 1 .. Len(segs)
      PROVE  to <= segs[j].offset
  <2>1. SUFFICES ASSUME segs[j].offset < to
                 PROVE  FALSE
    BY <1>1, <1>7
  <2>2. j \in first .. Len(segs) /\ j \notin kept
    BY <1>1, <1>2, <1>5, <1>7
  <2>3. PICK l \in first + 1 .. j : ~ (segs[l].offset < to)
    BY <2>2
  <2>4. l \in 1 .. Len(segs) /\ j \in 1 .. Len(segs) /\ l <= j
    BY <1>1, <1>2, <2>2
  <2>5. segs[l].offset <= segs[j].offset
    BY <1>1, <2>4 DEF Ascending
  <2>6. QED
    BY <1>1, <2>1, <2>3, <2>4, <2>5
<1>9. \A i \in 1 .. last - first + 1 :
        first + i - 1 \in 1 .. Len(segs) /\ entry(i) \in [offset : Nat, time : Nat]
  <2>1. SUFFICES ASSUME NEW i \in 1 .. last - first + 1
                 PROVE  /\ first + i - 1 \in 1 .. Len(segs)
                        /\ entry(i) \in [offset : Nat, time : Nat]
    OBVIOUS
  <2>2. first + i - 1 \in 1 .. Len(segs)
    BY <1>1, <1>7
  <2>3. /\ segs[first + i - 1].offset \in Nat
        /\ segs[first + i - 1].time \in Nat
    BY <1>1, <2>2
  <2>4. Larger(segs[first + i - 1].offset - from, 0) \in Nat
    BY <2>3 DEF Larger
  <2>5. QED
    BY <2>2, <2>3, <2>4
<1>10. last - first + 1 \in Nat
  BY <1>1, <1>7
<1>11. /\ s \in Segments /\ Len(s) = last - first + 1
       /\ \A i \in 1 .. Len(s) : s[i] = entry(i)
  <2> HIDE DEF entry
  <2> DEFINE n == last - first + 1
  <2>0. n \in Nat /\ \A i \in 1 .. n : entry(i) \in [offset : Nat, time : Nat]
    BY <1>9, <1>10
  <2>1. s \in Seq([offset : Nat, time : Nat]) /\ Len(s) = n
    <3>1. s = [i \in 1 .. n |-> entry(i)]
      BY <1>6
    <3> HIDE DEF n
    <3>2. QED
      BY <2>0, <3>1
  <2>2. QED
    BY <1>6, <1>10, <2>1 DEF Segments
<1>12. \A i \in 1 .. Len(s) :
         /\ s[i].offset = Larger(segs[first + i - 1].offset - from, 0)
         /\ s[i].time = segs[first + i - 1].time
  BY <1>11
<1>13. last \in 1 .. Len(segs)
  BY <1>1, <1>2, <1>7
<1>14. QED
  BY <1>2, <1>7, <1>8, <1>11, <1>12, <1>13 DEF first, s

\* sliceSegments dates each byte of the piece as the whole batch does.
LEMMA SliceDates ==
  ASSUME NEW segs \in Segments, 1 \in 1 .. Len(segs), segs[1].offset = 0,
         Ascending(segs), NEW from \in Nat, NEW to \in Nat,
         NEW p \in 0 .. to - from - 1
  PROVE  SliceSegments(segs, from, to)[InEffect(SliceSegments(segs, from, to), p)].time
           = segs[InEffect(segs, from + p)].time
<1> DEFINE first == InEffect(segs, from)
           s     == SliceSegments(segs, from, to)
           e     == InEffect(segs, from + p)
<1>0. from < to /\ from + p \in Nat /\ p \in Nat /\ from + p < to
  OBVIOUS
<1>1. /\ Len(segs) \in Nat
      /\ \A j \in 1 .. Len(segs) : segs[j].offset \in Nat
  BY SegmentFields
<1>2. PICK last \in 1 .. Len(segs) :
        /\ first \in 1 .. last /\ Holds(segs, first, from)
        /\ \A j \in last + 1 .. Len(segs) : to <= segs[j].offset
        /\ s \in Segments
        /\ Len(s) = last - first + 1
        /\ \A i \in 1 .. Len(s) :
             /\ s[i].offset = Larger(segs[first + i - 1].offset - from, 0)
             /\ s[i].time = segs[first + i - 1].time
  BY <1>0, SliceIs
<1>3. e \in 1 .. Len(segs) /\ Holds(segs, e, from + p)
  BY <1>0, InEffectHolds
<1> HIDE DEF first, s, e
<1>4. segs[e].offset <= from + p /\ segs[first].offset <= from
  BY <1>2, <1>3 DEF Holds
<1>5. first <= e
  <2>1. SUFFICES ASSUME e < first
                 PROVE  FALSE
    BY <1>1, <1>2, <1>3
  <2>2. first \in e + 1 .. Len(segs)
    BY <1>1, <1>2, <1>3, <2>1
  <2>3. from + p < segs[first].offset
    BY <1>3, <2>2 DEF Holds
  <2>4. segs[first].offset \in Nat
    BY <1>1, <1>2
  <2>5. QED
    BY <1>4, <2>3, <2>4
<1>6. e <= last
  <2>1. SUFFICES ASSUME last < e
                 PROVE  FALSE
    BY <1>1, <1>2, <1>3
  <2>2. e \in last + 1 .. Len(segs)
    BY <1>1, <1>2, <1>3, <2>1
  <2>3. to <= segs[e].offset
    BY <1>2, <2>2
  <2>4. segs[e].offset \in Nat
    BY <1>1, <1>3
  <2>5. QED
    BY <1>0, <1>4, <2>3, <2>4
<1> DEFINE i == e - first + 1
<1>7. i \in 1 .. Len(s) /\ first + i - 1 = e
  BY <1>1, <1>2, <1>3, <1>5, <1>6
<1>8. Holds(s, i, p)
  <2>1. s[i].offset <= p
    <3>1. s[i].offset = Larger(segs[e].offset - from, 0)
      BY <1>2, <1>7
    <3>2. segs[e].offset \in Nat
      BY <1>1, <1>3
    <3>3. QED
      BY <1>0, <1>4, <3>1, <3>2 DEF Larger
  <2>2. ASSUME NEW j \in i + 1 .. Len(s)
        PROVE  p < s[j].offset
    <3>1. j \in 1 .. Len(s) /\ first + j - 1 \in e + 1 .. Len(segs)
      BY <1>1, <1>2, <1>3, <1>7
    <3>2. s[j].offset = Larger(segs[first + j - 1].offset - from, 0)
      BY <1>2, <3>1
    <3>3. from + p < segs[first + j - 1].offset
      BY <1>3, <3>1 DEF Holds
    <3>4. segs[first + j - 1].offset \in Nat
      BY <1>1, <1>3, <3>1
    <3>5. QED
      BY <1>0, <3>2, <3>3, <3>4 DEF Larger
  <2> HIDE DEF i
  <2>3. QED
    BY <2>1, <2>2 DEF Holds
<1>9. InEffect(s, p) = i
  <2> HIDE DEF i
  <2>1. QED
    BY <1>0, <1>2, <1>7, <1>8, HolderIsInEffect
<1>10. s[i].time = segs[e].time
  BY <1>2, <1>7
<1>11. QED
  BY <1>9, <1>10 DEF s, e

\* Bytes read later do not change the dates of earlier ones.
LEMMA DatedLater ==
  ASSUME NEW times, NEW more, NEW segs, NEW n \in Nat, NEW base \in Nat,
         Dated(times, segs, n, base),
         \A i \in 1 .. base + n : more[i] = times[i]
  PROVE  Dated(more, segs, n, base)
<1>1. \A k \in 0 .. n - 1 : base + k + 1 \in 1 .. base + n
  OBVIOUS
<1>2. QED
  BY <1>1 DEF Dated

\* Write dates the bytes it buffers: by the last segment if they fall in its
\* window, and by one of their own if not.
LEMMA WriteDates ==
  ASSUME NEW times, NEW more, NEW segs \in Segments, NEW n \in Nat,
         NEW base \in Nat, NEW m \in Nat \ {0}, NEW t \in Nat,
         Dated(times, segs, n, base),
         \A i \in 1 .. Len(segs) : segs[i].time <= t,
         \A i \in 1 .. base + n : more[i] = times[i],
         \A i \in base + n + 1 .. base + n + m : more[i] = t,
         NEW grown,
         grown = IF segs = <<>> \/ t - segs[Len(segs)].time >= MergeWindow
                   THEN Append(segs, [offset |-> n, time |-> t]) ELSE segs
  PROVE  Dated(more, grown, n + m, base)
<1>1. /\ Len(segs) \in Nat
      /\ \A i \in 1 .. Len(segs) : segs[i].offset \in Nat /\ segs[i].time \in Nat
  BY SegmentFields
<1>2. segs = <<>> <=> Len(segs) = 0
  BY DEF Segments
<1>3. /\ n > 0 => segs # <<>> /\ segs[1].offset = 0
      /\ \A i \in 1 .. Len(segs) : segs[i].offset < n
      /\ Ascending(segs)
  BY DEF Dated
<1>4. ASSUME NEW i \in 1 .. Len(segs), NEW k \in 0 .. n - 1, Holds(segs, i, k)
      PROVE  InWindow(segs[i].time, more[base + k + 1])
  <2>1. InWindow(segs[i].time, times[base + k + 1])
    BY <1>4 DEF Dated
  <2>2. base + k + 1 \in 1 .. base + n
    OBVIOUS
  <2>3. QED
    BY <2>1, <2>2
<1>5. \A k \in n .. n + m - 1 : more[base + k + 1] = t
  <2>1. \A k \in n .. n + m - 1 : base + k + 1 \in base + n + 1 .. base + n + m
    OBVIOUS
  <2>2. QED
    BY <2>1
<1>6. CASE segs = <<>> \/ t - segs[Len(segs)].time >= MergeWindow
  <2>1. /\ Len(grown) = Len(segs) + 1
        /\ \A i \in 1 .. Len(segs) : grown[i] = segs[i]
        /\ grown[Len(segs) + 1] = [offset |-> n, time |-> t]
    BY <1>6 DEF Segments
  <2>2. grown # <<>>
    BY <1>1, <2>1
  <2>3. grown[1].offset = 0
    BY <1>1, <1>2, <1>3, <2>1
  <2>4. \A i \in 1 .. Len(grown) : grown[i].offset < n + m
    BY <1>1, <1>3, <2>1
  <2>5. Ascending(grown)
    BY <1>1, <1>3, <2>1 DEF Ascending
  <2>6. ASSUME NEW i \in 1 .. Len(grown), NEW k \in 0 .. n + m - 1,
               Holds(grown, i, k)
        PROVE  InWindow(grown[i].time, more[base + k + 1])
    <3>1. CASE i = Len(segs) + 1
      <4>1. k \in n .. n + m - 1
        BY <2>1, <2>6, <3>1 DEF Holds
      <4>2. QED
        BY <1>5, <2>1, <3>1, <4>1, MergeWindowAssumption DEF InWindow
    <3>2. CASE i \in 1 .. Len(segs)
      <4>1. Len(segs) + 1 \in i + 1 .. Len(grown)
        BY <1>1, <2>1, <3>2
      <4>2. k < n
        BY <2>1, <2>6, <4>1 DEF Holds
      <4>3. Holds(segs, i, k)
        <5>1. \A j \in i + 1 .. Len(segs) :
                j \in i + 1 .. Len(grown) /\ grown[j] = segs[j]
          BY <1>1, <2>1, <3>2
        <5>2. QED
          BY <2>1, <2>6, <3>2, <5>1 DEF Holds
      <4>4. k \in 0 .. n - 1
        BY <4>2
      <4>5. QED
        BY <1>4, <2>1, <3>2, <4>3, <4>4
    <3>3. QED
      BY <1>1, <2>1, <3>1, <3>2
  <2>7. QED
    <3>1. \A i \in 1 .. Len(grown) : \A k \in 0 .. n + m - 1 :
            Holds(grown, i, k) => InWindow(grown[i].time, more[base + k + 1])
      BY <2>6
    <3>2. QED
      BY ONLY <2>2, <2>3, <2>4, <2>5, <3>1 DEF Dated
<1>7. CASE ~ (segs = <<>> \/ t - segs[Len(segs)].time >= MergeWindow)
  <2>1. grown = segs /\ Len(segs) \in 1 .. Len(segs)
    BY <1>1, <1>2, <1>7
  <2>2. n > 0
    BY <1>1, <1>3, <2>1
  <2>3. ASSUME NEW i \in 1 .. Len(segs), NEW k \in 0 .. n + m - 1,
               Holds(segs, i, k)
        PROVE  InWindow(segs[i].time, more[base + k + 1])
    <3>1. CASE k < n
      <4>1. k \in 0 .. n - 1
        BY <3>1
      <4>2. QED
        BY <1>4, <2>3, <4>1
    <3>2. CASE k >= n
      <4>1. i = Len(segs)
        <5>1. SUFFICES ASSUME i < Len(segs)
                       PROVE  FALSE
          BY <1>1
        <5>2. Len(segs) \in i + 1 .. Len(segs)
          BY <1>1, <5>1
        <5>3. k < segs[Len(segs)].offset
          BY <2>3, <5>2 DEF Holds
        <5>4. QED
          BY <1>1, <1>3, <2>1, <3>2, <5>3
      <4>2. more[base + k + 1] = t
        BY <1>5, <3>2
      <4>3. segs[Len(segs)].time <= t /\ t < segs[Len(segs)].time + MergeWindow
        BY <1>1, <1>7, <2>1, MergeWindowAssumption
      <4>4. QED
        BY <4>1, <4>2, <4>3 DEF InWindow
    <3>3. QED
      BY <3>1, <3>2
  <2>4. \A i \in 1 .. Len(segs) : segs[i].offset < n + m
    <3>1. ASSUME NEW i \in 1 .. Len(segs)
          PROVE  segs[i].offset < n + m
      <4>1. segs[i].offset \in Nat /\ segs[i].offset < n
        BY <1>1, <1>3
      <4>2. QED
        BY <4>1
    <3>2. QED
      BY <3>1
  <2>5. QED
    BY <1>3, <2>1, <2>2, <2>3, <2>4 DEF Dated
<1>8. QED
  BY <1>6, <1>7

-----------------------------------------------------------------------------
(* Each step keeps the times.                                              *)

\* Where the writer's bytes and the batch's are in what was read.
LEMMA Bases ==
  ASSUME TypeOK, DataInv
  PROVE  /\ TakenBytes \in Nat /\ TakenBytes + Len(w.buffer) = Len(reads)
         /\ pc # "stopped" =>
              BaseBytes \in Nat /\ BaseBytes + Len(batch.data) = TakenBytes
<1>1. TakenBytes >= 0 /\ TakenBytes = Len(reads) - Len(w.buffer)
  BY DEF DataInv, WriterInv, TakenBytes
<1>2. TakenBytes \in Nat /\ TakenBytes + Len(w.buffer) = Len(reads)
  BY <1>1, Lengths
<1>3. ASSUME pc # "stopped"
      PROVE  BaseBytes \in Nat /\ BaseBytes + Len(batch.data) = TakenBytes
  <2>1. BaseBytes >= 0 /\ BaseBytes = TakenBytes - Len(batch.data)
    BY <1>3 DEF DataInv, BatchInv, BaseBytes
  <2>2. QED
    BY <1>2, <2>1, Lengths
<1>4. QED
  BY <1>2, <1>3

\* The clock reads numbers.
LEMMA Times ==
  ASSUME TypeOK
  PROVE  /\ now \in Nat /\ endTime \in Nat
         /\ \A i \in 1 .. Len(reads) : reads[i] \in Nat
         /\ \A r \in 1 .. Len(reports) : reports[r].time \in Nat
         /\ w.segments \in Segments /\ batch.segments \in Segments
         /\ \A i \in 1 .. Len(w.segments) : w.segments[i].time \in Nat
<1>1. /\ now \in Nat /\ endTime \in Nat /\ reads \in Seq(Nat)
      /\ reports \in Seq([at : Nat, time : Nat])
      /\ w.segments \in Segments /\ batch.segments \in Segments
  BY DEF TypeOK, Writers, Batches
<1>2. \A r \in 1 .. Len(reports) : reports[r] \in [at : Nat, time : Nat]
  BY <1>1, ElementOfSeq
<1>3. QED
  BY <1>1, <1>2, SegmentFields

\* A write dates its bytes, the reads it adds are not ahead of the clock, and
\* it comes before the end time is taken.
LEMMA WriteKeepsTimes ==
  ASSUME TypeOK, DataInv, FinalInv, TimeInv, ReaderWrite
  PROVE  TimeInv'
<1>1. PICK k \in 1 .. MaxBytes - Len(reads) :
        /\ w' = Write(w, Run(Len(reads), k), now)
        /\ reads' = reads \o [i \in 1 .. k |-> now]
  BY DEF ReaderWrite
<1>2. /\ UNCHANGED <<now, reports, eof, pc, active, batch, prev, idx, endTime,
                     out, outTimes, told, hbMark>>
      /\ ~eof
  BY DEF ReaderWrite, loop, seen
<1>3. /\ k \in Nat \ {0} /\ now \in Nat /\ Len(reads) \in Nat /\ reads \in Seq(Nat)
      /\ Len(w.buffer) \in Nat
  BY Lengths, BoundsAssumption DEF TypeOK
<1>4. /\ Len(reads') = Len(reads) + k
      /\ \A i \in 1 .. Len(reads) : reads'[i] = reads[i]
      /\ \A i \in Len(reads) + 1 .. Len(reads) + k : reads'[i] = now
  <2> DEFINE late == [i \in 1 .. k |-> now]
  <2>1. late \in Seq(Nat) /\ Len(late) = k /\ \A i \in 1 .. k : late[i] = now
    BY <1>3
  <2>2. reads' = reads \o late
    BY <1>1
  <2> HIDE DEF late
  <2>3. /\ Len(reads') = Len(reads) + Len(late)
        /\ \A i \in 1 .. Len(reads) + Len(late) :
             reads'[i] = IF i <= Len(reads) THEN reads[i] ELSE late[i - Len(reads)]
    BY <1>3, <2>1, <2>2, ConcatProperties
  <2>4. QED
    BY <1>3, <2>1, <2>3
<1>5. /\ w'.buffer = w.buffer \o Run(Len(reads), k)
      /\ w'.segments = IF OpensSegment(w, now)
                         THEN Append(w.segments, [offset |-> Len(w.buffer), time |-> now])
                         ELSE w.segments
  <2>1. Run(Len(reads), k) # <<>>
    <3>1. Len(Run(Len(reads), k)) = k
      BY <1>3, RunFacts
    <3>2. QED
      BY <1>3, <3>1
  <2>2. QED
    BY <1>1, <2>1 DEF Write, TypeOK, Writers
<1>6. Len(w'.buffer) = Len(w.buffer) + k
  <2>1. w.buffer \in Seq(Nat)
    BY DEF TypeOK, Writers
  <2>2. Run(Len(reads), k) \in Seq(Nat) /\ Len(Run(Len(reads), k)) = k
    BY <1>3, RunFacts
  <2>3. QED
    BY <1>5, <2>1, <2>2, ConcatFacts
<1>7. TakenBytes' = TakenBytes /\ BaseBytes' = BaseBytes
  <2>1. TakenBytes' = TakenBytes
    BY <1>3, <1>4, <1>6 DEF TakenBytes
  <2>2. QED
    BY <1>2, <2>1 DEF BaseBytes
<1>8. QuietInv'
  BY <1>2 DEF TimeInv, QuietInv
<1>9. ClockInv'
  <2>1. ASSUME NEW i \in 1 .. Len(reads')
        PROVE  reads'[i] <= now
    <3>1. i \in 1 .. Len(reads) \/ i \in Len(reads) + 1 .. Len(reads) + k
      BY <1>3, <1>4
    <3>2. QED
      BY <1>3, <1>4, <3>1 DEF TimeInv, ClockInv
  <2>2. ASSUME NEW i \in 1 .. Len(w'.segments)
        PROVE  w'.segments[i].time <= now
    <3>1. /\ w.segments \in Segments /\ Len(w.segments) \in Nat
          /\ \A j \in 1 .. Len(w.segments) : w.segments[j].time <= now
      BY Times DEF TimeInv, ClockInv, Segments
    <3>2. CASE ~ OpensSegment(w, now)
      BY <1>5, <3>1, <3>2
    <3>3. CASE OpensSegment(w, now)
      <4>1. w'.segments = Append(w.segments, [offset |-> Len(w.buffer), time |-> now])
        BY <1>5, <3>3
      <4>2. /\ Len(w'.segments) = Len(w.segments) + 1
            /\ \A j \in 1 .. Len(w.segments) : w'.segments[j] = w.segments[j]
            /\ w'.segments[Len(w.segments) + 1].time = now
        BY <3>1, <4>1 DEF Segments
      <4>3. i \in 1 .. Len(w.segments) \/ i = Len(w.segments) + 1
        BY <3>1, <4>2
      <4>4. CASE i \in 1 .. Len(w.segments)
        <5>1. w'.segments[i] = w.segments[i]
          BY <4>2, <4>4
        <5>2. QED
          BY <3>1, <4>4, <5>1
      <4>5. CASE i = Len(w.segments) + 1
        <5>1. w'.segments[i].time = now
          BY <4>2, <4>5
        <5>2. QED
          BY <1>3, <5>1
      <4>6. QED
        BY <4>3, <4>4, <4>5
    <3>4. QED
      BY <3>2, <3>3
  <2>3. QED
    BY <1>2, <2>1, <2>2 DEF TimeInv, ClockInv
<1>10. EndCoversOutput'
  BY <1>2 DEF FinalInv, EndCoversOutput
<1>11. Dated(reads', w'.segments, Len(w'.buffer), TakenBytes')
  <2>1. Dated(reads, w.segments, Len(w.buffer), TakenBytes)
    BY DEF TimeInv, DatesInv
  <2>2. \A i \in 1 .. Len(w.segments) : w.segments[i].time <= now
    BY DEF TimeInv, ClockInv
  <2>3. w.segments \in Segments /\ TakenBytes \in Nat
    BY Times, Bases
  <2>4. /\ \A i \in 1 .. TakenBytes + Len(w.buffer) : reads'[i] = reads[i]
        /\ \A i \in TakenBytes + Len(w.buffer) + 1 .. TakenBytes + Len(w.buffer) + k :
             reads'[i] = now
    BY <1>4, Bases
  <2>5. w'.segments =
          IF w.segments = <<>> \/ now - w.segments[Len(w.segments)].time >= MergeWindow
            THEN Append(w.segments, [offset |-> Len(w.buffer), time |-> now])
            ELSE w.segments
    BY <1>5 DEF OpensSegment
  <2>6. Dated(reads', w'.segments, Len(w.buffer) + k, TakenBytes)
    BY <1>3, <2>1, <2>2, <2>3, <2>4, <2>5, WriteDates
  <2>7. QED
    BY <1>6, <1>7, <2>6
<1>12. ASSUME pc = "deliver"
       PROVE  Dated(reads', batch.segments, Len(batch.data), BaseBytes)
  <2>1. Dated(reads, batch.segments, Len(batch.data), BaseBytes)
    BY <1>12 DEF TimeInv, DatesInv
  <2>2. BaseBytes \in Nat /\ BaseBytes + Len(batch.data) <= Len(reads)
    <3>1. /\ TakenBytes \in Nat /\ TakenBytes + Len(w.buffer) = Len(reads)
          /\ BaseBytes \in Nat /\ BaseBytes + Len(batch.data) = TakenBytes
      BY <1>12, Bases
    <3>2. QED
      BY <1>3, <3>1
  <2>3. \A i \in 1 .. BaseBytes + Len(batch.data) : reads'[i] = reads[i]
    BY <1>3, <1>4, <2>2, Lengths
  <2>4. QED
    BY <2>1, <2>2, <2>3, DatedLater, Lengths
<1>13. SegmentFidelity'
  <2>1. Len(outTimes) = Len(out) /\ Len(out) <= Len(reads) /\ Len(out) \in Nat
    BY Lengths DEF TimeInv, DatesInv, SegmentFidelity, DataInv, OutputExact
  <2>2. \A i \in 1 .. Len(outTimes) : reads'[i] = reads[i]
    BY <1>3, <1>4, <2>1
  <2>3. QED
    BY <1>2, <2>1, <2>2 DEF TimeInv, DatesInv, SegmentFidelity
<1>14. QED
  BY <1>2, <1>7, <1>8, <1>9, <1>10, <1>11, <1>12, <1>13 DEF TimeInv, DatesInv

\* A report is stamped by the clock, and comes before the end time is taken.
LEMMA ReportKeepsTimes ==
  ASSUME TypeOK, DataInv, FinalInv, TimeInv, ReaderReport
  PROVE  TimeInv'
<1>1. /\ UNCHANGED <<now, reads, eof, pc, active, batch, prev, idx, endTime,
                     out, outTimes, told, hbMark>>
      /\ reports' = Append(reports, [at |-> Len(reads), time |-> now])
      /\ ~eof
  BY DEF ReaderReport, loop, seen
<1>2. w'.buffer = w.buffer /\ w'.segments = w.segments
  BY DEF ReaderReport, AddStatus, TypeOK, Writers
<1>3. UNCHANGED <<TakenBytes, BaseBytes>>
  BY <1>1, <1>2 DEF TakenBytes, BaseBytes
<1>4. ClockInv'
  <2>1. ASSUME NEW r \in 1 .. Len(reports')
        PROVE  reports'[r].time <= now
    <3>1. reports \in Seq([at : Nat, time : Nat]) /\ Len(reports) \in Nat /\ now \in Nat
      BY DEF TypeOK
    <3>2. r \in 1 .. Len(reports) \/ r = Len(reports) + 1
      BY <1>1, <3>1
    <3>3. r = Len(reports) + 1 => reports'[r].time = now
      BY <1>1, <3>1
    <3>4. r \in 1 .. Len(reports) => reports'[r] = reports[r]
      BY <1>1, <3>1
    <3>5. QED
      BY <3>1, <3>2, <3>3, <3>4 DEF TimeInv, ClockInv
  <2>2. QED
    BY <1>1, <1>2, <2>1 DEF TimeInv, ClockInv
<1>5. QuietInv' /\ EndCoversOutput' /\ SegmentFidelity'
  BY <1>1 DEF TimeInv, QuietInv, FinalInv, EndCoversOutput, DatesInv, SegmentFidelity
<1>6. DatesInv'
  BY <1>1, <1>2, <1>3, <1>5 DEF TimeInv, DatesInv
<1>7. QED
  BY <1>4, <1>5, <1>6 DEF TimeInv

\* The clock moves on.
LEMMA ClockKeepsTimes ==
  ASSUME TypeOK, TimeInv, ClockTick
  PROVE  TimeInv'
<1>1. /\ UNCHANGED <<reads, reports, w, pc, active, batch, prev, idx, endTime,
                     out, outTimes, told, hbMark>>
      /\ now' = now + 1
  BY DEF ClockTick, loop, seen
<1>2. ClockInv'
  BY <1>1, Times DEF TimeInv, ClockInv
<1>3. QuietInv' /\ EndCoversOutput' /\ SegmentFidelity'
  BY <1>1 DEF TimeInv, QuietInv, EndCoversOutput, DatesInv, SegmentFidelity
<1>4. DatesInv'
  BY <1>1, <1>3 DEF TimeInv, DatesInv, TakenBytes, BaseBytes
<1>5. QED
  BY <1>2, <1>3, <1>4 DEF TimeInv

\* The end time is read from the clock after everything was read.
LEMMA DoneKeepsTimes ==
  ASSUME TypeOK, TimeInv, SelectDone
  PROVE  TimeInv'
<1>1. /\ UNCHANGED <<now, reads, reports, w, active, batch, prev, idx,
                     out, outTimes, told, hbMark>>
      /\ pc = "select" /\ pc' = "drain" /\ endTime' = now
  BY DEF SelectDone, world, seen
<1>2. ClockInv' /\ EndCoversOutput'
  BY <1>1 DEF TimeInv, ClockInv, EndCoversOutput
<1>3. QuietInv'
  BY <1>1 DEF TimeInv, QuietInv
<1>4. DatesInv'
  BY <1>1 DEF TimeInv, DatesInv, SegmentFidelity, TakenBytes, BaseBytes
<1>5. QED
  BY <1>2, <1>3, <1>4 DEF TimeInv

\* flushBatch hands the segments over with their bytes.
LEMMA DrainKeepsTimes ==
  ASSUME TypeOK, DataInv, TimeInv, Drain
  PROVE  TimeInv'
<1>1. /\ UNCHANGED <<now, reads, reports, active, prev, idx, endTime,
                     out, outTimes, told, hbMark>>
      /\ w' = Drained(w) /\ pc = "drain"
  BY DEF Drain, world, seen
<1>2. pc' # "heartbeat" /\ pc' # "stopped"
  BY DEF Drain, AfterBatch
<1>3. QuietInv'
  BY <1>1, <1>2 DEF TimeInv, QuietInv
<1>4. Dated(reads, w.segments, Len(w.buffer), TakenBytes)
  BY DEF TimeInv, DatesInv
<1>5. w.buffer \in Seq(Nat) /\ w.segments \in Segments
  BY DEF TypeOK, Writers
<1>6. w.buffer = <<>> => w.segments = <<>>
  <2>1. SUFFICES ASSUME w.buffer = <<>>, w.segments # <<>>
                 PROVE  FALSE
    OBVIOUS
  <2>2. 1 \in 1 .. Len(w.segments) /\ Len(w.buffer) = 0
    BY <1>5, <2>1 DEF Segments
  <2>3. w.segments[1].offset < 0 /\ w.segments[1].offset \in Nat
    BY <1>4, <1>5, <2>2, SegmentFields DEF Dated
  <2>4. QED
    BY <2>3
<1>7. w'.buffer = <<>> /\ w'.segments = <<>>
  BY <1>1, <1>6 DEF Drained
<1>8. ClockInv'
  BY <1>1, <1>7 DEF TimeInv, ClockInv
<1>9. EndCoversOutput' /\ SegmentFidelity'
  BY <1>1 DEF TimeInv, EndCoversOutput, DatesInv, SegmentFidelity
<1>10. Dated(reads', w'.segments, Len(w'.buffer), TakenBytes')
  BY <1>7 DEF Dated, Ascending
<1>11. ASSUME pc' = "deliver"
       PROVE  /\ Dated(reads', batch'.segments, Len(batch'.data), BaseBytes')
              /\ prev' = 0
  <2>1. batch' = Batch(w)
    BY <1>11 DEF Drain, AfterBatch
  <2>2. batch'.data = w.buffer /\ batch'.segments = w.segments
    BY <1>6, <2>1 DEF Batch
  <2>3. BaseBytes' = TakenBytes
    <3>1. Len(w'.buffer) = 0 /\ Len(w.buffer) \in Nat /\ Len(reads) \in Nat
      BY <1>7, Lengths
    <3>2. QED
      BY <1>1, <2>2, <3>1 DEF BaseBytes, TakenBytes
  <2>4. prev = 0
    BY <1>1 DEF DataInv, BatchInv
  <2>5. QED
    BY <1>1, <1>4, <2>2, <2>3, <2>4
<1>12. QED
  BY <1>1, <1>3, <1>8, <1>9, <1>10, <1>11 DEF TimeInv, DatesInv

\* The segments of an event give each of its bytes the time of its segment in
\* the batch, whether they are the batch's own or sliced at its reports.
LEMMA PieceDates ==
  ASSUME TypeOK, DataInv, TimeInv, pc = "deliver",
         NEW to \in 0 .. Len(batch.data), to > prev
  PROVE  LET n == to - prev
             t == TimesOf(PieceSegments(prev, to), n)
         IN  /\ t \in Seq(Nat) /\ Len(t) = n
             /\ \A p \in 1 .. n : InWindow(t[p], reads[BaseBytes + prev + p])
<1> DEFINE n == to - prev
           segs == batch.segments
           piece == PieceSegments(prev, to)
           t == TimesOf(piece, n)
<1>1. /\ prev \in Nat /\ Len(batch.data) \in Nat /\ n \in Nat
      /\ BaseBytes \in Nat
  BY Lengths, Bases
<1>2. Dated(reads, segs, Len(batch.data), BaseBytes)
  BY DEF TimeInv, DatesInv
<1>3. segs \in Segments
  BY Times
<1>4. 1 \in 1 .. Len(segs) /\ segs[1].offset = 0 /\ Ascending(segs)
  <2>1. segs # <<>> /\ segs[1].offset = 0 /\ Ascending(segs)
    BY <1>1, <1>2 DEF Dated
  <2>2. Len(segs) \in Nat \ {0}
    BY <1>3, <2>1 DEF Segments
  <2>3. QED
    BY <2>1, <2>2
<1>5. ASSUME NEW p \in 0 .. n - 1
      PROVE  piece[InEffect(piece, p)].time = segs[InEffect(segs, prev + p)].time
  <2>1. CASE batch.statuses = <<>>
    <3>1. prev = 0
      BY <2>1, <1>1 DEF TimeInv, DatesInv
    <3>2. QED
      BY <2>1, <3>1 DEF PieceSegments
  <2>2. CASE batch.statuses # <<>>
    <3>1. piece = SliceSegments(segs, prev, to)
      BY <2>2 DEF PieceSegments
    <3>2. p \in 0 .. to - prev - 1 /\ to \in Nat
      OBVIOUS
    <3> HIDE DEF n, segs, piece
    <3>3. QED
      BY <1>1, <1>3, <1>4, <3>1, <3>2, SliceDates
  <2>3. QED
    BY <2>1, <2>2
<1>6. ASSUME NEW p \in 0 .. n - 1
      PROVE  /\ segs[InEffect(segs, prev + p)].time \in Nat
             /\ InWindow(segs[InEffect(segs, prev + p)].time,
                         reads[BaseBytes + prev + p + 1])
  <2>1. prev + p \in 0 .. Len(batch.data) - 1 /\ prev + p \in Nat
    BY <1>1
  <2>2. /\ InEffect(segs, prev + p) \in 1 .. Len(segs)
        /\ Holds(segs, InEffect(segs, prev + p), prev + p)
    BY <1>3, <1>4, <2>1, InEffectHolds
  <2>3. InWindow(segs[InEffect(segs, prev + p)].time,
                 reads[BaseBytes + (prev + p) + 1])
    BY <1>2, <2>1, <2>2 DEF Dated
  <2>4. BaseBytes + (prev + p) + 1 = BaseBytes + prev + p + 1
    BY <1>1
  <2>5. QED
    BY <1>3, <2>2, <2>3, <2>4, SegmentFields
<1>7. \A p \in 1 .. n : t[p] = segs[InEffect(segs, prev + (p - 1))].time
  <2>1. ASSUME NEW p \in 1 .. n
        PROVE  t[p] = segs[InEffect(segs, prev + (p - 1))].time
    <3>1. t[p] = piece[InEffect(piece, p - 1)].time
      BY DEF TimesOf
    <3>2. p - 1 \in 0 .. n - 1
      BY <1>1
    <3>3. QED
      BY <1>5, <3>1, <3>2
  <2>2. QED
    BY <2>1
<1>8. ASSUME NEW p \in 1 .. n
      PROVE  t[p] \in Nat /\ InWindow(t[p], reads[BaseBytes + prev + p])
  <2>1. p - 1 \in 0 .. n - 1 /\ BaseBytes + prev + (p - 1) + 1 = BaseBytes + prev + p
    BY <1>1
  <2>2. QED
    BY <1>6, <1>7, <2>1
<1>9. t \in Seq(Nat) /\ Len(t) = n
  <2>1. t = [p \in 1 .. n |-> t[p]]
    BY DEF TimesOf
  <2> HIDE DEF n, t
  <2>2. \A p \in 1 .. n : t[p] \in Nat
    BY <1>8
  <2>3. QED
    BY <1>1, <2>1, <2>2
<1>10. QED
  BY <1>8, <1>9

\* yield(OutputData): the event dates its bytes, and what goes on is active.
LEMMA OutputKeepsTimes ==
  ASSUME TypeOK, DataInv, TimeInv, pc = "deliver",
         NEW to \in 0 .. Len(batch.data), to > prev, YieldOutput(to),
         batch.statuses = <<>> => to = Len(batch.data)
  PROVE  TimeInv'
<1> DEFINE n == to - prev
           piece == SubSeq(batch.data, prev + 1, to)
           t == TimesOf(PieceSegments(prev, to), n)
<1>1. /\ UNCHANGED <<now, reads, reports, w, batch, endTime, told, hbMark>>
      /\ out' = out \o piece
      /\ outTimes' = outTimes \o t
  BY DEF YieldOutput, world
<1>2. /\ n \in Nat /\ prev \in Nat /\ out \in Seq(Nat) /\ Len(out) \in Nat
      /\ outTimes \in Seq(Nat) /\ Len(outTimes) = Len(out)
      /\ BaseBytes \in Nat /\ Len(out) = BaseBytes + prev
  BY Lengths, Bases
     DEF TypeOK, TimeInv, DatesInv, SegmentFidelity, DataInv, PositionInv
<1>3. piece \in Seq(Nat) /\ Len(piece) = n
  BY PieceFacts
<1>4. /\ t \in Seq(Nat) /\ Len(t) = n
      /\ \A p \in 1 .. n : InWindow(t[p], reads[BaseBytes + prev + p])
  BY PieceDates
<1> HIDE DEF n, piece, t
<1>5. Len(out') = Len(out) + n
  BY <1>1, <1>2, <1>3, ConcatFacts
<1>6. /\ outTimes' \in Seq(Nat) /\ Len(outTimes') = Len(out) + n
      /\ \A i \in 1 .. Len(out) + n :
           outTimes'[i] = IF i <= Len(out) THEN outTimes[i] ELSE t[i - Len(out)]
  <2>1. outTimes \in Seq(Nat) /\ t \in Seq(Nat)
    BY <1>2, <1>4
  <2>2. /\ outTimes \o t \in Seq(Nat)
        /\ Len(outTimes \o t) = Len(outTimes) + Len(t)
        /\ \A i \in 1 .. Len(outTimes) + Len(t) :
             (outTimes \o t)[i] =
               IF i <= Len(outTimes) THEN outTimes[i] ELSE t[i - Len(outTimes)]
    BY <2>1, ConcatProperties
  <2>3. QED
    BY <1>1, <1>2, <1>4, <2>2
<1>7. SegmentFidelity'
  <2>1. ASSUME NEW i \in 1 .. Len(out) + n
        PROVE  InWindow(outTimes'[i], reads[i])
    <3>1. CASE i <= Len(out)
      BY <1>2, <1>6, <3>1
         DEF TimeInv, DatesInv, SegmentFidelity, InWindow
    <3>2. CASE i > Len(out)
      <4>1. i - Len(out) \in 1 .. n /\ BaseBytes + prev + (i - Len(out)) = i
        BY <1>2, <3>2
      <4>2. outTimes'[i] = t[i - Len(out)]
        BY <1>2, <1>6, <3>2
      <4>3. QED
        BY <1>4, <4>1, <4>2
    <3>3. QED
      BY <1>2, <3>1, <3>2
  <2>2. QED
    BY <1>1, <1>5, <1>6, <2>1 DEF SegmentFidelity, InWindow
<1>8. QuietInv'
  <2>1. pc' = "stopped" \/ (active' = TRUE /\ pc' = pc)
    BY DEF YieldOutput
  <2>2. QED
    BY <2>1 DEF QuietInv
<1>9. ClockInv' /\ EndCoversOutput'
  BY <1>1 DEF TimeInv, ClockInv, EndCoversOutput
<1>10. UNCHANGED <<TakenBytes, BaseBytes>>
  BY <1>1 DEF TakenBytes, BaseBytes
<1>11. pc' = "deliver" => prev' = to
  BY DEF YieldOutput
<1>12. DatesInv'
  BY <1>1, <1>6, <1>7, <1>10, <1>11 DEF TimeInv, DatesInv
<1>13. QED
  BY <1>8, <1>9, <1>12 DEF TimeInv

\* DeliverBefore and DeliverRest.
LEMMA PiecesKeepTimes ==
  ASSUME TypeOK, DataInv, TimeInv, DeliverBefore \/ DeliverRest
  PROVE  TimeInv'
<1>1. Len(batch.data) \in Nat /\ Len(batch.statuses) \in Nat /\ idx \in Nat \ {0}
  BY Lengths
<1>2. CASE DeliverBefore
  <2>1. pc = "deliver" /\ idx <= Len(batch.statuses) /\ Cut > prev /\ YieldOutput(Cut)
    BY <1>2 DEF DeliverBefore
  <2>2. Cut \in 0 .. Len(batch.data)
    BY <2>1, CutFacts
  <2>3. batch.statuses # <<>>
    BY <1>1, <2>1
  <2>4. QED
    BY <2>1, <2>2, <2>3, OutputKeepsTimes
<1>3. CASE DeliverRest
  <2>1. pc = "deliver" /\ Len(batch.data) > prev /\ YieldOutput(Len(batch.data))
    BY <1>1, <1>3, Lengths DEF DeliverRest
  <2>2. Len(batch.data) \in 0 .. Len(batch.data)
    BY <1>1
  <2>3. QED
    BY <2>1, <2>2, OutputKeepsTimes
<1>4. QED
  BY <1>2, <1>3

\* A step that reads, delivers and flushes nothing.
LEMMA QuietKeepsTimes ==
  ASSUME TimeInv,
         UNCHANGED <<now, reads, reports, w, batch, prev, endTime, out, outTimes>>,
         QuietInv',
         pc' = "deliver" => pc = "deliver"
  PROVE  TimeInv'
<1>1. ClockInv' /\ EndCoversOutput'
  BY DEF TimeInv, ClockInv, EndCoversOutput
<1>2. DatesInv'
  BY DEF TimeInv, DatesInv, SegmentFidelity, TakenBytes, BaseBytes
<1>3. QED
  BY <1>1, <1>2 DEF TimeInv

\* Each step of the reader, the environment and the loop keeps the times.
LEMMA TimesKept ==
  ASSUME TypeOK, DataInv, FinalInv, TimeInv, [Next]_vars
  PROVE  TimeInv'
<1>1. CASE ReaderWrite
  BY <1>1, WriteKeepsTimes
<1>2. CASE ReaderReport
  BY <1>2, ReportKeepsTimes
<1>3. CASE ClockTick
  BY <1>3, ClockKeepsTimes
<1>4. CASE SelectDone
  BY <1>4, DoneKeepsTimes
<1>5. CASE Drain
  BY <1>5, DrainKeepsTimes
<1>6. CASE DeliverBefore \/ DeliverRest
  BY <1>6, PiecesKeepTimes
<1>7. CASE DeliverEnd
  <2>1. /\ UNCHANGED <<now, reads, reports, w, active, endTime, out, outTimes,
                       told, hbMark>>
        /\ pc = "deliver" /\ pc' \notin {"deliver", "heartbeat", "stopped"}
    BY <1>7 DEF DeliverEnd, AfterBatch, world, seen
  <2>2. QuietInv' /\ ClockInv' /\ EndCoversOutput'
    BY <2>1 DEF TimeInv, QuietInv, ClockInv, EndCoversOutput
  <2>3. DatesInv'
    BY <2>1 DEF TimeInv, DatesInv, SegmentFidelity, TakenBytes
  <2>4. QED
    BY <2>2, <2>3 DEF TimeInv
<1>8. CASE DeliverStatus
  <2>1. /\ UNCHANGED <<now, reads, reports, w, batch, prev, endTime, out, outTimes>>
        /\ pc = "deliver"
        /\ pc' = "stopped" \/ (pc' = pc /\ active' = TRUE)
    BY <1>8 DEF DeliverStatus, world
  <2>2. QuietInv'
    BY <2>1 DEF QuietInv
  <2>3. QED
    BY <2>1, <2>2, QuietKeepsTimes
<1>9. CASE ReaderEOF \/ SendDone \/ TickerFire \/ HbTickerFire \/ CtxCancel
           \/ Terminated \/ UNCHANGED vars
  <2>1. UNCHANGED <<now, reads, reports, w, batch, prev, endTime, out, outTimes,
                    pc, active, told, hbMark>>
    BY <1>9 DEF ReaderEOF, SendDone, TickerFire, HbTickerFire, CtxCancel,
                Terminated, vars, world, loop, seen
  <2>2. QuietInv'
    BY <2>1 DEF TimeInv, QuietInv
  <2>3. QED
    BY <2>1, <2>2, QuietKeepsTimes
<1>10. CASE SelectCtx \/ SelectTick \/ SelectFlush \/ CheckLen \/ CheckStatus
  <2>1. /\ UNCHANGED <<now, reads, reports, w, batch, prev, endTime, out, outTimes,
                       active, told, hbMark>>
        /\ pc # "stopped" /\ pc' \notin {"deliver", "heartbeat"}
    BY <1>10 DEF SelectCtx, SelectTick, SelectFlush, CheckLen, CheckStatus,
                 world, seen
  <2>2. QuietInv'
    BY <2>1 DEF TimeInv, QuietInv
  <2>3. QED
    BY <2>1, <2>2, QuietKeepsTimes
<1>11. CASE SelectHeartbeat \/ YieldHeartbeat
  <2>1. /\ UNCHANGED <<now, reads, reports, w, batch, prev, endTime, out, outTimes,
                       told>>
        /\ pc' # "deliver"
    BY <1>11 DEF SelectHeartbeat, YieldHeartbeat, world
  <2>2. QuietInv'
    BY <1>11, <2>1 DEF SelectHeartbeat, YieldHeartbeat, TimeInv, QuietInv
  <2>3. QED
    BY <2>1, <2>2, QuietKeepsTimes
<1>12. QED
  BY <1>1, <1>2, <1>3, <1>4, <1>5, <1>6, <1>7, <1>8, <1>9, <1>10, <1>11
     DEF Next, Reader, Environment, Select, Body

\* The bytes of a run are dated, nothing is ahead of the clock, and the loop
\* knows whether it delivered something, at every step of streamOutput.
THEOREM TimesHold == Spec => []TimeInv
<1>1. Init => TimeInv
  <2>1. SUFFICES ASSUME Init
                 PROVE  TimeInv
    OBVIOUS
  <2>2. /\ Len(reads) = 0 /\ Len(reports) = 0 /\ Len(out) = 0 /\ Len(outTimes) = 0
        /\ Len(w.segments) = 0 /\ Len(w.buffer) = 0
        /\ outTimes \in Seq(Nat) /\ pc = "select" /\ endTime = 0
        /\ told = 0 /\ hbMark = 0
    BY <2>1 DEF Init, NewBufferWriter
  <2>3. QuietInv /\ ClockInv /\ EndCoversOutput /\ SegmentFidelity
    BY <2>2 DEF QuietInv, ClockInv, EndCoversOutput, SegmentFidelity
  <2>4. Dated(reads, w.segments, Len(w.buffer), TakenBytes)
    BY <2>2 DEF Dated, Ascending
  <2>5. QED
    BY <2>2, <2>3, <2>4 DEF TimeInv, DatesInv
<1>2. TypeOK /\ IInv /\ TimeInv /\ [Next]_vars => TimeInv'
  BY TimesKept DEF IInv
<1>3. QED
  BY <1>1, <1>2, TypeCorrect, InvariantHolds, PTL DEF Spec

\* A heartbeat is yielded only if nothing was delivered since the previous
\* heartbeat tick (the `active' flag of streamOutput).
THEOREM HeartbeatMeansQuiet == Spec => []HeartbeatQuiet
<1>1. TimeInv => HeartbeatQuiet
  BY DEF TimeInv, QuietInv, HeartbeatQuiet
<1>2. QED
  BY <1>1, TimesHold, PTL

\* The end time is not before anything the child wrote or reported was read
\* (the ts that streamOutput takes when done fires).
THEOREM EndIsLast == Spec => []EndCoversOutput
<1>1. TimeInv => EndCoversOutput
  BY DEF TimeInv
<1>2. QED
  BY <1>1, TimesHold, PTL

\* The Segments of an event date each of its bytes to within the merge window,
\* wherever its batch was cut (BufferWriter.Write, sliceSegments).
THEOREM SegmentsDateBytes == Spec => []SegmentFidelity
<1>1. TimeInv => SegmentFidelity
  BY DEF TimeInv, DatesInv
<1>2. QED
  BY <1>1, TimesHold, PTL

=============================================================================
