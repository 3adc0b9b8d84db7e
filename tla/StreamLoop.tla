------------------------------ MODULE StreamLoop ------------------------------
(***************************************************************************)
(* streamOutput (stream_loop.go): the loop that turns what a reader puts   *)
(* in the shared BufferWriter into the events of a run, together with the  *)
(* reader, the two tickers, the context and the goroutine that sends done. *)
(*                                                                         *)
(* The reader and the loop are concurrent.  They meet in the writer `w',   *)
(* whose methods are atomic (its mutex), and in the channel `flush', which *)
(* holds one token and drops the rest.  The loop takes a step for each     *)
(* critical section and each call of yield, so everything the reader can   *)
(* do between two of them is explored.                                     *)
(*                                                                         *)
(* Bytes are the numbers 1, 2, 3, ... in the order they were read, so what *)
(* the consumer received can be compared with what the child wrote.        *)
(***************************************************************************)
EXTENDS BufferWriter

CONSTANTS
  MaxBytes,     \* bound: bytes the child writes
  MaxReports,   \* bound: program status reports the child makes
  MaxTime       \* bound: the last instant of the clock

ASSUME BoundsAssumption == MaxBytes \in Nat /\ MaxReports \in Nat /\ MaxTime \in Nat \ {0}

VARIABLES
  \* the world outside the loop
  now,        \* time.Now(); the zero Time is 0 and no clock reads it
  reads,      \* history: when each byte was read
  reports,    \* history: for each report, the bytes before it and when
  eof,        \* the reader has finished (readerDone is closed)
  \* what the goroutines share
  w,          \* the BufferWriter
  flush,      \* flush channel: holds a token
  tick,       \* ticker.C holds a tick
  hbTick,     \* hbTicker.C holds a tick
  cancelled,  \* ctx is done
  done,       \* done channel: "pending", "sent" or "received"
  \* the loop
  pc,         \* where the loop is
  active,     \* output was delivered since the previous heartbeat tick
  batch,      \* the batch being delivered
  prev,       \* bytes of the batch delivered
  idx,        \* the next report of the batch
  endTime,    \* ts of the final batch and of the return; 0 until done
  \* the consumer
  out,        \* history: the bytes it received, in order
  outTimes,   \* history: when each was read, as its event's Segments say
  told,       \* history: number of ProgramStatus events it received
  hbMark      \* history: deliveries at the previous heartbeat tick

world == <<now, reads, reports, eof>>
chans == <<flush, tick, hbTick, cancelled, done>>
loop  == <<pc, active, batch, prev, idx, endTime>>
seen  == <<out, outTimes, told, hbMark>>
vars  == <<now, reads, reports, eof, w, flush, tick, hbTick, cancelled, done,
           pc, active, batch, prev, idx, endTime, out, outTimes, told, hbMark>>

NoBatch == [data |-> <<>>, segments |-> <<>>, statuses |-> <<>>]

Returned == pc \in {"ok", "stopped"}

\* Consecutive bytes that follow the first `base' ones.
Run(base, n) == [i \in 1 .. n |-> base + i]

Init ==
  /\ now = 1 /\ reads = <<>> /\ reports = <<>> /\ eof = FALSE
  /\ w = NewBufferWriter
  /\ flush = FALSE /\ tick = FALSE /\ hbTick = FALSE
  /\ cancelled = FALSE /\ done = "pending"
  /\ pc = "select" /\ active = FALSE
  /\ batch = NoBatch /\ prev = 0 /\ idx = 1 /\ endTime = 0
  /\ out = <<>> /\ outTimes = <<>> /\ told = 0 /\ hbMark = 0

-----------------------------------------------------------------------------
(* The reader, the tickers, the context and the sender of done.            *)

\* The clock moves on between any two steps of the goroutines.
ClockTick ==
  /\ now < MaxTime
  /\ now' = now + 1
  /\ UNCHANGED <<reads, reports, eof, w, chans, loop, seen>>

\* One Write of io.Copy, or of the scanner it copies to.
ReaderWrite ==
  /\ ~eof
  /\ \E n \in 1 .. MaxBytes - Len(reads) :
       LET data == Run(Len(reads), n)
       IN  /\ w' = Write(w, data, now)
           /\ flush' = (flush \/ WriteSignals(w, data))
           /\ reads' = reads \o [i \in 1 .. n |-> now]
  /\ UNCHANGED <<now, reports, eof, tick, hbTick, cancelled, done, loop, seen>>

\* Mutant: addStatus does not signal the loop.
ReaderReportSilent ==
  /\ ~eof
  /\ Len(reports) < MaxReports
  /\ Len(reads) > 0
  /\ reports # <<>> => reports[Len(reports)].at < Len(reads)
  /\ w' = AddStatus(w, Len(reports) + 1, now)
  /\ reports' = Append(reports, [at |-> Len(reads), time |-> now])
  /\ UNCHANGED <<now, reads, eof, chans, loop, seen>>

\* The scanner passes the bytes of a report through, then calls addStatus:
\* at least one byte comes before a report and after the one before it.
ReaderReport ==
  /\ ~eof
  /\ Len(reports) < MaxReports
  /\ Len(reads) > 0
  /\ reports # <<>> => reports[Len(reports)].at < Len(reads)
  /\ w' = AddStatus(w, Len(reports) + 1, now)
  /\ flush' = TRUE
  /\ reports' = Append(reports, [at |-> Len(reads), time |-> now])
  /\ UNCHANGED <<now, reads, eof, tick, hbTick, cancelled, done, loop, seen>>

ReaderEOF ==
  /\ ~eof
  /\ eof' = TRUE
  /\ UNCHANGED <<now, reads, reports, w, chans, loop, seen>>

\* Mutant: done is sent when the child is reaped, without waiting for the reader.
SendDoneEarly ==
  /\ done = "pending"
  /\ done' = "sent"
  /\ UNCHANGED <<world, w, flush, tick, hbTick, cancelled, loop, seen>>

\* done fires only after all writers to w have finished.
SendDone ==
  /\ eof
  /\ done = "pending"
  /\ done' = "sent"
  /\ UNCHANGED <<world, w, flush, tick, hbTick, cancelled, loop, seen>>

\* A ticker drops the ticks its channel has no room for.
TickerFire ==
  /\ ~Returned
  /\ tick' = TRUE
  /\ UNCHANGED <<world, w, flush, hbTick, cancelled, done, loop, seen>>

HbTickerFire ==
  /\ ~Returned
  /\ hbTick' = TRUE
  /\ UNCHANGED <<world, w, flush, tick, cancelled, done, loop, seen>>

CtxCancel ==
  /\ ~cancelled
  /\ cancelled' = TRUE
  /\ UNCHANGED <<world, w, flush, tick, hbTick, done, loop, seen>>

-----------------------------------------------------------------------------
(* The cases of the select.                                                *)

\* Mutant: the context is looked at only when no other case is ready.
SelectCtxLast ==
  /\ pc = "select"
  /\ cancelled /\ ~tick /\ ~hbTick /\ ~flush /\ done # "sent"
  /\ pc' = "stopped"
  /\ UNCHANGED <<world, w, chans, active, batch, prev, idx, endTime, seen>>

SelectCtx ==
  /\ pc = "select"
  /\ cancelled
  /\ pc' = "stopped"
  /\ UNCHANGED <<world, w, chans, active, batch, prev, idx, endTime, seen>>

\* Mutant: the ticker flushes only a full buffer.
SelectTickWhenFull ==
  /\ pc = "select"
  /\ tick
  /\ tick' = FALSE
  /\ pc' = "checkLen"
  /\ UNCHANGED <<world, w, flush, hbTick, cancelled, done, active, batch, prev,
                 idx, endTime, seen>>

SelectTick ==
  /\ pc = "select"
  /\ tick
  /\ tick' = FALSE
  /\ pc' = "drain"
  /\ UNCHANGED <<world, w, flush, hbTick, cancelled, done, active, batch, prev,
                 idx, endTime, seen>>

SelectHeartbeat ==
  /\ pc = "select"
  /\ hbTick
  /\ hbTick' = FALSE
  /\ IF ~active /\ Length(w) = 0
       THEN /\ pc' = "heartbeat"
            /\ UNCHANGED <<active, hbMark>>
       ELSE /\ active' = FALSE
            /\ hbMark' = Len(out) + told
            /\ UNCHANGED pc
  /\ UNCHANGED <<world, w, flush, tick, cancelled, done, batch, prev, idx,
                 endTime, out, outTimes, told>>

\* The consumer decides, in every yield, whether to go on.
YieldHeartbeat ==
  /\ pc = "heartbeat"
  /\ \/ /\ pc' = "select"
        /\ active' = FALSE
        /\ hbMark' = Len(out) + told
     \/ /\ pc' = "stopped"
        /\ UNCHANGED <<active, hbMark>>
  /\ UNCHANGED <<world, w, chans, batch, prev, idx, endTime, out, outTimes, told>>

SelectFlush ==
  /\ pc = "select"
  /\ flush
  /\ flush' = FALSE
  /\ pc' = "checkLen"
  /\ UNCHANGED <<world, w, tick, hbTick, cancelled, done, active, batch, prev,
                 idx, endTime, seen>>

\* w.Len() >= maxBuf || w.hasStatus(): two critical sections.
CheckLen ==
  /\ pc = "checkLen"
  /\ pc' = IF Length(w) >= MaxBufferSize THEN "drain" ELSE "checkStatus"
  /\ UNCHANGED <<world, w, chans, active, batch, prev, idx, endTime, seen>>

\* Mutant: the flush case looks at the length only.
CheckStatusSkipped ==
  /\ pc = "checkStatus"
  /\ pc' = "select"
  /\ UNCHANGED <<world, w, chans, active, batch, prev, idx, endTime, seen>>

CheckStatus ==
  /\ pc = "checkStatus"
  /\ pc' = IF HasStatus(w) THEN "drain" ELSE "select"
  /\ UNCHANGED <<world, w, chans, active, batch, prev, idx, endTime, seen>>

\* Mutant: done is taken only when the buffer was already flushed.
SelectDoneWhenEmpty ==
  /\ pc = "select"
  /\ done = "sent" /\ Length(w) = 0
  /\ done' = "received"
  /\ endTime' = now
  /\ pc' = "drain"
  /\ UNCHANGED <<world, w, flush, tick, hbTick, cancelled, active, batch, prev,
                 idx, seen>>

SelectDone ==
  /\ pc = "select"
  /\ done = "sent"
  /\ done' = "received"
  /\ endTime' = now
  /\ pc' = "drain"
  /\ UNCHANGED <<world, w, flush, tick, hbTick, cancelled, active, batch, prev,
                 idx, seen>>

-----------------------------------------------------------------------------
(* flushBatch and deliver.                                                 *)

\* Where the loop goes once a batch is delivered: the final one ends it.
AfterBatch == IF endTime = 0 THEN "select" ELSE "ok"

Drain ==
  /\ pc = "drain"
  /\ w' = Drained(w)
  /\ IF IsEmptyBatch(Batch(w))
       THEN pc' = AfterBatch /\ UNCHANGED batch
       ELSE pc' = "deliver" /\ batch' = Batch(w)
  /\ UNCHANGED <<world, chans, active, prev, idx, endTime, seen>>

\* Mutant: the whole batch goes out before its first report.
CutAtEnd == Len(batch.data)

\* The position in the batch that its next report follows.
Cut == Smaller(Larger(batch.statuses[idx].offset, prev), Len(batch.data))

\* The segments an OutputData event carries for data[from:to].
PieceSegments(from, to) ==
  IF batch.statuses = <<>> THEN batch.segments
  ELSE SliceSegments(batch.segments, from, to)

\* When each of the n bytes of an event was read, as its segments say.
TimesOf(segs, n) == [i \in 1 .. n |-> segs[InEffect(segs, i - 1)].time]

\* yield(OutputData of data[prev:to]): the consumer has it whatever it
\* answers; only a consumer that goes on makes the loop active.
YieldOutput(to) ==
  /\ out' = out \o SubSeq(batch.data, prev + 1, to)
  /\ outTimes' = outTimes \o TimesOf(PieceSegments(prev, to), to - prev)
  /\ \/ prev' = to /\ active' = TRUE /\ UNCHANGED pc
     \/ pc' = "stopped" /\ UNCHANGED <<prev, active>>
  /\ UNCHANGED <<world, w, chans, batch, idx, endTime, told, hbMark>>

\* Output before the next report of the batch.
DeliverBefore ==
  /\ pc = "deliver"
  /\ idx <= Len(batch.statuses)
  /\ Cut > prev
  /\ YieldOutput(Cut)

\* Mutant: a report delivered does not count as activity.
DeliverStatusQuietly ==
  /\ pc = "deliver"
  /\ idx <= Len(batch.statuses)
  /\ Cut <= prev
  /\ told' = told + 1
  /\ \/ idx' = idx + 1 /\ UNCHANGED <<pc, active>>
     \/ pc' = "stopped" /\ UNCHANGED <<idx, active>>
  /\ UNCHANGED <<world, w, chans, batch, prev, endTime, out, outTimes, hbMark>>

\* The report itself.
DeliverStatus ==
  /\ pc = "deliver"
  /\ idx <= Len(batch.statuses)
  /\ Cut <= prev
  /\ told' = told + 1
  /\ \/ idx' = idx + 1 /\ active' = TRUE /\ UNCHANGED pc
     \/ pc' = "stopped" /\ UNCHANGED <<idx, active>>
  /\ UNCHANGED <<world, w, chans, batch, prev, endTime, out, outTimes, hbMark>>

\* Output after the last report.
DeliverRest ==
  /\ pc = "deliver"
  /\ idx > Len(batch.statuses)
  /\ prev < Len(batch.data)
  /\ YieldOutput(Len(batch.data))

DeliverEnd ==
  /\ pc = "deliver"
  /\ idx > Len(batch.statuses)
  /\ prev >= Len(batch.data)
  /\ pc' = AfterBatch
  /\ batch' = NoBatch /\ prev' = 0 /\ idx' = 1
  /\ UNCHANGED <<world, w, chans, active, endTime, seen>>

\* Nothing more can happen once the loop, the reader and done are finished.
Terminated ==
  /\ Returned /\ done # "pending" /\ cancelled /\ now = MaxTime
  /\ UNCHANGED vars

-----------------------------------------------------------------------------
Reader == ReaderWrite \/ ReaderReport \/ ReaderEOF

Environment ==
  ClockTick \/ SendDone \/ TickerFire \/ HbTickerFire \/ CtxCancel

Select == SelectCtx \/ SelectTick \/ SelectHeartbeat \/ SelectFlush \/ SelectDone

Body ==
  \/ YieldHeartbeat \/ CheckLen \/ CheckStatus \/ Drain
  \/ DeliverBefore \/ DeliverStatus \/ DeliverRest \/ DeliverEnd

Next == Reader \/ Environment \/ Select \/ Body \/ Terminated

Spec == Init /\ [][Next]_vars

(***************************************************************************)
(* Fairness.  A goroutine that can run is run, and yield returns: the body *)
(* of the loop is weakly fair.  A select with several ready cases takes    *)
(* one at random, so a case that is ready again and again is taken: each   *)
(* case is strongly fair.  The reaper sends done once the reader ended.    *)
(* A property that relies on the batch ticker says so.                     *)
(***************************************************************************)
LoopFairness ==
  /\ WF_vars(Body)
  /\ SF_vars(SelectCtx)
  /\ SF_vars(SelectTick)
  /\ SF_vars(SelectHeartbeat)
  /\ SF_vars(SelectFlush)
  /\ SF_vars(SelectDone)
  /\ WF_vars(SendDone)

FairSpec == Spec /\ LoopFairness

TickerKeepsFiring == WF_vars(TickerFire)

-----------------------------------------------------------------------------
(* Properties.                                                             *)

Segments == Seq([offset : Nat, time : Nat])
Statuses == Seq([offset : Nat, time : Nat, report : Nat])
Writers == [buffer : Seq(Nat), segments : Segments, statuses : Statuses]
Batches == [data : Seq(Nat), segments : Segments, statuses : Statuses]

\* Type invariant: the values the loop, the writer and the channels of
\* streamOutput take.
TypeOK ==
  /\ now \in Nat
  /\ reads \in Seq(Nat)
  /\ reports \in Seq([at : Nat, time : Nat])
  /\ eof \in BOOLEAN
  /\ w \in Writers
  /\ flush \in BOOLEAN /\ tick \in BOOLEAN /\ hbTick \in BOOLEAN
  /\ cancelled \in BOOLEAN
  /\ done \in {"pending", "sent", "received"}
  /\ pc \in {"select", "checkLen", "checkStatus", "drain", "deliver",
            "heartbeat", "ok", "stopped"}
  /\ active \in BOOLEAN
  /\ batch \in Batches
  /\ prev \in Nat
  /\ idx \in Nat \ {0}
  /\ endTime \in Nat
  /\ out \in Seq(Nat)
  /\ told \in Nat
  /\ hbMark \in Nat

\* The consumer receives exactly the bytes the child wrote, in order, none
\* lost and none twice, however writes, flushes, reports and ticks interleave
\* (BufferWriter.Write, flushBatch and deliver).
OutputExact == out = Run(0, Len(out)) /\ Len(out) <= Len(reads)

\* ProgramStatus is yielded after the OutputData holding all preceding bytes
\* and before any following byte (README, "Ordering"), also when one batch
\* holds several reports or a flush falls between the bytes of a report and
\* its addStatus.
ReportsInPlace ==
  /\ told <= Len(reports)
  /\ \A r \in 1 .. Len(reports) :
       IF r <= told THEN reports[r].at <= Len(out)
                    ELSE Len(out) <= reports[r].at

\* When streamOutput returns ok everything the child wrote and reported was
\* delivered: nothing is left in the writer by the final flush.
Complete ==
  pc = "ok" => Len(out) = Len(reads) /\ told = Len(reports)

\* No flush request is lost.  A pending report, or a full buffer, always has a
\* token in the flush channel or the loop on its way to flushBatch, although
\* the channel drops tokens and the loop checks the length and the reports in
\* two critical sections after it took the token.
NoLostFlush ==
  /\ HasStatus(w) =>
       \/ flush
       \/ pc \in {"checkLen", "checkStatus", "drain", "stopped"}
  /\ Length(w) >= MaxBufferSize =>
       \/ flush
       \/ pc \in {"checkLen", "drain", "stopped"}

\* The time the Segments of an event give a byte is the time it was read, to
\* within the merge window, also after a batch was cut at its reports
\* (BufferWriter.Write merges, sliceSegments rebases).
SegmentFidelity ==
  /\ Len(outTimes) = Len(out)
  /\ \A i \in 1 .. Len(outTimes) :
       outTimes[i] <= reads[i] /\ reads[i] < outTimes[i] + MergeWindow

\* The end time, which stamps the final OutputData and the terminal event, is
\* not before anything the child wrote or reported was read.
EndCoversOutput ==
  endTime # 0 =>
    /\ \A i \in 1 .. Len(reads) : reads[i] <= endTime
    /\ \A r \in 1 .. Len(reports) : reports[r].time <= endTime

\* A heartbeat is yielded only if nothing was delivered since the previous
\* heartbeat tick, whatever the loop delivered and however often it flushed in
\* between (the `active' flag of streamOutput).
HeartbeatQuiet == pc = "heartbeat" => Len(out) + told = hbMark

\* A report is delivered promptly, not at the next batch tick (README): it
\* reaches the consumer, or the loop returns, even if the ticker never fires.
ReportsPrompt ==
  \A r \in 1 .. MaxReports :
    Len(reports) >= r ~> told >= r \/ Returned

\* A buffer that reaches maxBufferSize is flushed although the batch ticker
\* never fires.
FullBufferFlushed ==
  Length(w) >= MaxBufferSize ~> Length(w) < MaxBufferSize \/ Returned

\* With the batch ticker, every byte read reaches the consumer, or the loop
\* returns, although the child stays below maxBufferSize and never exits.
OutputDelivered ==
  TickerKeepsFiring =>
    \A n \in 1 .. MaxBytes :
      Len(reads) >= n ~> Len(out) >= n \/ Returned

\* The loop returns once done was sent, whatever else is ready.
DoneReturns == done = "sent" ~> Returned

\* Cancelling the context stops the loop, although output keeps coming.
CancelReturns == cancelled ~> Returned

(***************************************************************************)
(* The inductive invariant behind OutputExact, ReportsInPlace, Complete    *)
(* and NoLostFlush.  Everything read is either delivered, in the batch     *)
(* beyond prev and idx, or still in the writer: the buffer continues the   *)
(* batch, and the batch continues what the consumer received.              *)
(***************************************************************************)
\* Bytes and reports that have left the writer.
TakenBytes == Len(reads) - Len(w.buffer)
TakenReports == Len(reports) - Len(w.statuses)

\* Bytes and reports that had left it before the current batch.
BaseBytes == TakenBytes - Len(batch.data)
BaseReports == TakenReports - Len(batch.statuses)

ReportsInv ==
  /\ \A r \in 1 .. Len(reports) : reports[r].at <= Len(reads)
  /\ \A r, s \in 1 .. Len(reports) : r <= s => reports[r].at <= reports[s].at

WriterInv ==
  /\ TakenBytes >= 0 /\ TakenReports >= 0
  /\ w.buffer = Run(TakenBytes, Len(w.buffer))
  /\ \A i \in 1 .. Len(w.statuses) :
       w.statuses[i].offset = reports[TakenReports + i].at - TakenBytes

BatchInv ==
  /\ BaseBytes >= 0 /\ BaseReports >= 0
  /\ batch.data = Run(BaseBytes, Len(batch.data))
  /\ \A i \in 1 .. Len(batch.statuses) :
       /\ batch.statuses[i].offset = reports[BaseReports + i].at - BaseBytes
       /\ batch.statuses[i].offset <= Len(batch.data)
  /\ pc # "deliver" => batch = NoBatch /\ prev = 0 /\ idx = 1

PositionInv ==
  /\ prev <= Len(batch.data)
  /\ idx <= Len(batch.statuses) + 1
  /\ Len(out) = BaseBytes + prev
  /\ told = BaseReports + idx - 1
  /\ \A i \in 1 .. Len(batch.statuses) :
       IF i < idx THEN batch.statuses[i].offset <= prev
                  ELSE prev <= batch.statuses[i].offset

FinalInv ==
  /\ done # "pending" => eof
  /\ endTime # 0 =>
       /\ done = "received"
       /\ pc \in {"drain", "deliver", "ok", "stopped"}
       /\ pc \in {"deliver", "ok"} => w.buffer = <<>> /\ w.statuses = <<>>
  /\ pc = "ok" => endTime # 0

\* A loop that was stopped has let go of its batch.
DataInv ==
  /\ ReportsInv
  /\ WriterInv
  /\ pc # "stopped" => BatchInv /\ PositionInv
  /\ OutputExact
  /\ ReportsInPlace

\* Where every byte and report the child produced is, at every step of the
\* reader and of the loop, and what the final flush leaves behind.
IInv == DataInv /\ FinalInv /\ NoLostFlush

\* The abstract event stream that streamOutput provides.
Positions == [r \in 1 .. Len(reports) |-> reports[r].at]

StreamState ==
  IF pc = "ok" THEN "complete"
  ELSE IF pc = "stopped" THEN "abandoned" ELSE "open"

Stream ==
  INSTANCE EventStream WITH
    emitted <- Len(reads), at <- Positions, closed <- eof, stream <- StreamState

\* Every behaviour of the loop is one of the abstract event stream: bytes in
\* order, reports in place, complete only when all was delivered.
ImplementsEventStream == Stream!ESpec

=============================================================================
