---------------------------- MODULE BufferWriter ----------------------------
(***************************************************************************)
(* The shared output buffer of a run (buffer_writer.go), as a value.       *)
(*                                                                         *)
(* A BufferWriter is a record of the bytes read and not yet delivered, the *)
(* segments saying when they were read, and the program status reports     *)
(* pending between them.  Each method runs under the writer's mutex, so a  *)
(* method is one operator here and one atomic step of the modules that use *)
(* it.  The two methods that signal the stream loop do it inside the       *)
(* critical section: Signals says whether they do.                         *)
(*                                                                         *)
(* Offsets count bytes from 0, as in the code: byte k of the buffer sits   *)
(* at offset k - 1.                                                        *)
(***************************************************************************)
EXTENDS Integers, Sequences

CONSTANTS
  MaxBufferSize,   \* maxBufferSize: the length that asks for a flush
  MergeWindow      \* the millisecond within which writes share a segment

ASSUME MaxBufferSizeAssumption == MaxBufferSize \in Nat \ {0}
ASSUME MergeWindowAssumption == MergeWindow \in Nat \ {0}

Larger(a, b) == IF a >= b THEN a ELSE b
Smaller(a, b) == IF a <= b THEN a ELSE b

NewBufferWriter == [buffer |-> <<>>, segments |-> <<>>, statuses |-> <<>>]

Length(w) == Len(w.buffer)

HasStatus(w) == w.statuses # <<>>

\* Mutant: the window's last instant is merged too.
OpensSegmentLate(w, now) ==
  w.segments = <<>> \/ now - w.segments[Len(w.segments)].time > MergeWindow

\* A write opens a segment unless it falls in the window of the last one.
OpensSegment(w, now) ==
  w.segments = <<>> \/ now - w.segments[Len(w.segments)].time >= MergeWindow

Write(w, data, now) ==
  IF data = <<>> THEN w
  ELSE [w EXCEPT
          !.buffer = @ \o data,
          !.segments =
            IF OpensSegment(w, now)
              THEN Append(@, [offset |-> Len(w.buffer), time |-> now])
              ELSE @]

\* Mutant: a buffer that is exactly full asks for nothing.
WriteSignalsAbove(w, data) ==
  data # <<>> /\ Len(w.buffer) + Len(data) > MaxBufferSize

\* Write asks for a flush when its data brings the buffer to the limit.
WriteSignals(w, data) ==
  data # <<>> /\ Len(w.buffer) + Len(data) >= MaxBufferSize

\* addStatus: the report sits after every byte buffered so far.
AddStatus(w, report, now) ==
  [w EXCEPT !.statuses =
     Append(@, [offset |-> Len(w.buffer), time |-> now, report |-> report])]

\* Mutant: an empty buffer hands over nothing, not even its reports.
BatchNeedsBytes(w) ==
  [data     |-> w.buffer,
   segments |-> w.segments,
   statuses |-> IF w.buffer = <<>> THEN <<>> ELSE w.statuses]

\* flushBatch hands over everything pending.  The segments stay behind when
\* there are no bytes: they are empty then, because Write opens a segment
\* only for bytes it buffers.
Batch(w) ==
  [data     |-> w.buffer,
   segments |-> IF w.buffer = <<>> THEN <<>> ELSE w.segments,
   statuses |-> w.statuses]

\* Mutant: the buffer is copied out but not cleared.
DrainedKeepsBytes(w) == [w EXCEPT !.statuses = <<>>]

\* Mutant: the reports are rebased to the cleared buffer and kept.
DrainedKeepsReports(w) ==
  [buffer   |-> <<>>,
   segments |-> <<>>,
   statuses |-> [i \in DOMAIN w.statuses |->
                   [w.statuses[i] EXCEPT !.offset = @ - Len(w.buffer)]]]

Drained(w) ==
  [buffer   |-> <<>>,
   segments |-> IF w.buffer = <<>> THEN w.segments ELSE <<>>,
   statuses |-> <<>>]

\* Both results nil: nothing was pending and nothing is delivered.
IsEmptyBatch(b) == b.data = <<>> /\ b.statuses = <<>>

-----------------------------------------------------------------------------
(* sliceSegments (stream_loop.go): the segments of data[from:to], rebased. *)

\* The segment in effect at an offset: the last one starting at or before it.
InEffect(segs, from) ==
  LET before == {i \in DOMAIN segs : segs[i].offset <= from}
  IN  IF before = {} THEN 1
      ELSE CHOOSE i \in before : \A j \in before : j <= i

SliceSegments(segs, from, to) ==
  LET first == InEffect(segs, from)
      kept  == {i \in first .. Len(segs) :
                  \A j \in first + 1 .. i : segs[j].offset < to}
      last  == CHOOSE i \in kept : \A j \in kept : j <= i
  IN  IF segs = <<>> THEN <<>>
      ELSE [i \in 1 .. last - first + 1 |->
              [offset |-> Larger(segs[first + i - 1].offset - from, 0),
               time   |-> segs[first + i - 1].time]]

=============================================================================
