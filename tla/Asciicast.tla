------------------------------ MODULE Asciicast ------------------------------
(***************************************************************************)
(* ToAscicastV3 (asciicast.go): the recording of a stream of events, line   *)
(* by line.  The events arrive as the stream loop makes them: flushes and   *)
(* terminal events carry the time they were yielded at, which never goes    *)
(* back; segments and program statuses carry the time their bytes were      *)
(* read at, which never goes back either but lies behind the former.        *)
(*                                                                          *)
(* Text is bytes, of which only the part they play in UTF-8 is kept: n > 0  *)
(* announces a rune of n bytes (1 stands for ASCII and for bytes no rune    *)
(* begins with), 0 continues one.  Rounding to microseconds is left out.    *)
(***************************************************************************)
EXTENDS Integers, SequencesExt

CONSTANTS
  Bytes,       \* the bytes to check: a subset of 0 .. 4
  Ids, Keys,   \* ids of program statuses, and their (state, kind)
  MaxBytes,    \* bound: bytes of output
  MaxChunk,    \* bound: bytes of a segment
  MaxReports,  \* bound: program statuses
  MaxTime      \* bound: timestamps

Unset == -1
NoKey == "unmarked"

ASSUME BytesAssumption == Bytes \subseteq 0 .. 4
ASSUME KeysAssumption == NoKey \notin Keys
ASSUME BoundsAssumption ==
  MaxBytes \in Nat /\ MaxChunk \in Nat /\ MaxReports \in Nat /\ MaxTime \in Nat

Larger(a, b) == IF a > b THEN a ELSE b

VARIABLES
  pc,             \* "header", "loop", "segments" or "done"
  carry,
  lastEventTime,  \* or Unset
  marked,         \* the last marked key per id
  event,          \* the timestamp of the latest event
  read,           \* the latest time of a read
  seen,           \* history: the bytes of the events
  out,            \* history: the bytes of the "o" lines
  cuts,           \* history: the lengths of `out' at which a line ended
  first,          \* history: the timestamp of the first event, or Unset
  elapsed,        \* history: the sum of the intervals
  latest,         \* history: the latest time a line was written for
  reports,        \* history: the program statuses
  markers,        \* history: which of them an "m" line was written for
  stopped         \* history: the consumer stopped iterating

state == <<pc, carry, lastEventTime, marked>>
source == <<event, read>>
recording == <<out, cuts, elapsed, latest>>
vars == <<state, source, seen, recording, first, reports, markers, stopped>>

Init ==
  /\ pc = "header" /\ carry = <<>> /\ lastEventTime = Unset
  /\ marked = [id \in Ids |-> NoKey]
  /\ event = 0 /\ read = 0
  /\ seen = <<>> /\ out = <<>> /\ cuts = {}
  /\ first = Unset /\ elapsed = 0 /\ latest = Unset
  /\ reports = <<>> /\ markers = <<>> /\ stopped = FALSE

-----------------------------------------------------------------------------
(* splitIncompleteUTF8.                                                     *)

\* Mutant: one byte less is looked at.
LookBackTwo(b) == {i \in DOMAIN b : i > Len(b) - 2}

\* utf8.UTFMax - 1 bytes.
LookBack(b) == {i \in DOMAIN b : i > Len(b) - 3}

\* The last rune start in sight begins the rest unless its rune is full.
SplitIncompleteUTF8(b) ==
  LET starts == {i \in LookBack(b) : b[i] # 0}
      i == CHOOSE k \in starts : \A j \in starts : j <= k
  IN IF starts # {} /\ b[i] > Len(b) - i + 1
     THEN [complete |-> SubSeq(b, 1, i - 1), rest |-> SubSeq(b, i, Len(b))]
     ELSE [complete |-> b, rest |-> <<>>]

-----------------------------------------------------------------------------
(* What every event does, and the lines.                                    *)

\* The next event is stamped ts; the first event of any kind sets the cursor.
Arrives(ts) ==
  /\ pc = "loop" /\ ts \in event .. MaxTime
  /\ event' = ts
  /\ first' = IF first = Unset THEN ts ELSE first

\* Mutant: the first event is not told apart.
CursorUnset(ts) == lastEventTime

Cursor(ts) == IF lastEventTime = Unset THEN ts ELSE lastEventTime

\* The consumer stops at a line or goes on.
Answer(next) ==
  \/ stopped' = FALSE /\ pc' = next
  \/ stopped' = TRUE /\ pc' = "done"

\* A line for something that happened at time `at', with `bytes' for an "o" line.
Line(interval, at, bytes) ==
  /\ elapsed' = elapsed + interval
  /\ latest' = Larger(latest, at)
  /\ out' = out \o bytes
  /\ cuts' = IF bytes = <<>> THEN cuts ELSE cuts \union {Len(out')}

NoLine ==
  /\ latest' = IF latest = Unset THEN first' ELSE latest
  /\ UNCHANGED <<out, cuts, elapsed>>

Header ==
  /\ pc = "header"
  /\ Answer("loop")
  /\ UNCHANGED <<carry, lastEventTime, marked, source, seen, recording, first,
                 reports, markers>>

\* ProcessStart, heartbeats and the events of containers only set the cursor.
Skip ==
  /\ \E ts \in 0 .. MaxTime : Arrives(ts) /\ lastEventTime' = Cursor(ts)
  /\ NoLine
  /\ UNCHANGED <<pc, carry, marked, read, seen, reports, markers, stopped>>

\* An error in the place of an event is passed on and ends nothing.
SourceError ==
  /\ pc = "loop"
  /\ Answer("loop")
  /\ UNCHANGED <<carry, lastEventTime, marked, source, seen, recording, first,
                 reports, markers>>

Chunks ==
  LET room == MaxBytes - Len(seen) IN
  UNION {[1 .. n -> Bytes] : n \in 1 .. IF MaxChunk < room THEN MaxChunk ELSE room}

\* OutputData without segments, as a caller may make it.
OutputPlain ==
  \E ts \in 0 .. MaxTime, bytes \in Chunks :
    LET split == SplitIncompleteUTF8(carry \o bytes) IN
    /\ Arrives(ts)
    /\ seen' = seen \o bytes
    /\ carry' = split.rest
    /\ IF split.complete = <<>>
       THEN /\ lastEventTime' = Cursor(ts)
            /\ NoLine /\ UNCHANGED <<pc, stopped>>
       ELSE /\ lastEventTime' = ts
            /\ Line(ts - Cursor(ts), ts, split.complete) /\ Answer("loop")
    /\ UNCHANGED <<marked, read, reports, markers>>

\* OutputData with segments, which Segment takes one by one.
OutputBegins ==
  /\ \E ts \in 0 .. MaxTime : Arrives(ts) /\ lastEventTime' = Cursor(ts)
  /\ pc' = "segments"
  /\ NoLine
  /\ UNCHANGED <<carry, marked, read, seen, reports, markers, stopped>>

\* A segment was read before the flush that yields it; the cursor never goes back.
Segment ==
  /\ pc = "segments"
  /\ \E at \in read .. event, bytes \in Chunks :
       LET split == SplitIncompleteUTF8(carry \o bytes) IN
       /\ read' = at
       /\ seen' = seen \o bytes
       /\ carry' = split.rest
       /\ IF split.complete = <<>>
          THEN UNCHANGED <<recording, lastEventTime, pc, stopped>>
          ELSE /\ Line(Larger(at - lastEventTime, 0), at, split.complete)
               /\ lastEventTime' = Larger(at, lastEventTime)
               /\ Answer("segments")
  /\ UNCHANGED <<marked, event, first, reports, markers>>

OutputEnds ==
  /\ pc = "segments"
  /\ pc' = "loop"
  /\ UNCHANGED <<carry, lastEventTime, marked, source, seen, recording, first,
                 reports, markers, stopped>>

Resize ==
  /\ \E ts \in 0 .. MaxTime :
       /\ Arrives(ts)
       /\ lastEventTime' = ts
       /\ Line(ts - Cursor(ts), ts, <<>>) /\ Answer("loop")
  /\ UNCHANGED <<carry, marked, read, seen, reports, markers>>

\* Mutant: the cursor goes to the time of the status, and may go back.
MarkAtRead(at) ==
  /\ lastEventTime' = at
  /\ Line(Larger(at - Cursor(at), 0), at, <<>>)

\* A status can have been read before what was written last.
MarkAt(at) ==
  /\ lastEventTime' = Larger(at, Cursor(at))
  /\ Line(Larger(at - Cursor(at), 0), at, <<>>)

\* Mutant: what was marked last is compared whichever id it is about.
Repeated(id, key) == marked[id] = key /\ reports[Last(markers)] = <<id, key>>

IsMarked(id, key) == marked[id] = key

\* Its time is that of a read, at or before the time it is yielded at.
Status ==
  /\ pc = "loop" /\ Len(reports) < MaxReports
  /\ \E yielded \in event .. MaxTime, id \in Ids, key \in Keys :
       \E at \in read .. yielded :
         /\ event' = yielded /\ read' = at
         /\ first' = IF first = Unset THEN at ELSE first
         /\ reports' = Append(reports, <<id, key>>)
         /\ IF IsMarked(id, key)
            THEN /\ lastEventTime' = Cursor(at)
                 /\ NoLine /\ UNCHANGED <<marked, markers, pc, stopped>>
            ELSE /\ marked' = [marked EXCEPT ![id] = key]
                 /\ markers' = Append(markers, Len(reports'))
                 /\ MarkAt(at) /\ Answer("loop")
  /\ UNCHANGED <<carry, seen>>

\* ProcessEnd and ProcessError: what was held back, then the exit line or the
\* marker of the error, with no time between.  The consumer may stop at either.
End ==
  /\ \E ts \in 0 .. MaxTime :
       Arrives(ts) /\ Line(ts - Cursor(ts), ts, carry)
  /\ stopped' \in BOOLEAN
  /\ pc' = "done"
  /\ UNCHANGED <<carry, lastEventTime, marked, read, seen, reports, markers>>

\* The events end without either.
SourceEnds ==
  /\ pc = "loop"
  /\ IF carry = <<>> THEN UNCHANGED recording ELSE Line(0, latest, carry)
  /\ stopped' \in BOOLEAN
  /\ pc' = "done"
  /\ UNCHANGED <<carry, lastEventTime, marked, source, seen, first, reports, markers>>

-----------------------------------------------------------------------------
Next ==
  \/ Header \/ Skip \/ SourceError
  \/ OutputPlain \/ OutputBegins \/ Segment \/ OutputEnds
  \/ Resize \/ Status \/ End \/ SourceEnds

Spec == Init /\ [][Next]_vars

-----------------------------------------------------------------------------
(* Properties.                                                             *)

\* The fields have their types; at most three bytes are held back; and marked
\* has what was marked last.
TypeOK ==
  /\ pc \in {"header", "loop", "segments", "done"} /\ stopped \in BOOLEAN
  /\ carry \in BoundedSeq(Bytes, 3)
  /\ lastEventTime \in {Unset} \union 0 .. MaxTime
  /\ marked \in [Ids -> Keys \union {NoKey}]
  /\ event \in 0 .. MaxTime /\ read \in 0 .. event /\ elapsed \in 0 .. event

\* The rune that starts at i, in full.
IsRune(b, i) ==
  /\ b[i] > 0 /\ i + b[i] - 1 <= Len(b)
  /\ \A k \in i + 1 .. i + b[i] - 1 : b[k] = 0

\* Every byte of output is recorded once and in order, the end of the events
\* included, and no line ends inside a rune, wherever reads split it and
\* whatever comes between its bytes: each line is text by itself, as its JSON
\* encoding needs (a broken rune would be replaced).
TextExact ==
  /\ ~stopped => seen = IF pc = "done" THEN out ELSE out \o carry
  /\ \A cut \in cuts, i \in DOMAIN out :
       IsRune(out, i) => ~(i <= cut /\ cut < i + out[i] - 1)

\* Played back, the recording is neither late nor early: what was written last
\* comes at the latest of the times the lines were written for, counted from the
\* first event, also when a status was read before output already written.
\* No interval is negative, as that latest time never goes back.
RecordingTime ==
  first # Unset =>
    /\ elapsed = latest - first
    /\ pc \in {"loop", "segments"} => lastEventTime = latest

\* The i-th status is the first about its id, or differs from the one before
\* it about that id.
Changes(i) ==
  \A j \in 1 .. i - 1 :
    (\A k \in j + 1 .. i - 1 : reports[k][1] # reports[i][1]) => reports[j] # reports[i]

\* "A marker is written when (id, state, kind) changes for an ID": one for each
\* status that changes what is known of its id, whatever other ids report in
\* between, none for another, and in the order of the statuses.
MarkersTell ==
  /\ Range(markers) = {i \in DOMAIN reports : Changes(i)}
  /\ \A k, l \in DOMAIN markers : k < l => markers[k] < markers[l]

=============================================================================
