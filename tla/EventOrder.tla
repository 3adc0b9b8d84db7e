----------------------------- MODULE EventOrder -----------------------------
(***************************************************************************)
(* The order in which the code yields the events of a run, as tables: what  *)
(* may follow each event, "begin" standing for no event yet, and which      *)
(* events may be the last.  For a container whose wait fails the README     *)
(* ("Event order") has another one: RemoveComesLast in ContainerRun.        *)
(***************************************************************************)

\* Statuses and heartbeats come between output as they please.
Streamed == {"output", "status", "heartbeat"}

\* A Process: Process.run and emitProcessEnd.
ProcessOrder ==
  LET more == Streamed \union {"end", "error"} IN
  [begin |-> {"start", "startError"},
   start |-> more, output |-> more, status |-> more, heartbeat |-> more,
   startError |-> {}, end |-> {}, error |-> {}]

ProcessFinals == {"startError", "end", "error"}

\* A ContainerProcess: the image is pulled only if the daemon misses it, every
\* step up to the start may fail, an error of the logs does not end the run, and
\* an error of the wait does, without a remove.
ContainerOrder ==
  LET more == Streamed \union {"logError", "end", "error"} IN
  [begin |-> {"create", "pullStart", "startError"},
   pullStart |-> {"pullProgress", "pullComplete", "startError"},
   pullProgress |-> {"pullProgress", "pullComplete", "startError"},
   pullComplete |-> {"create", "startError"},
   create |-> {"start", "startError"},
   start |-> more, output |-> more, status |-> more, heartbeat |-> more,
   logError |-> {"end"}, end |-> {"remove"},
   remove |-> {}, startError |-> {}, error |-> {}]

ContainerFinals == {"startError", "error", "remove"}

=============================================================================
