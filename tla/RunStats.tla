------------------------------ MODULE RunStats ------------------------------
(***************************************************************************)
(* ProcessStats (process.go): the statistics of a Process, which its runs   *)
(* share, and where Process.run, streamOutput and emitProcessEnd update     *)
(* them.  A run is what its goroutine does to the statistics; its events    *)
(* are those of ProcessRun.                                                 *)
(*                                                                          *)
(* A critical section is a step; two in a row that write different fields   *)
(* are one (RecordEvent and ObserveStatus; Stop and SetExitCode).  Intervals *)
(* the timer accrues are added to the duration counter outside the lock, in *)
(* a step of their own.                                                     *)
(***************************************************************************)
EXTENDS StatusTimer, FiniteSets

CONSTANTS
  Runs,         \* iterations of ExecuteAndStream's sequence
  NoRun,
  Concurrent,   \* runs may overlap
  MaxTime,      \* bound: the clock
  MaxEvents     \* bound: eventCount while streaming

ASSUME NoRunAssumption == NoRun \notin Runs
ASSUME ConcurrentAssumption == Concurrent \in BOOLEAN
ASSUME MaxTimeAssumption == MaxTime \in Nat
ASSUME MaxEventsAssumption == MaxEvents \in Nat

Never == -1
NoTime == [s \in Live |-> 0]

VARIABLES
  now,
  statusTimer, startTime, duration, exitCode, eventCount, errorCount,
  pid,          \* processInfo.PID, by the run whose child has it
  gauge,        \* processStatusGauge by the pid attribute: "unset", "running", "stopped"
  counter,      \* statusDuration by state
  pc,           \* where each run is
  accruals,     \* by run: accrued under the lock, not yet added to the counter
  endTime,      \* by run: when it left the stream loop, or Never
  seen,         \* by run: the time of the last report it read
  own,          \* history, by run: the timer its own reports alone would give
  reported,     \* history: the last report about each id since the last Start
  urgent,       \* history: urgent[k] is the state in which instant k counts
  past          \* history: time per state of the runs before the last Start

stats == <<statusTimer, startTime, duration, exitCode, eventCount, errorCount,
           pid, gauge>>
history == <<own, reported, urgent, past>>
vars == <<now, stats, counter, pc, accruals, endTime, seen, history>>

Init ==
  /\ now = 0
  /\ statusTimer = NewTimer /\ startTime = 0 /\ duration = 0
  /\ exitCode = NoRun /\ eventCount = 0 /\ errorCount = 0
  /\ pid = NoRun /\ gauge = [r \in Runs |-> "unset"] /\ counter = NoTime
  /\ pc = [r \in Runs |-> "idle"]
  /\ accruals = [r \in Runs |-> NoTime]
  /\ endTime = [r \in Runs |-> Never] /\ seen = [r \in Runs |-> 0]
  /\ own = [r \in Runs |-> NewTimer]
  /\ reported = [id \in Ids |-> "none"]
  /\ urgent = [k \in 0 .. MaxTime |-> "none"]
  /\ past = NoTime

Goto(r, place) == pc' = [pc EXCEPT ![r] = place]

\* What streamOutput does not touch.
others == <<startTime, duration, exitCode, errorCount, pid, gauge, past>>

Tick ==
  /\ now < MaxTime
  /\ now' = now + 1
  /\ UNCHANGED <<stats, counter, pc, accruals, endTime, seen, history>>

-----------------------------------------------------------------------------
(* The time each state got, told without the timer: each id stands as last *)
(* reported, and an instant counts under the most urgent state standing.    *)

MostUrgent(standing) ==
  LET found == {id \in Ids : standing[id] \in Live} IN
  CASE \E id \in found : standing[id] = "blocked" -> "blocked"
    [] \A id \in found : standing[id] = "idle" ->
         IF found = {} THEN "none" ELSE "idle"
    [] OTHER -> "working"

Stands(state, id) ==
  [i \in Ids |-> IF state # "unknown" /\ (i = id \/ (state = "clear" /\ i \in Clears[id]))
                 THEN state ELSE reported[i]]

Counted(from, upTo, s) == Cardinality({k \in from .. upTo - 1 : urgent[k] = s})

\* The run that started last; its time counts up to its last report, and to its
\* end once it has left the stream loop.
Horizon ==
  IF pid = NoRun THEN 0
  ELSE IF own[pid].closed THEN endTime[pid] ELSE seen[pid]

TimeByUrgency == [s \in Live |-> Counted(startTime, Horizon, s)]

-----------------------------------------------------------------------------
(* ProcessStats.                                                            *)

\* withStatusTimer: the new timer, and what it accrued for the run to add.
WithStatusTimer(r, timer) ==
  /\ statusTimer' = timer
  /\ accruals' = [accruals EXCEPT ![r] =
       [s \in Live |-> timer.totals[s] - statusTimer.totals[s]]]

\* Mutant: the time accrued at the end of a run is not added.
RecordAccrualsOfReports(r) ==
  /\ pc[r] \in {"add", "addLeft", "addEnd"}
  /\ counter' = [s \in Live |->
       counter[s] + IF pc[r] = "add" THEN accruals[r][s] ELSE 0]
  /\ accruals' = [accruals EXCEPT ![r] = NoTime]
  /\ Goto(r, CASE pc[r] = "add" -> IF endTime[r] = Never THEN "stream" ELSE "final"
               [] pc[r] = "addLeft" -> "returned"
               [] OTHER -> "stop")
  /\ UNCHANGED <<now, stats, endTime, seen, history>>

\* The end of withStatusTimer, outside the lock.
RecordAccruals(r) ==
  /\ pc[r] \in {"add", "addLeft", "addEnd"}
  /\ counter' = [s \in Live |-> counter[s] + accruals[r][s]]
  /\ accruals' = [accruals EXCEPT ![r] = NoTime]
  /\ Goto(r, CASE pc[r] = "add" -> IF endTime[r] = Never THEN "stream" ELSE "final"
               [] pc[r] = "addLeft" -> "returned"
               [] OTHER -> "stop")
  /\ UNCHANGED <<now, stats, endTime, seen, history>>

\* The pid is set without the lock; only the start time and the timer are new.
Start(r) ==
  /\ pc[r] = "idle"
  /\ Concurrent \/ \A q \in Runs : pc[q] \in {"idle", "returned"}
  /\ pid' = r /\ startTime' = now /\ statusTimer' = NewTimer
  /\ Goto(r, "gauge")
  /\ seen' = [seen EXCEPT ![r] = now]
  /\ past' = [s \in Live |-> past[s] + TimeByUrgency[s]]
  /\ reported' = [id \in Ids |-> "none"]
  /\ urgent' = [k \in 0 .. MaxTime |-> "none"]
  /\ UNCHANGED <<now, duration, exitCode, eventCount, errorCount, gauge,
                 counter, accruals, endTime, own>>

\* The end of Start: the pid is read again.
SetGauge(r) ==
  /\ pc[r] = "gauge"
  /\ gauge' = [gauge EXCEPT ![pid] = "running"]
  /\ Goto(r, "started")
  /\ UNCHANGED <<now, statusTimer, startTime, duration, exitCode, eventCount,
                 errorCount, pid, counter, accruals, endTime, seen, history>>

-----------------------------------------------------------------------------
(* Process.run and streamOutput.  An event counts once the consumer has     *)
(* taken it; a heartbeat never does.                                        *)

YieldStart(r) ==
  /\ pc[r] = "started"
  /\ \/ Goto(r, "stream") /\ eventCount' = eventCount + 1
     \/ Goto(r, "returned") /\ UNCHANGED eventCount
  /\ UNCHANGED <<now, others, statusTimer, counter, accruals, endTime, seen,
                 own, reported, urgent>>

RecordOutput(r) ==
  /\ pc[r] \in {"stream", "final"} /\ eventCount < MaxEvents
  /\ eventCount' = eventCount + 1
  /\ UNCHANGED <<now, others, statusTimer, counter, pc, accruals, endTime, seen,
                 own, reported, urgent>>

\* A report carries the time it was read at, which may be long past when it is
\* delivered, and lies before the end time in the final flush.
ObserveStatus(r) ==
  /\ pc[r] \in {"stream", "final"} /\ eventCount < MaxEvents
  /\ \E at \in seen[r] .. (IF pc[r] = "final" THEN endTime[r] ELSE now),
        state \in Reports, id \in Ids :
       /\ eventCount' = eventCount + 1
       /\ WithStatusTimer(r, Apply(statusTimer, at, state, id))
       /\ own' = [own EXCEPT ![r] = Apply(@, at, state, id)]
       /\ seen' = [seen EXCEPT ![r] = at]
       /\ reported' = Stands(state, id)
       /\ urgent' = [k \in DOMAIN urgent |->
                       IF k >= at THEN MostUrgent(reported') ELSE urgent[k]]
  /\ Goto(r, "add")
  /\ UNCHANGED <<now, others, counter, endTime>>

\* Mutant: a consumer's break or a cancelled ctx leaves the timer running.
LeaveOpen(r) ==
  /\ pc[r] \in {"stream", "final"}
  /\ endTime' = [endTime EXCEPT ![r] = now]
  /\ Goto(r, "returned")
  /\ own' = [own EXCEPT ![r] = Close(@, now)]
  /\ UNCHANGED <<now, others, statusTimer, eventCount, counter, accruals, seen,
                 reported, urgent>>

\* The consumer breaks at any event, or ctx is done: only the timer is told.
Leave(r) ==
  /\ pc[r] \in {"stream", "final"}
  /\ endTime' = [endTime EXCEPT ![r] = now]
  /\ WithStatusTimer(r, Close(statusTimer, now))
  /\ own' = [own EXCEPT ![r] = Close(@, now)]
  /\ Goto(r, "addLeft")
  /\ UNCHANGED <<now, others, eventCount, counter, seen, reported, urgent>>

\* done is received; the final flush follows.
TakeDone(r) ==
  /\ pc[r] = "stream"
  /\ endTime' = [endTime EXCEPT ![r] = now]
  /\ Goto(r, "final")
  /\ UNCHANGED <<now, stats, counter, accruals, seen, history>>

-----------------------------------------------------------------------------
(* emitProcessEnd.                                                          *)

CloseAtEnd(r) ==
  /\ pc[r] = "final"
  /\ WithStatusTimer(r, Close(statusTimer, endTime[r]))
  /\ own' = [own EXCEPT ![r] = Close(@, endTime[r])]
  /\ Goto(r, "addEnd")
  /\ UNCHANGED <<now, others, eventCount, counter, endTime, seen, reported, urgent>>

\* Stop, and SetExitCode unless the wait failed.
Stop(r) ==
  /\ pc[r] = "stop"
  /\ duration' = now - startTime
  /\ gauge' = [gauge EXCEPT ![pid] = "stopped"]
  /\ \/ exitCode' = r /\ Goto(r, "exit")
     \/ UNCHANGED exitCode /\ Goto(r, "error")
  /\ UNCHANGED <<now, statusTimer, startTime, eventCount, errorCount, pid,
                 counter, accruals, endTime, seen, history>>

\* The last event counts whether or not the consumer goes on.
EmitEnd(r) ==
  /\ pc[r] \in {"exit", "error"}
  /\ eventCount' = eventCount + 1
  /\ errorCount' = errorCount + IF pc[r] = "error" THEN 1 ELSE 0
  /\ Goto(r, "returned")
  /\ UNCHANGED <<now, statusTimer, startTime, duration, exitCode, pid, gauge,
                 counter, accruals, endTime, seen, history>>

-----------------------------------------------------------------------------
Next ==
  \/ Tick
  \/ \E r \in Runs :
       \/ Start(r) \/ SetGauge(r) \/ YieldStart(r)
       \/ RecordOutput(r) \/ ObserveStatus(r) \/ RecordAccruals(r)
       \/ Leave(r) \/ TakeDone(r) \/ CloseAtEnd(r) \/ Stop(r) \/ EmitEnd(r)

Spec == Init /\ [][Next]_vars

-----------------------------------------------------------------------------
(* Properties.                                                             *)

Times == 0 .. MaxTime

\* The fields have their types, no interval of the timer starts in the future,
\* and no error is counted that is not counted as an event.
TypeOK ==
  /\ now \in Times /\ startTime \in 0 .. now /\ duration \in 0 .. now
  /\ statusTimer.records \in [Ids -> Live \union {"none"}]
  /\ statusTimer.cur \in Live \union {"none"} /\ statusTimer.since \in 0 .. now
  /\ statusTimer.totals \in [Live -> Times] /\ statusTimer.closed \in BOOLEAN
  /\ exitCode \in Runs \union {NoRun} /\ pid \in Runs \union {NoRun}
  /\ errorCount \in 0 .. eventCount
  /\ gauge \in [Runs -> {"unset", "running", "stopped"}]
  /\ accruals \in [Runs -> [Live -> Times]] /\ counter \in [Live -> Nat]
  /\ endTime \in [Runs -> Times \union {Never}] /\ seen \in [Runs -> Times]

\* "At each instant the run counts once under its most urgent live state": the
\* StatusTime of GetStats is, for the run that started last, the number of
\* instants in which each state was the most urgent of those its ids last
\* reported, up to its last report and once it ended up to its end, whether it
\* ended by itself, the consumer broke or ctx was cancelled.
CountsByUrgency ==
  \A s \in Live : statusTimer.totals[s] = TimeByUrgency[s]

\* When no run is between a critical section and its additions, the counter
\* process.program_status.duration has the time of all runs so far, each
\* interval once, though Start wipes the totals of the run before.
TimeReported ==
  (\A r \in Runs : pc[r] \in {"idle", "returned"}) =>
    \A s \in Live : counter[s] = past[s] + TimeByUrgency[s]

\* "All run state is local": while a run streams, the StatusTime it can be asked
\* for is the time of its own reports.
RunStateLocal ==
  \A r \in Runs : pc[r] = "stream" => statusTimer.totals = own[r].totals

=============================================================================
