------------------------------- MODULE Runner -------------------------------
(***************************************************************************)
(* The runner command (cmd/runner): runExec loads a configuration, makes a  *)
(* Process and feeds its events through wrapProgramStatus to a formatter.   *)
(* The Process appears by the order of its events (ProcessOrder), which     *)
(* ProcessRun keeps, and by its promise to return once ctx is done or the   *)
(* loop over its events is left.                                            *)
(*                                                                          *)
(* The terminal holds the records the runner relays: ids are those of the   *)
(* child, prefixed by the run's id, so "" is the run's own record.  Logging *)
(* and the wording of the output are left out, and all timestamps are 0.    *)
(***************************************************************************)
EXTENDS StatusTimer, EventOrder

CONSTANTS
  TooDeep,      \* ids the terminal would not take with the prefix
  MaxOutputs,   \* bound: OutputData events
  MaxReports    \* bound: ProgramStatus events

ASSUME TooDeepAssumption ==
  TooDeep \subseteq Ids \ {""} /\ \A id \in TooDeep : Clears[id] \subseteq TooDeep
ASSUME BoundsAssumption == MaxOutputs \in Nat /\ MaxReports \in Nat

VARIABLES
  config,      \* the configuration and the flags
  relaying,    \* the relay is active: stderr is a terminal
  pc,          \* "load", "execute", "format", "header", "iterate", "stopping",
               \* "finish", "done" or "exited"
  latest,      \* the latest event of the Process
  cancelled,   \* ctx is done: the timeout, or a signal
  states,      \* statusTracker.states
  timer,       \* statusTracker.timer
  terminal,    \* the terminal's records, by the child's ids
  blocked,     \* blockedErr is set
  err,         \* the formatter's error: "none", "start" or "write"
  held,        \* the stripper holds a byte that may begin a sequence
  result,      \* of runExec: "pending", "ok" or "error"
  received, stripped, shown,  \* history: bytes of output that came, belonged to
                              \* sequences, were written as text
  reports      \* history: ProgramStatus events

input == <<config, relaying>>
status == <<states, timer, terminal, blocked, reports>>
text == <<held, received, stripped, shown>>
vars == <<input, pc, latest, cancelled, status, err, text, result>>

Configs ==
  [format : {"text", "json", "asciicast", "other"},
   programStatus : BOOLEAN, failOnBlocked : BOOLEAN, timeout : BOOLEAN]

Init ==
  /\ config \in Configs /\ relaying \in BOOLEAN
  /\ pc = "load" /\ latest = "begin" /\ cancelled = FALSE
  /\ states = [id \in Ids |-> "none"] /\ timer = NewTimer
  /\ terminal = [id \in Ids |-> "none"] /\ blocked = FALSE /\ reports = 0
  /\ err = "none" /\ result = "pending"
  /\ held = 0 /\ received = 0 /\ stripped = 0 /\ shown = 0

-----------------------------------------------------------------------------
(* Before the iteration.  Whatever fails here, no child is started.         *)

Reject ==
  /\ result' = "error" /\ pc' = "done"
  /\ UNCHANGED <<input, latest, cancelled, status, err, text>>

Advance(next) ==
  /\ pc' = next
  /\ UNCHANGED <<input, latest, cancelled, status, err, text, result>>

\* The file may be unreadable, without a command, or its timeout no duration.
LoadConfig ==
  /\ pc = "load"
  /\ \/ Reject
     \/ (config.failOnBlocked => config.programStatus) /\ Advance("execute")

\* executeProcess refuses a process type or a size; no child runs yet.
ExecuteProcess ==
  /\ pc = "execute"
  /\ Reject \/ Advance("format")

\* The output file is created before the format is looked at.
FormatOutput ==
  /\ pc = "format"
  /\ \/ Reject
     \/ config.format = "asciicast" /\ Advance("header")
     \/ config.format \in {"text", "json"} /\ Advance("iterate")

\* Mutant: the timeout applies only when one is configured.
TimeoutIfSet ==
  /\ ~cancelled /\ pc \notin {"load", "done", "exited"} /\ config.timeout
  /\ cancelled' = TRUE
  /\ UNCHANGED <<input, pc, latest, status, err, text, result>>

\* context.WithTimeout over signal.NotifyContext; 30s when none is configured.
Timeout ==
  /\ ~cancelled /\ pc \notin {"load", "done", "exited"}
  /\ cancelled' = TRUE
  /\ UNCHANGED <<input, pc, latest, status, err, text, result>>

-----------------------------------------------------------------------------
(* The formatters.                                                          *)

\* The events a formatter writes something for; text ignores failures.
MayFail(event) ==
  \/ config.format = "json"
  \/ config.format = "asciicast" /\ event \in {"output", "status", "end", "error"}

\* The formatter takes the event: it goes on, or a failed write ends the loop.
Formats(event) ==
  \/ UNCHANGED <<err, pc>>
  \/ MayFail(event) /\ err' = "write" /\ pc' = "stopping"

Strips == config.format = "text" /\ config.programStatus

\* The bytes held back are written as they are.
Flushed == held' = 0 /\ shown' = shown + held /\ UNCHANGED <<received, stripped>>

\* The header of a recording is written before the iteration starts the child.
Header ==
  /\ pc = "header"
  /\ \/ pc' = "iterate" /\ UNCHANGED err
     \/ pc' = "finish" /\ err' = "write"
  /\ UNCHANGED <<input, latest, cancelled, status, text, result>>

-----------------------------------------------------------------------------
(* The events of the Process, through wrapProgramStatus to the formatter.   *)

Takes(event) ==
  /\ pc = "iterate" /\ event \in ProcessOrder[latest]
  /\ latest' = event

\* Mutant: a clear is stored like any other state.
PutAlways(records, state, id) == [records EXCEPT ![id] = state]

\* A record of the terminal or the tracker; a clear removes, the others replace.
Put(records, state, id) ==
  IF state = "clear"
  THEN [i \in Ids |-> IF i \in Clears[id] THEN "none" ELSE records[i]]
  ELSE [records EXCEPT ![id] = state]

\* relay.run.
PutRun(state) ==
  terminal' = IF relaying /\ config.programStatus
              THEN Put(terminal, state, "") ELSE terminal

\* Mutant: the root's clear is relayed as the clear of the run's record alone.
ChildClearsRecord(state, id) ==
  IF ~relaying \/ id \in TooDeep THEN terminal
  ELSE IF state = "clear" /\ id = "" THEN [terminal EXCEPT ![""] = "none"]
  ELSE Put(terminal, state, id)

\* relay.child: the root's id becomes the run's; what is too deep is not relayed.
Child(state, id) ==
  IF ~relaying \/ id \in TooDeep THEN terminal ELSE Put(terminal, state, id)

OnStart ==
  /\ Takes("start")
  /\ PutRun("working")
  /\ Formats("start")
  /\ UNCHANGED <<input, cancelled, states, timer, blocked, reports, text, result>>

\* An error in the place of an event: a recording ends, text and JSON go on.
OnStartError ==
  /\ Takes("startError")
  /\ IF config.format = "asciicast" THEN err' = "start" /\ pc' = "stopping"
     ELSE Formats("startError")
  /\ UNCHANGED <<input, cancelled, status, text, result>>

OnHeartbeat ==
  /\ Takes("heartbeat")
  /\ Formats("heartbeat")
  /\ UNCHANGED <<input, cancelled, status, text, result>>

\* With text, a byte that may begin a sequence is held back until it is known to
\* (it is stripped) or not (it is shown); so may be the last byte of this event.
\* What a failed write should have written is not shown.
OnOutput ==
  /\ Takes("output") /\ received < MaxOutputs
  /\ Formats("output")
  /\ received' = received + 1
  /\ IF Strips
     THEN \E known \in 0 .. held, hold \in 0 .. 1 :
            /\ stripped' = stripped + known
            /\ held' = hold
            /\ shown' = shown + (held - known) + (1 - hold)
     ELSE /\ shown' = IF pc' = "stopping" THEN shown ELSE shown + 1
          /\ UNCHANGED <<held, stripped>>
  /\ UNCHANGED <<input, cancelled, status, result>>

\* Mutant: the iteration goes on after the blocked status.
OnStatusGoesOn(state, id) ==
  /\ config.programStatus /\ reports < MaxReports
  /\ Takes("status")
  /\ reports' = reports + 1
  /\ states' = Put(states, state, id)
  /\ timer' = Apply(timer, 0, state, id)
  /\ LET blocking == config.failOnBlocked /\ state = "blocked" IN
     /\ blocked' = (blocked \/ blocking)
     /\ terminal' = IF blocking /\ relaying THEN Put(Child(state, id), "error", "")
                    ELSE Child(state, id)
     /\ Formats("status")
  /\ UNCHANGED <<input, cancelled, text, result>>

\* wrapProgramStatus tracks, relays and passes on; with fail_on_blocked the first
\* blocked status fails the run and is the last event.
OnStatus(state, id) ==
  /\ config.programStatus /\ reports < MaxReports
  /\ Takes("status")
  /\ reports' = reports + 1
  /\ states' = Put(states, state, id)
  /\ timer' = Apply(timer, 0, state, id)
  /\ LET blocking == config.failOnBlocked /\ state = "blocked" IN
     /\ blocked' = (blocked \/ blocking)
     /\ terminal' = IF blocking /\ relaying THEN Put(Child(state, id), "error", "")
                    ELSE Child(state, id)
     /\ IF blocking
        THEN pc' = "stopping" /\ (UNCHANGED err \/ (MayFail("status") /\ err' = "write"))
        ELSE Formats("status")
  /\ UNCHANGED <<input, cancelled, text, result>>

\* ProcessEnd with or without success, and ProcessError.
OnEnd ==
  /\ \E event \in {"end", "error"}, success \in BOOLEAN :
       /\ Takes(event)
       /\ PutRun(IF event = "end" /\ success THEN "done" ELSE "error")
       /\ Formats(event)
  /\ timer' = IF config.programStatus THEN Close(timer, 0) ELSE timer
  /\ IF Strips THEN Flushed ELSE UNCHANGED text
  /\ UNCHANGED <<input, cancelled, states, blocked, reports, result>>

\* The iterator returns; ctx is looked at once it has streamed.  A recording without an exit line may have bytes left.
EventsEnd ==
  /\ pc = "iterate"
  /\ latest \in ProcessFinals \/ (cancelled /\ latest # "begin")
  /\ pc' = "finish"
  /\ \/ UNCHANGED err
     \/ config.format = "asciicast" /\ latest \notin ProcessFinals /\ err' = "write"
  /\ UNCHANGED <<input, latest, cancelled, status, text, result>>

\* The loop was left: the Process stops the child before it returns.
StopChild == pc = "stopping" /\ Advance("finish")

\* Mutant: the text held back is written at ProcessEnd and ProcessError only.
FinishUnflushed ==
  /\ pc = "finish"
  /\ timer' = IF config.programStatus THEN Close(timer, 0) ELSE timer
  /\ result' = IF err # "none" \/ blocked THEN "error" ELSE "ok"
  /\ pc' = "done"
  /\ UNCHANGED <<input, latest, cancelled, states, terminal, blocked, reports, err, text>>

\* The deferred flush of the text, and the end of formatOutput: the formatter's
\* error, else the blocked one.  The child's exit code is only logged.
Finish ==
  /\ pc = "finish"
  /\ IF Strips THEN Flushed ELSE UNCHANGED text
  /\ timer' = IF config.programStatus THEN Close(timer, 0) ELSE timer
  /\ result' = IF err # "none" \/ blocked THEN "error" ELSE "ok"
  /\ pc' = "done"
  /\ UNCHANGED <<input, latest, cancelled, states, terminal, blocked, reports, err>>

\* The terminal drops working and blocked records when the runner exits.
Exit ==
  /\ pc = "done"
  /\ pc' = "exited"
  /\ terminal' = [id \in Ids |->
       IF terminal[id] \in {"working", "blocked"} THEN "none" ELSE terminal[id]]
  /\ UNCHANGED <<input, latest, cancelled, states, timer, blocked, reports, err, text, result>>

Exited == pc = "exited" /\ UNCHANGED vars

-----------------------------------------------------------------------------
Statuses == Reports \ {"unknown"}

RunnerSteps ==
  \/ LoadConfig \/ ExecuteProcess \/ FormatOutput \/ Header
  \/ EventsEnd \/ StopChild \/ Finish \/ Exit

Events ==
  \/ OnStart \/ OnStartError \/ OnHeartbeat \/ OnOutput \/ OnEnd
  \/ \E state \in Statuses, id \in Ids : OnStatus(state, id)

Next == RunnerSteps \/ Timeout \/ Events \/ Exited

Spec == Init /\ [][Next]_vars

\* The runner runs, its writes return, the timeout expires, and the Process
\* starts the child or fails to, and returns when ctx is done (StopReturns of ProcessRun).  The child owes nothing.
FairSpec ==
  Spec /\ WF_vars(RunnerSteps) /\ WF_vars(Timeout) /\ WF_vars(OnStart \/ OnStartError)

-----------------------------------------------------------------------------
(* Properties.                                                             *)

RecordStates == Statuses \union {"none"}

\* The fields have their types, and only text that is stripped is held back.
TypeOK ==
  /\ config \in Configs /\ relaying \in BOOLEAN /\ cancelled \in BOOLEAN
  /\ pc \in {"load", "execute", "format", "header", "iterate", "stopping",
             "finish", "done", "exited"}
  /\ latest \in DOMAIN ProcessOrder
  /\ states \in [Ids -> RecordStates \ {"clear"}]
  /\ terminal \in [Ids -> RecordStates \ {"clear"}]
  /\ timer.records \in [Ids -> Live \union {"none"}]
  /\ blocked \in BOOLEAN /\ err \in {"none", "start", "write"}
  /\ held \in 0 .. (IF Strips THEN 1 ELSE 0)
  /\ result \in {"pending", "ok", "error"}

\* "Stop the child and exit non-zero on the first blocked status": with
\* fail_on_blocked no event is consumed after a blocked status, the run fails in
\* every format, and its own record says so, also when the status was the root's
\* and overwrote that record, when ctx is done or a write fails at the same time.
BlockedFails ==
  /\ config.failOnBlocked /\ (\E id \in Ids : states[id] = "blocked") => blocked
  /\ blocked => /\ latest = "status" /\ pc # "iterate"
                /\ result # "ok"
                /\ relaying => terminal[""] = "error"

\* The three views of the statuses agree whatever the order of reports and
\* clears: the terminal has under the run's id what the tracker has of the child,
\* but for ids too deep for it, and the timer counts exactly the live ones.
ViewsAgree ==
  /\ relaying /\ pc # "exited" =>
       \A id \in Ids \ {""} :
         terminal[id] = IF id \in TooDeep THEN "none" ELSE states[id]
  /\ ~timer.closed =>
       \A id \in Ids :
         timer.records[id] = IF states[id] \in Live THEN states[id] ELSE "none"

\* No text is lost in silence: what is not part of a status report is written
\* before the runner returns, though the run is stopped in the middle of what might
\* have become one; if not, a write failed, and then the runner does not succeed.
TextComplete ==
  result # "pending" =>
    received = shown + stripped \/ (err = "write" /\ result = "error")

\* The runner returns, though the child never exits and no timeout is configured.
Terminates == <>(result # "pending")

\* "The runner also relays its own run record under the run id: working at start,
\* then done or error at end, which persists in the terminal after exit."
RunRecordPersists ==
  pc = "exited" /\ relaying /\ config.programStatus /\ latest # "begin"
    /\ latest # "startError" => terminal[""] \in {"done", "error"}

=============================================================================
