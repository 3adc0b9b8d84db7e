---------------------------- MODULE RunnerProofs ----------------------------
(***************************************************************************)
(* Theorems about Runner: its type invariant, that the first blocked status *)
(* fails the run, that the views of the statuses agree, and that no text is *)
(* lost; for all ids, whatever clears remove, and any number of events.     *)
(***************************************************************************)
EXTENDS Runner, StatusTimerProofs

\* What a record of the terminal or the tracker can hold.
Records == [Ids -> RecordStates \ {"clear"}]

\* The types, with those of the timer and of the history.
TypeInv ==
  /\ TypeOK
  /\ timer \in Timers
  /\ received \in Nat /\ stripped \in Nat /\ shown \in Nat /\ reports \in Nat

\* Where nothing has been consumed.
Before == {"load", "execute", "format", "header"}

\* Where the result is known.
Over == {"done", "exited"}

\* Every byte is shown, stripped or held unless a write failed, after which nothing
\* more is taken; a result comes with no byte held, and tells of the failure.
Accounted ==
  /\ received = shown + stripped + held \/ err = "write"
  /\ err # "none" => pc \in {"stopping", "finish"} \union Over
  /\ err # "none" /\ pc \in Over => result = "error"
  /\ result # "pending" <=> pc \in Over
  /\ pc \in Before \union Over => held = 0

\* Of the hidden steps of a blocked run: nothing is consumed before or after.
Blocking ==
  /\ BlockedFails
  /\ pc \in Before => ~blocked

\* The inductive invariant.
IInv == TypeInv /\ Accounted /\ Blocking /\ ViewsAgree

-----------------------------------------------------------------------------
(* Records.                                                                 *)

\* Put keeps the type of the records.
LEMMA PutTyped ==
  ASSUME NEW records \in Records, NEW state \in Statuses, NEW id \in Ids
  PROVE  Put(records, state, id) \in Records
BY DEF Put, Records, RecordStates, Statuses, Reports, Live

\* The run's own record is no other's.
LEMMA PutRunAt ==
  ASSUME TypeOK, NEW state \in {"working", "done", "error"}, PutRun(state)
  PROVE  /\ terminal' \in Records
         /\ \A id \in Ids \ {""} : terminal'[id] = terminal[id]
<1>1. terminal \in Records /\ state \in Statuses /\ state # "clear" /\ "" \in Ids
  BY ClearsAssumption DEF TypeOK, Records, Statuses, Reports, Live
<1>2. /\ Put(terminal, state, "") \in Records
      /\ \A id \in Ids \ {""} : Put(terminal, state, "")[id] = terminal[id]
  BY <1>1 DEF Put, Records, RecordStates, Statuses, Reports, Live
<1>. QED
  BY <1>1, <1>2 DEF PutRun

\* What a report leaves in the terminal under an id that is not the run's.
LEMMA ChildAt ==
  ASSUME TypeOK, NEW state \in Statuses, NEW id \in Ids
  PROVE  /\ Child(state, id) \in Records
         /\ relaying /\ (\A i \in Ids \ {""} :
                terminal[i] = IF i \in TooDeep THEN "none" ELSE states[i]) =>
              \A i \in Ids \ {""} :
                Child(state, id)[i] = IF i \in TooDeep THEN "none"
                                      ELSE Put(states, state, id)[i]
<1>1. terminal \in Records /\ states \in Records
  BY DEF TypeOK, Records
<1>2. Child(state, id) \in Records
  BY <1>1, PutTyped DEF Child
<1>3. ASSUME relaying, NEW i \in Ids \ {""},
             \A j \in Ids \ {""} : terminal[j] = IF j \in TooDeep THEN "none" ELSE states[j]
      PROVE  Child(state, id)[i] = IF i \in TooDeep THEN "none"
                                   ELSE Put(states, state, id)[i]
  <2>1. terminal[i] = IF i \in TooDeep THEN "none" ELSE states[i]
    BY <1>3
  <2> DEFINE shows == Put(terminal, state, id)
             tracks == Put(states, state, id)
  <2>2. /\ state # "clear" => shows[i] = IF i = id THEN state ELSE terminal[i]
        /\ state = "clear" => shows[i] = IF i \in Clears[id] THEN "none" ELSE terminal[i]
    BY <1>1 DEF Put, Records, RecordStates, Statuses, Reports, Live
  <2>3. /\ state # "clear" => tracks[i] = IF i = id THEN state ELSE states[i]
        /\ state = "clear" => tracks[i] = IF i \in Clears[id] THEN "none" ELSE states[i]
    BY <1>1 DEF Put, Records, RecordStates, Statuses, Reports, Live
  <2> HIDE DEF shows, tracks
  <2>4. CASE id \in TooDeep
    <3>1. Child(state, id) = terminal
      BY <2>4 DEF Child
    <3>2. Clears[id] \subseteq TooDeep
      BY <2>4, TooDeepAssumption
    <3>. QED
      BY <2>1, <2>3, <2>4, <3>1, <3>2 DEF tracks
  <2>5. CASE id \notin TooDeep
    <3>1. Child(state, id) = shows
      BY <1>3, <2>5 DEF Child, shows
    <3>. QED
      BY <2>1, <2>2, <2>3, <2>5, <3>1 DEF tracks
  <2>. QED
    BY <2>4, <2>5
<1>. QED
  BY <1>2, <1>3

\* An open timer counts the live ones of the records the tracker has.
LEMMA TimerFollows ==
  ASSUME TypeInv, NEW state \in Statuses, NEW id \in Ids,
         NEW tm, tm = Apply(timer, 0, state, id), ~tm.closed,
         ~timer.closed => \A i \in Ids :
           timer.records[i] = IF states[i] \in Live THEN states[i] ELSE "none"
  PROVE  \A i \in Ids : tm.records[i] =
           IF Put(states, state, id)[i] \in Live THEN Put(states, state, id)[i] ELSE "none"
<1>1. state \in Reports /\ states \in Records /\ timer \in Timers
  BY DEF TypeInv, TypeOK, Records, Statuses
<1>2. ~timer.closed /\ tm.records = Recorded(timer.records, state, id)
  BY <1>1, ApplyEffect
<1>3. timer.records \in TimerRecords
  BY <1>1 DEF Timers
<1> SUFFICES ASSUME NEW i \in Ids
             PROVE  tm.records[i] = IF Put(states, state, id)[i] \in Live
                                    THEN Put(states, state, id)[i] ELSE "none"
  OBVIOUS
<1> DEFINE tracks == Put(states, state, id)
<1>4. /\ state # "clear" => tracks[i] = IF i = id THEN state ELSE states[i]
      /\ state = "clear" => tracks[i] = IF i \in Clears[id] THEN "none" ELSE states[i]
  BY <1>1 DEF Put, Records, RecordStates, Statuses, Reports, Live
<1>5. timer.records[i] = IF states[i] \in Live THEN states[i] ELSE "none"
  BY <1>2
<1> HIDE DEF tracks
<1>6. tm.records[i] = IF tracks[i] \in Live THEN tracks[i] ELSE "none"
  <2>1. CASE state \in Live
    BY <1>2, <1>3, <1>4, <1>5, <2>1 DEF Recorded, TimerRecords, Live
  <2>2. CASE state \in {"done", "error"}
    BY <1>2, <1>3, <1>4, <1>5, <2>2 DEF Recorded, TimerRecords, Live
  <2>3. CASE state = "clear"
    BY <1>2, <1>3, <1>4, <1>5, <2>3 DEF Recorded, TimerRecords, Live
  <2>. QED
    BY <1>1, <2>1, <2>2, <2>3 DEF Statuses, Reports
<1>. QED
  BY <1>6 DEF tracks

-----------------------------------------------------------------------------
(* The invariant.                                                           *)

\* What an event leaves of the formatter, the terminal and the timer.
LEMMA OnStatusTyped ==
  ASSUME TypeInv, NEW state \in Statuses, NEW id \in Ids, OnStatus(state, id)
  PROVE  /\ states' \in Records /\ terminal' \in Records /\ timer' \in Timers
         /\ timer' = Apply(timer, 0, state, id)
<1>1. states \in Records /\ state \in Reports /\ timer \in Timers /\ "" \in Ids
  BY ClearsAssumption DEF TypeInv, TypeOK, Records, Statuses
<1>2. Child(state, id) \in Records
  BY ChildAt DEF TypeInv
<1>3. Put(Child(state, id), "error", "") \in Records
  BY <1>1, <1>2, PutTyped DEF Statuses, Reports, Live
<1>4. terminal' \in Records
  BY <1>2, <1>3 DEF OnStatus
<1>5. states' \in Records
  BY <1>1, PutTyped DEF OnStatus
<1>6. timer' = Apply(timer, 0, state, id)
  BY DEF OnStatus
<1>7. 0 \in Int
  OBVIOUS
<1>8. Apply(timer, 0, state, id) \in Timers
  BY <1>1, <1>7, ApplyEffect
<1>. QED
  BY <1>4, <1>5, <1>6, <1>8

\* The timer at the end of a run.
LEMMA Closed ==
  ASSUME TypeInv, timer' = IF config.programStatus THEN Close(timer, 0) ELSE timer
  PROVE  timer' \in Timers /\ (timer' = timer \/ timer'.closed)
BY CloseEffect DEF TypeInv

\* Every step keeps the types.
LEMMA TypeStep ==
  ASSUME TypeInv, [Next]_vars
  PROVE  TypeInv'
<1>1. CASE LoadConfig
  BY <1>1 DEF LoadConfig, Advance, Reject, vars, input, status, text, TypeInv, TypeOK, Records, Strips
<1>2. CASE ExecuteProcess
  BY <1>2 DEF ExecuteProcess, Advance, Reject, vars, input, status, text, TypeInv, TypeOK, Records, Strips
<1>3. CASE FormatOutput
  BY <1>3 DEF FormatOutput, Advance, Reject, vars, input, status, text, TypeInv, TypeOK, Records, Strips
<1>4. CASE Header
  BY <1>4 DEF Header, vars, input, status, text, TypeInv, TypeOK, Records, Strips
<1>5. CASE EventsEnd
  BY <1>5 DEF EventsEnd, vars, input, status, text, TypeInv, TypeOK, Records, Strips
<1>6. CASE StopChild
  BY <1>6 DEF StopChild, Advance, vars, input, status, text, TypeInv, TypeOK, Records, Strips
<1>7. CASE Finish
  <2>1. timer' \in Timers
    BY <1>7, Closed DEF Finish
  <2>2. /\ received' \in Nat /\ stripped' \in Nat /\ shown' \in Nat
        /\ held' \in 0 .. (IF Strips THEN 1 ELSE 0)
    BY <1>7 DEF Finish, Flushed, text, input, TypeInv, TypeOK, Records, Strips
  <2>. QED
    BY <1>7, <2>1, <2>2 DEF Finish, input, TypeInv, TypeOK, Records, Strips, Timers, TimerRecords, Counting
<1>8. CASE Exit
  <2>1. terminal' \in Records
    BY <1>8 DEF Exit, TypeInv, TypeOK, Records, RecordStates
  <2>. QED
    BY <1>8, <2>1 DEF Exit, input, text, TypeInv, TypeOK, Records, Strips
<1>9. CASE Timeout
  BY <1>9 DEF Timeout, vars, input, status, text, TypeInv, TypeOK, Records, Strips
<1>10. CASE OnStart
  <2>1. PutRun("working") /\ TypeOK
    BY <1>10 DEF OnStart, TypeInv
  <2>2. terminal' \in Records
    BY <2>1, PutRunAt
  <2>. QED
    BY <1>10, <2>2 DEF OnStart, Takes, Formats, ProcessOrder, vars, input, text, TypeInv, TypeOK, Records, Strips
<1>11. CASE OnStartError
  BY <1>11 DEF OnStartError, Takes, Formats, ProcessOrder, vars, input, status, text, TypeInv, TypeOK, Records, Strips
<1>12. CASE OnHeartbeat
  BY <1>12 DEF OnHeartbeat, Takes, Formats, ProcessOrder, vars, input, status, text, TypeInv, TypeOK, Records, Strips
<1>13. CASE OnOutput
  <2>1. /\ received' \in Nat /\ stripped' \in Nat /\ shown' \in Nat
        /\ held' \in 0 .. (IF Strips THEN 1 ELSE 0)
    <3>1. CASE Strips
      <4>1. PICK known \in 0 .. held, hold \in 0 .. 1 :
              /\ stripped' = stripped + known
              /\ held' = hold
              /\ shown' = shown + (held - known) + (1 - hold)
              /\ received' = received + 1
        BY <1>13, <3>1 DEF OnOutput
      <4>2. held \in Nat /\ known \in Nat /\ hold \in Nat /\ held - known \in Nat /\ 1 - hold \in Nat
        BY <3>1 DEF TypeInv, TypeOK
      <4>. QED
        BY <3>1, <4>1, <4>2 DEF TypeInv
    <3>2. CASE ~Strips
      BY <1>13, <3>2 DEF OnOutput, TypeInv, TypeOK
    <3>. QED
      BY <3>1, <3>2
  <2>. QED
    BY <1>13, <2>1 DEF OnOutput, Takes, Formats, ProcessOrder, vars, input, status, TypeInv, TypeOK, Records, Strips
<1>14. CASE OnEnd
  <2>1. PICK event \in {"end", "error"}, success \in BOOLEAN :
          /\ Takes(event)
          /\ PutRun(IF event = "end" /\ success THEN "done" ELSE "error")
          /\ Formats(event)
    BY <1>14 DEF OnEnd
  <2>2. terminal' \in Records
    BY <2>1, PutRunAt DEF TypeInv
  <2>3. timer' \in Timers
    BY <1>14, Closed DEF OnEnd
  <2>4. /\ received' \in Nat /\ stripped' \in Nat /\ shown' \in Nat
        /\ held' \in 0 .. (IF Strips THEN 1 ELSE 0)
    BY <1>14 DEF OnEnd, Flushed, text, TypeInv, TypeOK, Records, Strips
  <2>5. latest' = event /\ pc' \in {pc, "stopping"} /\ err' \in {err, "write"}
    BY <2>1 DEF Takes, Formats
  <2>6. latest' \in DOMAIN ProcessOrder
    BY <2>1, <2>5 DEF ProcessOrder
  <2>. QED
    BY <1>14, <2>2, <2>3, <2>4, <2>5, <2>6 DEF OnEnd, vars, input, TypeInv, TypeOK, Records, Strips, Timers, TimerRecords, Counting
<1>15. ASSUME NEW state \in Statuses, NEW id \in Ids, OnStatus(state, id)
      PROVE  TypeInv'
  <2>1. states' \in Records /\ terminal' \in Records /\ timer' \in Timers
    BY <1>15, OnStatusTyped
  <2>2. /\ latest' = "status" /\ pc' \in {pc, "stopping"} /\ err' \in {err, "write"}
        /\ blocked' \in BOOLEAN
    BY <1>15 DEF OnStatus, Takes, Formats, TypeInv, TypeOK
  <2>3. timer'.records \in [Ids -> Live \union {"none"}]
    BY <2>1 DEF Timers, TimerRecords, Counting
  <2>4. latest' \in DOMAIN ProcessOrder
    BY <2>2 DEF ProcessOrder
  <2>5. reports' = reports + 1
    BY <1>15 DEF OnStatus
  <2>6. UNCHANGED <<input, cancelled, text, result>>
    BY <1>15 DEF OnStatus
  <2>7. reports' \in Nat
    BY <2>5 DEF TypeInv
  <2>. QED
    BY <2>1, <2>2, <2>3, <2>4, <2>6, <2>7 DEF input, text, TypeInv, TypeOK, Records, Strips
<1>16. CASE UNCHANGED vars
  BY <1>16 DEF vars, input, status, text, TypeInv, TypeOK, Records, Strips
<1>. QED
  BY <1>1, <1>2, <1>3, <1>4, <1>5, <1>6, <1>7, <1>8, <1>9, <1>10, <1>11, <1>12, <1>13, <1>14, <1>15, <1>16 DEF Next, RunnerSteps, Events, Exited

\* Every step keeps account of the text.
LEMMA AccountedStep ==
  ASSUME TypeInv, Accounted, [Next]_vars
  PROVE  Accounted'
<1>1. CASE LoadConfig
  BY <1>1 DEF LoadConfig, Advance, Reject, vars, input, status, text, Accounted, Before, Over, TypeInv, TypeOK, Strips
<1>2. CASE ExecuteProcess
  BY <1>2 DEF ExecuteProcess, Advance, Reject, vars, input, status, text, Accounted, Before, Over, TypeInv, TypeOK, Strips
<1>3. CASE FormatOutput
  BY <1>3 DEF FormatOutput, Advance, Reject, vars, input, status, text, Accounted, Before, Over, TypeInv, TypeOK, Strips
<1>4. CASE Header
  BY <1>4 DEF Header, vars, input, status, text, Accounted, Before, Over, TypeInv, TypeOK, Strips
<1>5. CASE EventsEnd
  BY <1>5 DEF EventsEnd, vars, input, status, text, Accounted, Before, Over, TypeInv, TypeOK, Strips
<1>6. CASE StopChild
  BY <1>6 DEF StopChild, Advance, vars, input, status, text, Accounted, Before, Over, TypeInv, TypeOK, Strips
<1>7. CASE Finish
  <2>1. held' = 0 /\ (received' = shown' + stripped' + held' \/ err' = "write")
    BY <1>7 DEF Finish, Flushed, text, Accounted, TypeInv, TypeOK
  <2>. QED
    BY <1>7, <2>1 DEF Finish, Accounted, Before, Over
<1>8. CASE Exit
  BY <1>8 DEF Exit, vars, input, status, text, Accounted, Before, Over, TypeInv, TypeOK, Strips
<1>9. CASE Timeout
  BY <1>9 DEF Timeout, vars, input, status, text, Accounted, Before, Over, TypeInv, TypeOK, Strips
<1>10. CASE OnStart
  BY <1>10 DEF OnStart, Takes, Formats, vars, input, status, text, Accounted, Before, Over, TypeInv, TypeOK, Strips
<1>11. CASE OnStartError
  BY <1>11 DEF OnStartError, Takes, Formats, vars, input, status, text, Accounted, Before, Over, TypeInv, TypeOK, Strips
<1>12. CASE OnHeartbeat
  BY <1>12 DEF OnHeartbeat, Takes, Formats, vars, input, status, text, Accounted, Before, Over, TypeInv, TypeOK, Strips
<1>13. CASE OnOutput
  <2>1. pc = "iterate" /\ pc' \in {"iterate", "stopping"} /\ UNCHANGED result
    BY <1>13 DEF OnOutput, Takes, Formats
  <2>2. err = "none" /\ received = shown + stripped + held
    BY <2>1 DEF Accounted, Over
  <2>3. err' # "none" => err' = "write" /\ pc' = "stopping"
    BY <1>13, <2>2 DEF OnOutput, Formats
  <2>4. received' = shown' + stripped' + held' \/ err' = "write"
    <3>1. CASE Strips
      BY <1>13, <2>2, <3>1 DEF OnOutput, TypeInv, TypeOK
    <3>2. CASE ~Strips
      <4>1. /\ received' = received + 1 /\ UNCHANGED <<held, stripped>>
            /\ shown' = IF pc' = "stopping" THEN shown ELSE shown + 1
        BY <1>13, <3>2 DEF OnOutput
      <4>2. pc' = "stopping" => err' = "write"
        BY <1>13, <2>1 DEF OnOutput, Formats
      <4>. QED
        BY <2>2, <4>1, <4>2 DEF TypeInv, TypeOK
    <3>. QED
      BY <3>1, <3>2
  <2>. QED
    BY <2>1, <2>3, <2>4 DEF Accounted, Before, Over
<1>14. CASE OnEnd
  <2>1. pc = "iterate" /\ pc' \in {"iterate", "stopping"} /\ UNCHANGED result
    BY <1>14 DEF OnEnd, Takes, Formats
  <2>2. err = "none" /\ received = shown + stripped + held
    BY <2>1 DEF Accounted, Over
  <2>3. err' # "none" => pc' = "stopping"
    BY <1>14, <2>2 DEF OnEnd, Formats
  <2>4. received' = shown' + stripped' + held'
    BY <1>14, <2>2 DEF OnEnd, Flushed, text, TypeInv, TypeOK
  <2>. QED
    BY <2>1, <2>3, <2>4 DEF Accounted, Before, Over
<1>15. ASSUME NEW state \in Statuses, NEW id \in Ids, OnStatus(state, id)
      PROVE  Accounted'
  BY <1>15 DEF OnStatus, Takes, Formats, vars, input, status, text, Accounted, Before, Over, TypeInv, TypeOK, Strips
<1>16. CASE UNCHANGED vars
  BY <1>16 DEF vars, input, status, text, Accounted, Before, Over, TypeInv, TypeOK, Strips
<1>. QED
  BY <1>1, <1>2, <1>3, <1>4, <1>5, <1>6, <1>7, <1>8, <1>9, <1>10, <1>11, <1>12, <1>13, <1>14, <1>15, <1>16 DEF Next, RunnerSteps, Events, Exited

\* Every step keeps what is said of blocked statuses.
LEMMA BlockingStep ==
  ASSUME TypeInv, Accounted, Blocking, [Next]_vars
  PROVE  Blocking'
<1>1. CASE LoadConfig
  <2>1. /\ pc \in Before /\ UNCHANGED <<config, relaying, blocked, states, latest, terminal>>
        /\ pc' \in {"execute", "format", "header", "iterate", "done"}
        /\ result' \in {result, "error"}
    BY <1>1 DEF LoadConfig, Advance, Reject, input, status, Before
  <2>. QED
    BY <2>1 DEF Blocking, BlockedFails, Before
<1>2. CASE ExecuteProcess
  <2>1. /\ pc \in Before /\ UNCHANGED <<config, relaying, blocked, states, latest, terminal>>
        /\ pc' \in {"execute", "format", "header", "iterate", "done"}
        /\ result' \in {result, "error"}
    BY <1>2 DEF ExecuteProcess, Advance, Reject, input, status, Before
  <2>. QED
    BY <2>1 DEF Blocking, BlockedFails, Before
<1>3. CASE FormatOutput
  <2>1. /\ pc \in Before /\ UNCHANGED <<config, relaying, blocked, states, latest, terminal>>
        /\ pc' \in {"execute", "format", "header", "iterate", "done"}
        /\ result' \in {result, "error"}
    BY <1>3 DEF FormatOutput, Advance, Reject, input, status, Before
  <2>. QED
    BY <2>1 DEF Blocking, BlockedFails, Before
<1>4. CASE Header
  BY <1>4 DEF Header, vars, input, status, text, Blocking, BlockedFails, Before, TypeInv, TypeOK, Accounted, Over
<1>5. CASE EventsEnd
  BY <1>5 DEF EventsEnd, vars, input, status, text, Blocking, BlockedFails, Before, TypeInv, TypeOK, Accounted, Over
<1>6. CASE StopChild
  BY <1>6 DEF StopChild, Advance, vars, input, status, text, Blocking, BlockedFails, Before, TypeInv, TypeOK, Accounted, Over
<1>7. CASE Finish
  BY <1>7 DEF Finish, Flushed, vars, input, status, text, Blocking, BlockedFails, Before, TypeInv, TypeOK, Accounted, Over
<1>8. CASE Exit
  <2>1. "" \in Ids
    BY ClearsAssumption
  <2>. QED
    BY <1>8, <2>1 DEF Exit, input, Blocking, BlockedFails, Before, TypeInv, TypeOK, Accounted, Over
<1>9. CASE Timeout
  BY <1>9 DEF Timeout, vars, input, status, text, Blocking, BlockedFails, Before, TypeInv, TypeOK, Accounted, Over
<1>10. CASE OnStart
  <2>1. pc = "iterate" /\ pc' \in {"iterate", "stopping"} /\ UNCHANGED <<config, states, blocked>>
    BY <1>10 DEF OnStart, Takes, Formats, input
  <2>. QED
    BY <2>1 DEF Blocking, BlockedFails, Before
<1>11. CASE OnStartError
  <2>1. pc = "iterate" /\ pc' \in {"iterate", "stopping"} /\ UNCHANGED <<config, states, blocked>>
    BY <1>11 DEF OnStartError, Takes, Formats, input, status
  <2>. QED
    BY <2>1 DEF Blocking, BlockedFails, Before
<1>12. CASE OnHeartbeat
  <2>1. pc = "iterate" /\ pc' \in {"iterate", "stopping"} /\ UNCHANGED <<config, states, blocked>>
    BY <1>12 DEF OnHeartbeat, Takes, Formats, input, status
  <2>. QED
    BY <2>1 DEF Blocking, BlockedFails, Before
<1>13. CASE OnOutput
  <2>1. pc = "iterate" /\ pc' \in {"iterate", "stopping"} /\ UNCHANGED <<config, states, blocked>>
    BY <1>13 DEF OnOutput, Takes, Formats, input, status
  <2>. QED
    BY <2>1 DEF Blocking, BlockedFails, Before
<1>14. CASE OnEnd
  <2>1. pc = "iterate" /\ pc' \in {"iterate", "stopping"} /\ UNCHANGED <<config, states, blocked>>
    BY <1>14 DEF OnEnd, Takes, Formats, input, status
  <2>. QED
    BY <2>1 DEF Blocking, BlockedFails, Before
<1>15. ASSUME NEW state \in Statuses, NEW id \in Ids, OnStatus(state, id)
      PROVE  Blocking'
  <2>1. /\ pc = "iterate" /\ pc' \in {"iterate", "stopping"} /\ UNCHANGED <<input, result>>
        /\ ~blocked /\ result = "pending" /\ latest' = "status"
        /\ states' = Put(states, state, id)
    BY <1>15 DEF OnStatus, Takes, Formats, Blocking, BlockedFails, Accounted, Over
  <2> DEFINE blocking == config.failOnBlocked /\ state = "blocked"
  <2>2. CASE blocking
    <3>1. blocked' /\ pc' = "stopping"
      BY <1>15, <2>2 DEF OnStatus
    <3>2. relaying => terminal'[""] = "error"
      <4>1. Child(state, id) \in Records /\ "" \in Ids
        BY ChildAt, ClearsAssumption DEF TypeInv
      <4>2. Put(Child(state, id), "error", "")[""] = "error"
        BY <4>1 DEF Put, Records
      <4>. QED
        BY <1>15, <2>2, <4>2 DEF OnStatus
    <3>. QED
      BY <2>1, <3>1, <3>2 DEF Blocking, BlockedFails, Before, input
  <2>3. CASE ~blocking
    <3>1. blocked' = FALSE
      BY <1>15, <2>1, <2>3 DEF OnStatus, TypeInv, TypeOK
    <3>2. ASSUME config.failOnBlocked, NEW i \in Ids
          PROVE  states'[i] # "blocked"
      <4>1. state # "blocked" /\ states[i] # "blocked"
        BY <2>1, <2>3, <3>2 DEF Blocking, BlockedFails
      <4>. QED
        BY <2>1, <4>1 DEF Put, TypeInv, TypeOK
    <3>. QED
      BY <2>1, <3>1, <3>2 DEF Blocking, BlockedFails, input
  <2>. QED
    BY <2>2, <2>3
<1>16. CASE UNCHANGED vars
  BY <1>16 DEF vars, input, status, text, Blocking, BlockedFails, Before, TypeInv, TypeOK, Accounted, Over
<1>. QED
  BY <1>1, <1>2, <1>3, <1>4, <1>5, <1>6, <1>7, <1>8, <1>9, <1>10, <1>11, <1>12, <1>13, <1>14, <1>15, <1>16 DEF Next, RunnerSteps, Events, Exited

\* Every step keeps the views together.
LEMMA ViewsStep ==
  ASSUME TypeInv, ViewsAgree, [Next]_vars
  PROVE  ViewsAgree'
<1>1. CASE LoadConfig
  <2>1. /\ pc # "exited" /\ UNCHANGED <<relaying, states, timer, terminal>>
    BY <1>1 DEF LoadConfig, Advance, Reject, input, status
  <2>. QED
    BY <2>1 DEF ViewsAgree
<1>2. CASE ExecuteProcess
  <2>1. /\ pc # "exited" /\ UNCHANGED <<relaying, states, timer, terminal>>
    BY <1>2 DEF ExecuteProcess, Advance, Reject, input, status
  <2>. QED
    BY <2>1 DEF ViewsAgree
<1>3. CASE FormatOutput
  <2>1. /\ pc # "exited" /\ UNCHANGED <<relaying, states, timer, terminal>>
    BY <1>3 DEF FormatOutput, Advance, Reject, input, status
  <2>. QED
    BY <2>1 DEF ViewsAgree
<1>4. CASE Header
  BY <1>4 DEF Header, vars, input, status, text, ViewsAgree
<1>5. CASE EventsEnd
  BY <1>5 DEF EventsEnd, vars, input, status, text, ViewsAgree
<1>6. CASE StopChild
  BY <1>6 DEF StopChild, Advance, vars, input, status, text, ViewsAgree
<1>7. CASE Finish
  <2>1. UNCHANGED <<relaying, states, terminal>> /\ pc = "finish"
    BY <1>7 DEF Finish, input
  <2>2. timer' = timer \/ timer'.closed
    BY <1>7, Closed DEF Finish
  <2>. QED
    BY <2>1, <2>2 DEF ViewsAgree
<1>8. CASE Exit
  BY <1>8 DEF Exit, vars, input, status, text, ViewsAgree
<1>9. CASE Timeout
  BY <1>9 DEF Timeout, vars, input, status, text, ViewsAgree
<1>10. CASE OnStart
  <2>1. /\ UNCHANGED <<relaying, states, timer>> /\ pc = "iterate"
        /\ PutRun("working") /\ TypeOK
    BY <1>10 DEF OnStart, Takes, input, TypeInv
  <2>2. \A id \in Ids \ {""} : terminal'[id] = terminal[id]
    BY <2>1, PutRunAt
  <2>. QED
    BY <2>1, <2>2 DEF ViewsAgree
<1>11. CASE OnStartError
  BY <1>11 DEF OnStartError, Takes, input, status, ViewsAgree
<1>12. CASE OnHeartbeat
  BY <1>12 DEF OnHeartbeat, Takes, input, status, ViewsAgree
<1>13. CASE OnOutput
  BY <1>13 DEF OnOutput, Takes, input, status, ViewsAgree
<1>14. CASE OnEnd
  <2>1. UNCHANGED <<relaying, states>> /\ pc = "iterate"
    BY <1>14 DEF OnEnd, Takes, input
  <2>2. timer' = timer \/ timer'.closed
    BY <1>14, Closed DEF OnEnd
  <2>3. \A id \in Ids \ {""} : terminal'[id] = terminal[id]
    BY <1>14, PutRunAt DEF OnEnd, TypeInv
  <2>. QED
    BY <2>1, <2>2, <2>3 DEF ViewsAgree
<1>15. ASSUME NEW state \in Statuses, NEW id \in Ids, OnStatus(state, id)
      PROVE  ViewsAgree'
  <2>1. /\ UNCHANGED relaying /\ pc = "iterate" /\ TypeOK
        /\ states' = Put(states, state, id) /\ timer' = Apply(timer, 0, state, id)
    BY <1>15 DEF OnStatus, Takes, input, TypeInv
  <2>2. ASSUME relaying, NEW i \in Ids \ {""}
        PROVE  terminal'[i] = IF i \in TooDeep THEN "none" ELSE states'[i]
    <3>1. \A j \in Ids \ {""} : terminal[j] = IF j \in TooDeep THEN "none" ELSE states[j]
      BY <2>1, <2>2 DEF ViewsAgree
    <3>2. /\ Child(state, id) \in Records
          /\ Child(state, id)[i] = IF i \in TooDeep THEN "none" ELSE states'[i]
      BY <2>1, <2>2, <3>1, ChildAt
    <3>3. Put(Child(state, id), "error", "")[i] = Child(state, id)[i]
      BY <2>2, <3>2 DEF Put, Records
    <3>4. terminal' \in {Child(state, id), Put(Child(state, id), "error", "")}
      BY <1>15 DEF OnStatus
    <3>. QED
      BY <3>2, <3>3, <3>4
  <2>3. ASSUME ~timer'.closed
        PROVE  \A i \in Ids : timer'.records[i] =
                 IF states'[i] \in Live THEN states'[i] ELSE "none"
    BY <2>1, <2>3, TimerFollows DEF ViewsAgree
  <2>. QED
    BY <2>1, <2>2, <2>3 DEF ViewsAgree
<1>16. CASE UNCHANGED vars
  BY <1>16 DEF vars, input, status, text, ViewsAgree
<1>. QED
  BY <1>1, <1>2, <1>3, <1>4, <1>5, <1>6, <1>7, <1>8, <1>9, <1>10, <1>11, <1>12, <1>13, <1>14, <1>15, <1>16 DEF Next, RunnerSteps, Events, Exited

\* The invariant holds initially.
LEMMA InitHolds == Init => IInv
<1> SUFFICES ASSUME Init PROVE IInv
  OBVIOUS
<1>1. TypeInv
  <2>1. timer \in Timers /\ timer.records = [id \in Ids |-> "none"]
    BY NewTimerTyped DEF Init, NewTimer
  <2>2. 0 \in 0 .. (IF Strips THEN 1 ELSE 0) /\ 0 \in Nat
    OBVIOUS
  <2>. QED
    BY <2>1, <2>2 DEF Init, TypeInv, TypeOK, ProcessOrder, RecordStates
<1>2. Accounted
  BY DEF Init, Accounted, Before, Over
<1>3. Blocking
  BY DEF Init, Blocking, BlockedFails
<1>4. ViewsAgree
  BY DEF Init, ViewsAgree, NewTimer, Live
<1>. QED
  BY <1>1, <1>2, <1>3, <1>4 DEF IInv

-----------------------------------------------------------------------------
(* The theorems.                                                            *)

\* The inductive invariant holds of the specification.
THEOREM InvariantHolds == Spec => []IInv
<1>1. IInv /\ [Next]_vars => IInv'
  BY TypeStep, AccountedStep, BlockingStep, ViewsStep DEF IInv
<1>. QED
  BY InitHolds, <1>1, PTL DEF Spec

\* The runner's fields keep their types, and only text that is stripped of status
\* sequences is ever held back.
THEOREM TypeCorrect == Spec => []TypeOK
<1>1. IInv => TypeOK
  BY DEF IInv, TypeInv
<1>. QED
  BY InvariantHolds, <1>1, PTL

\* With fail_on_blocked the first blocked status ends the run: no event is
\* consumed after it, runExec does not succeed, and the terminal's record of the
\* run says "error", whichever id was blocked and whatever fails meanwhile.
THEOREM BlockedRunFails == Spec => []BlockedFails
<1>1. IInv => BlockedFails
  BY DEF IInv, Blocking
<1>. QED
  BY InvariantHolds, <1>1, PTL

\* After any sequence of reports and clears the terminal, the tracker and the
\* timer tell the same of every id, those too deep for the terminal excepted.
THEOREM StatusViewsAgree == Spec => []ViewsAgree
<1>1. IInv => ViewsAgree
  BY DEF IInv, ViewsAgree
<1>. QED
  BY InvariantHolds, <1>1, PTL

\* What runExec received of output and did not strip it has written when it
\* returns, wherever the events ended, or a write failed and it returns an error.
THEOREM NoTextLost == Spec => []TextComplete
<1>1. IInv => TextComplete
  BY DEF IInv, Accounted, TextComplete, Over, TypeInv, TypeOK
<1>. QED
  BY InvariantHolds, <1>1, PTL

=============================================================================
