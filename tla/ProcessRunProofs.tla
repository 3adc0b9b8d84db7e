--------------------------- MODULE ProcessRunProofs ---------------------------
(***************************************************************************)
(* Theorems about Process.run with its Cancellor (ProcessRun.tla), for any *)
(* set of descendants, every kind of Cancellor and every bound: the type    *)
(* invariant, that the iterator keeps the promise of RunEvents, that the    *)
(* end event comes after all output, that no goroutine outlives a return,   *)
(* and that a stop by LocalCancellor leaves nobody of the group.            *)
(***************************************************************************)
EXTENDS ProcessRun, SequenceTheorems, TLAPS

-----------------------------------------------------------------------------
(* What RunEvents promises, and its lemmas, with the table of a run.       *)

Promise == INSTANCE RunEventsProofs WITH
  Follows <- ProcessOrder, Finals <- ProcessFinals, returned <- pc = "returned"

-----------------------------------------------------------------------------
(* The inductive invariant.                                                *)

\* A table the operating system can be in.
Sound(t) ==
  /\ t \in TableType
  /\ t.alive \subseteq t.born /\ t.doomed \subseteq t.alive
  /\ t.holders \subseteq t.alive /\ t.group \subseteq t.born
  /\ t.zombie => Leader \in t.born \ t.alive

\* What the processes, and the signals sent to them, never undo: the leader once
\* born and once reaped stays so, and nobody comes back to the output or to the
\* group.
Ages(t, u) ==
  /\ Leader \in t.born <=> Leader \in u.born
  /\ Reaped(t) => Reaped(u)
  /\ t.holders = {} => u.holders = {}
  /\ GroupAlive(t) = {} => GroupAlive(u) = {}
  /\ GroupAlive(t) \subseteq t.doomed => GroupAlive(u) \subseteq u.doomed
  /\ t = NoProcesses => u = NoProcesses

Streaming == {"stream", "final"}
Stopping == {"stop", "killChild", "term", "poll", "kill", "closeOut", "waitExited"}
Leaving == {"cleanup", "join", "returned"}

\* The place of the caller's goroutine says which event was the latest, that the
\* consumer still listens, and why the goroutine left.
Place ==
  /\ log \in Seq(DOMAIN ProcessOrder)
  /\ pc \in {"begin", "started"} => log = << >> /\ ~broke
  /\ pc \in Streaming => Events!Latest \in {"start", "output"} /\ ~broke
  /\ pc \in Stopping => Events!Latest \in {"start", "output"} /\ (broke \/ cancelled)
  /\ pc \in Leaving =>
       \/ Events!Latest \in {"start", "output"} /\ (broke \/ cancelled)
       \/ Events!Latest \in EndEvents
       \/ Events!Latest = "startError" /\ pc = "returned"
  /\ Events!Latest = "startError" => log = <<"startError">>

\* Nothing runs before the start or after a failed one; out is open from the
\* start until stop or the deferred close.
Start ==
  /\ pc = "begin" \/ Events!Latest = "startError" =>
       /\ os = NoProcesses /\ target = "group" /\ ~outOpen
       /\ reader = "finished" /\ reaper = "finished" /\ replier = "finished"
  /\ pc # "begin" /\ Events!Latest # "startError" => Leader \in os.born
  /\ pc \in {"started"} \union Streaming \union (Stopping \ {"waitExited"}) => outOpen

\* The reaper is past the wait only with the child reaped, and sends done only
\* when the reader is through; the caller's goroutine leaves after that.
Reaping ==
  /\ Leader \in os.born /\ reaper # "waiting" => Reaped(os)
  /\ DoneSent => reader = "finished"
  /\ pc \in {"final"} \union Leaving => DoneSent
  /\ pc \in Leaving /\ Events!Latest \in {"start", "output"} => reaper = "finished"
  /\ pc = "returned" => replier = "finished"

\* A reader that finished while out was open had read everything.
Drained ==
  /\ reader = "finished" /\ outOpen => copied = written /\ os.holders = {}
  /\ EndAfterOutput

\* The stop is past the last signal: the loop did not end by itself.
Signalled ==
  \/ pc \in {"closeOut", "waitExited"}
  \/ pc \in Leaving /\ Events!Latest \in {"start", "output"}

\* The bare pid is signalled only when the group was empty, and after the last
\* signal nobody in the group is safe.
Group ==
  /\ target = "pid" => GroupAlive(os) = {}
  /\ pc = "killChild" => cancellor = "none"
  /\ Signalled /\ cancellor = "local" => GroupAlive(os) \subseteq os.doomed

IInv == Place /\ Start /\ Reaping /\ Drained /\ Group

-----------------------------------------------------------------------------
(* The operations of the process table.                                    *)

\* The table before the start is sound, and so is one with a child just started.
LEMMA FirstTables ==
  /\ Sound(NoProcesses) /\ Sound(Started) /\ ~Reaped(NoProcesses)
  /\ Leader \notin NoProcesses.born /\ Leader \in Started.born
  /\ GroupAlive(NoProcesses) = {} /\ NoProcesses.alive = {} /\ NoProcesses.holders = {}
  /\ ~NoProcesses.zombie /\ ~Started.zombie
BY KinAssumption
   DEF Sound, NoProcesses, Started, TableType, Procs, Reaped, GroupAlive

\* A fork by a process that has no SIGKILL pending.
LEMMA ForkAges ==
  ASSUME NEW t, Sound(t), NEW parent \in t.alive \ t.doomed, NEW p \in Kin \ t.born
  PROVE  Sound(Fork(t, parent, p)) /\ Ages(t, Fork(t, parent, p))
<1> DEFINE u == Fork(t, parent, p)
<1>1. /\ u \in TableType
      /\ u.alive = t.alive \union {p} /\ u.born = t.born \union {p}
      /\ u.group = IF parent \in t.group THEN t.group \union {p} ELSE t.group
      /\ u.holders = IF parent \in t.holders THEN t.holders \union {p} ELSE t.holders
      /\ u.doomed = t.doomed /\ u.zombie = t.zombie
  BY DEF Sound, TableType, Fork, Procs
<1>2. p # Leader /\ t # NoProcesses
  BY KinAssumption DEF NoProcesses
<1> HIDE DEF u
<1>3. Sound(u)
  BY <1>1, <1>2 DEF Sound
<1>4. parent \in t.group => parent \in GroupAlive(t) \ t.doomed
  BY DEF GroupAlive
<1>5. /\ GroupAlive(t) = {} => GroupAlive(u) = {}
      /\ GroupAlive(t) \subseteq t.doomed => GroupAlive(u) \subseteq u.doomed
  <2>1. CASE parent \in t.group
    BY <1>4, <2>1
  <2>2. CASE parent \notin t.group /\ p \notin t.group
    BY <1>1, <2>2 DEF GroupAlive
  <2>3. p \notin t.group
    BY DEF Sound
  <2>4. QED
    BY <2>1, <2>2, <2>3
<1>6. t.holders = {} => u.holders = {}
  BY <1>1
<1>7. (Leader \in t.born <=> Leader \in u.born) /\ (Reaped(t) => Reaped(u))
  BY <1>1, <1>2 DEF Reaped
<1>8. QED
  BY <1>2, <1>3, <1>5, <1>6, <1>7 DEF u, Ages

\* A descendant leaves the group.
LEMMA LeaveAges ==
  ASSUME NEW t, Sound(t), NEW p \in t.alive
  PROVE  Sound(Leave(t, p)) /\ Ages(t, Leave(t, p))
<1> DEFINE u == Leave(t, p)
<1>1. /\ u \in TableType /\ u.group = t.group \ {p}
      /\ u.alive = t.alive /\ u.born = t.born /\ u.holders = t.holders
      /\ u.doomed = t.doomed /\ u.zombie = t.zombie
  BY DEF Sound, TableType, Leave
<1>2. t # NoProcesses
  BY DEF NoProcesses
<1> HIDE DEF u
<1>3. QED
  BY <1>1, <1>2 DEF Sound, Ages, Reaped, GroupAlive, u

\* A process closes the output.
LEMMA CloseOutputAges ==
  ASSUME NEW t, Sound(t), NEW p \in t.alive
  PROVE  Sound(CloseOutput(t, p)) /\ Ages(t, CloseOutput(t, p))
<1> DEFINE u == CloseOutput(t, p)
<1>1. /\ u \in TableType /\ u.holders = t.holders \ {p}
      /\ u.alive = t.alive /\ u.born = t.born /\ u.group = t.group
      /\ u.doomed = t.doomed /\ u.zombie = t.zombie
  BY DEF Sound, TableType, CloseOutput
<1>2. t # NoProcesses
  BY DEF NoProcesses
<1> HIDE DEF u
<1>3. QED
  BY <1>1, <1>2 DEF Sound, Ages, Reaped, GroupAlive, u

\* Processes die, of their own or by a signal.
LEMMA DieAges ==
  ASSUME NEW t, Sound(t), NEW dead \in SUBSET t.alive
  PROVE  Sound(Die(t, dead)) /\ Ages(t, Die(t, dead))
<1> DEFINE u == Die(t, dead)
<1>1. /\ u \in TableType /\ u.alive = t.alive \ dead /\ u.holders = t.holders \ dead
      /\ u.doomed = t.doomed \ dead /\ u.born = t.born /\ u.group = t.group
      /\ u.zombie = (t.zombie \/ Leader \in dead) /\ u.stranger = t.stranger
  BY DEF Sound, TableType, Die
<1>2. t = NoProcesses => u = NoProcesses
  <2>1. SUFFICES ASSUME t = NoProcesses
                 PROVE  u = NoProcesses
    OBVIOUS
  <2>2. dead = {}
    BY <2>1 DEF NoProcesses
  <2>3. /\ u.alive = {} /\ u.holders = {} /\ u.doomed = {} /\ u.born = {}
        /\ u.group = {} /\ u.zombie = FALSE /\ u.stranger = "none"
    BY <1>1, <2>1, <2>2 DEF NoProcesses
  <2> HIDE DEF u
  <2>4. QED
    BY <1>1, <2>3 DEF NoProcesses, TableType
<1> HIDE DEF u
<1>3. Sound(u)
  BY <1>1 DEF Sound
<1>4. Ages(t, u)
  BY <1>1, <1>2 DEF Sound, Ages, Reaped, GroupAlive
<1>5. QED
  BY <1>3, <1>4 DEF u

\* The pid of the leader goes to a stranger.
LEMMA RecycleAges ==
  ASSUME NEW t, Sound(t), CanRecycle(t), NEW s \in {"member", "leader"}
  PROVE  Sound([t EXCEPT !.stranger = s]) /\ Ages(t, [t EXCEPT !.stranger = s])
<1> DEFINE u == [t EXCEPT !.stranger = s]
<1>1. /\ u \in TableType /\ u.holders = t.holders
      /\ u.alive = t.alive /\ u.born = t.born /\ u.group = t.group
      /\ u.doomed = t.doomed /\ u.zombie = t.zombie
  BY DEF Sound, TableType
<1>2. t # NoProcesses
  BY DEF NoProcesses, CanRecycle, Reaped
<1> HIDE DEF u
<1>3. QED
  BY <1>1, <1>2 DEF Sound, Ages, Reaped, GroupAlive, u

\* The wait for a zombie leader reaps it.
LEMMA WaitAges ==
  ASSUME NEW t, Sound(t), t.zombie
  PROVE  Sound(Wait(t)) /\ Ages(t, Wait(t)) /\ Reaped(Wait(t))
<1> DEFINE u == Wait(t)
<1>1. /\ u \in TableType /\ u.holders = t.holders
      /\ u.alive = t.alive /\ u.born = t.born /\ u.group = t.group
      /\ u.doomed = t.doomed /\ u.zombie = FALSE
  BY DEF Sound, TableType, Wait
<1>2. t # NoProcesses
  BY DEF NoProcesses
<1> HIDE DEF u
<1>3. QED
  BY <1>1, <1>2 DEF Sound, Ages, Reaped, GroupAlive, u

\* A SIGKILL is pending for the victims, whichever they are.
LEMMA KilledAges ==
  ASSUME NEW t, Sound(t), NEW to \in {"group", "pid"}
  PROVE  /\ Sound(Killed(t, to)) /\ Ages(t, Killed(t, to))
         /\ to = "group" => GroupAlive(Killed(t, to)) \subseteq Killed(t, to).doomed
<1> DEFINE u == Killed(t, to)
<1>1. Victims(t, to) \subseteq t.alive
  BY DEF Victims, GroupAlive
<1>2. /\ u \in TableType /\ u.holders = t.holders
      /\ u.alive = t.alive /\ u.born = t.born /\ u.group = t.group
      /\ u.doomed = t.doomed \union Victims(t, to) /\ u.zombie = t.zombie
  BY <1>1 DEF Sound, TableType, Killed
<1>3. t = NoProcesses => u = NoProcesses
  <2>1. SUFFICES ASSUME t = NoProcesses
                 PROVE  u = NoProcesses
    OBVIOUS
  <2>2. {} \union Victims(t, to) = {}
    BY <1>1, <2>1 DEF NoProcesses
  <2>3. QED
    BY <2>1, <2>2 DEF Killed, NoProcesses
<1> HIDE DEF u
<1>4. Sound(u) /\ Ages(t, u)
  BY <1>1, <1>2, <1>3 DEF Sound, Ages, Reaped, GroupAlive
<1>5. to = "group" => GroupAlive(u) \subseteq u.doomed
  BY <1>2 DEF GroupAlive, Victims
<1>6. QED
  BY <1>4, <1>5 DEF u

\* A SIGTERM ends some of the victims.
LEMMA TerminatedAges ==
  ASSUME NEW t, Sound(t), NEW to \in {"group", "pid"}, NEW u \in Terminated(t, to)
  PROVE  Sound(u) /\ Ages(t, u)
<1>1. PICK dead \in SUBSET Victims(t, to) : u = Die(t, dead)
  BY DEF Terminated
<1>2. dead \in SUBSET t.alive
  BY DEF Victims, GroupAlive
<1>3. QED
  BY <1>1, <1>2, DieAges

\* Whatever is not there has nobody in the group.
LEMMA GoneFacts ==
  ASSUME NEW t, NEW to \in {"group", "pid"}, ~Exists(t, to), to = "group"
  PROVE  GroupAlive(t) = {}
BY DEF Exists, Victims

-----------------------------------------------------------------------------
(* What a step does to the processes.                                      *)

\* The processes age with every step but the start.
LEMMA TableAges ==
  ASSUME TypeOK, Sound(os), [Next]_vars
  PROVE  Sound(os') /\ (Ages(os, os') \/ StartSucceeds)
<1>1. ASSUME UNCHANGED os
      PROVE  Sound(os') /\ Ages(os, os')
  BY <1>1 DEF Ages
<1>2. CASE Spawn
  <2>1. PICK parent \in os.alive \ os.doomed, p \in Kin \ os.born :
          os' = Fork(os, parent, p)
    BY <1>2 DEF Spawn
  <2>2. QED
    BY <2>1, ForkAges
<1>3. CASE Detach
  <2>1. PICK p \in os.alive \ os.doomed :
          os' = Leave(os, p) \/ os' = CloseOutput(os, p)
    BY <1>3 DEF Detach
  <2>2. QED
    BY <2>1, LeaveAges, CloseOutputAges
<1>4. CASE \E p \in Procs : Exit(p)
  <2>1. PICK p \in os.alive : os' = Die(os, {p})
    BY <1>4 DEF Exit
  <2>2. {p} \in SUBSET os.alive
    OBVIOUS
  <2>3. QED
    BY <2>1, <2>2, DieAges
<1>5. CASE Recycle
  BY <1>5, RecycleAges DEF Recycle
<1>6. CASE ReaperWait
  BY <1>6, WaitAges DEF ReaperWait
<1>7. CASE StartSucceeds
  BY <1>7, FirstTables DEF StartSucceeds
<1>8. CASE KillChild
  BY <1>8, KilledAges DEF KillChild
<1>9. CASE KillIgnoreGone
  BY <1>9, KilledAges DEF KillIgnoreGone, TypeOK
<1>10. CASE Term
  <2>1. UNCHANGED os \/ os' \in Terminated(os, target)
    BY <1>10 DEF Term
  <2>2. QED
    BY <1>1, <2>1, TerminatedAges DEF TypeOK
<1>11. CASE \/ Output \/ CtxCancel \/ ReaderCopy \/ ReaderEnd \/ ReaperSteps \/ ReplierTake
          \/ ReplierWritten \/ ReplierEnd \/ StartFails \/ YieldStart
          \/ LoopOutput \/ LoopHeartbeat \/ LoopCancelled \/ LoopDone
          \/ EmitEnd \/ Stop \/ PollGone \/ Deadline \/ CloseOut \/ WaitExited \/ Cleanup \/ Join \/ Returned \/ UNCHANGED vars
  <2>1. UNCHANGED os
    BY <1>11
       DEF Output, CtxCancel, ReaderCopy, ReaderEnd, ReaperSteps,
           ReplierTake, ReplierWritten, ReplierEnd, StartFails, YieldStart,
           LoopOutput, LoopHeartbeat, LoopCancelled, LoopDone, EmitEnd,
           Stop, PollGone, Deadline, CloseOut, WaitExited, Cleanup, Join,
           Returned, vars, system, others
  <2>2. QED
    BY <1>1, <2>1
<1>12. QED
  BY <1>1, <1>2, <1>3, <1>4, <1>5, <1>6, <1>7, <1>8, <1>9, <1>10, <1>11
     DEF Next, System, Goroutines, Run, Cancel

-----------------------------------------------------------------------------
(* A yield.                                                                *)

\* The events there are.
LEMMA OrderFacts ==
  DOMAIN ProcessOrder =
    {"begin", "start", "output", "status", "heartbeat", "startError", "end", "error"}
BY DEF ProcessOrder

\* A yield makes its event the latest one.
LEMMA YieldFacts ==
  ASSUME log \in Seq(DOMAIN ProcessOrder),
         NEW e \in {"startError", "start", "output", "end", "error"},
         NEW go \in BOOLEAN, Yield(e, go)
  PROVE  /\ log' \in Seq(DOMAIN ProcessOrder)
         /\ Events!Latest' = e
         /\ broke' = ~go
<1>1. log' = Append(log, e) /\ broke' = ~go /\ e \in DOMAIN ProcessOrder
  BY OrderFacts DEF Yield
<1>2. /\ log' \in Seq(DOMAIN ProcessOrder) /\ log' # << >> /\ log'[Len(log')] = e
  BY <1>1, Promise!LogAppend
<1>3. QED
  BY <1>1, <1>2 DEF Events!Latest

\* The run ended if the latest event is one of the end, now and after a step.
LEMMA EndedFacts ==
  /\ Ended <=> Events!Latest \in EndEvents
  /\ Ended' <=> Events!Latest' \in EndEvents
BY DEF Ended, Events!Latest, EndEvents, Last

\* A step that leaves the history alone leaves its latest event alone.
LEMMA NoYieldFacts ==
  ASSUME UNCHANGED log
  PROVE  UNCHANGED Events!Latest
BY DEF Events!Latest

-----------------------------------------------------------------------------
(* The type invariant.                                                     *)

\* The types, the soundness of the table, which they need, and the history as a
\* sequence.
TypeInv == TypeOK /\ Sound(os) /\ log \in Seq(DOMAIN ProcessOrder)

\* The history grows by an event of a run, or not at all.
LEMMA LogTypes ==
  ASSUME TypeInv, NEW e \in {"startError", "start", "output", "end", "error"},
         log' = Append(log, e)
  PROVE  /\ log' \in Seq(DOMAIN ProcessOrder)
         /\ \A i \in DOMAIN log' : log'[i] \in {"startError", "start", "output", "end", "error"}
<1>1. e \in DOMAIN ProcessOrder
  BY OrderFacts
<1>2. QED
  BY <1>1 DEF TypeInv, TypeOK

\* Every step of the processes, of the goroutines and of the caller keeps them.
LEMMA TypeInvNext ==
  ASSUME TypeInv, [Next]_vars
  PROVE  TypeInv'
<1>1. TypeOK /\ Sound(os) /\ log \in Seq(DOMAIN ProcessOrder)
  BY DEF TypeInv
<1>2. Sound(os')
  BY <1>1, TableAges
<1>3. /\ os' \in TableType
      /\ os'.alive \subseteq os'.born /\ os'.doomed \subseteq os'.alive
      /\ os'.holders \subseteq os'.alive
  BY <1>2 DEF Sound
<1>4. CASE Spawn
  BY <1>4, <1>1, <1>2, <1>3 DEF Spawn, TypeInv, TypeOK
<1>5. CASE Detach
  BY <1>5, <1>1, <1>2, <1>3 DEF Detach, TypeInv, TypeOK
<1>6. CASE Output
  BY <1>6, <1>1, <1>2, <1>3, MaxOutputAssumption DEF Output, system, TypeInv, TypeOK
<1>7. CASE \E p \in Procs : Exit(p)
  <2>1. UNCHANGED <<written, copied, delivered, outOpen, cancelled, cancellor,
                    reader, reaper, replies, replier, pc, target, fallback, log,
                    broke, hit>>
    BY <1>7 DEF Exit
  <2>2. QED
    BY <2>1, <1>1, <1>2, <1>3 DEF TypeInv, TypeOK
<1>8. CASE Recycle
  BY <1>8, <1>1, <1>2, <1>3 DEF Recycle, TypeInv, TypeOK
<1>9. CASE CtxCancel
  BY <1>9, <1>1, <1>2, <1>3 DEF CtxCancel, system, TypeInv, TypeOK
<1>10. CASE ReaderCopy
  <2>1. replies' \in BOOLEAN
    BY <1>10, <1>1 DEF ReaderCopy, TypeOK
  <2>2. QED
    BY <1>10, <2>1, <1>1, <1>2, <1>3 DEF ReaderCopy, system, TypeInv, TypeOK
<1>11. CASE ReaderEnd
  BY <1>11, <1>1, <1>2, <1>3 DEF ReaderEnd, system, TypeInv, TypeOK
<1>12. CASE ReaperWait
  BY <1>12, <1>1, <1>2, <1>3 DEF ReaperWait, TypeInv, TypeOK
<1>13. CASE ReaperSteps
  BY <1>13, <1>1, <1>2, <1>3 DEF ReaperSteps, system, TypeInv, TypeOK
<1>14. CASE ReplierTake
  <2>1. replies' \in BOOLEAN
    BY <1>14, <1>1 DEF ReplierTake, TypeOK
  <2>2. QED
    BY <1>14, <2>1, <1>1, <1>2, <1>3 DEF ReplierTake, system, TypeInv, TypeOK
<1>15. CASE ReplierWritten
  BY <1>15, <1>1, <1>2, <1>3 DEF ReplierWritten, system, TypeInv, TypeOK
<1>16. CASE ReplierEnd
  BY <1>16, <1>1, <1>2, <1>3 DEF ReplierEnd, system, TypeInv, TypeOK
<1>17. CASE StartFails
  <2>1. log' = Append(log, "startError") /\ broke' \in BOOLEAN
    BY <1>17 DEF StartFails, Yield
  <2>2. QED
    BY <1>17, <2>1, <1>1, <1>2, <1>3, LogTypes DEF StartFails, others, TypeInv, TypeOK
<1>18. CASE StartSucceeds
  BY <1>18, <1>1, <1>2, <1>3 DEF StartSucceeds, TypeInv, TypeOK
<1>19. CASE YieldStart
  <2>1. log' = Append(log, "start") /\ broke' \in BOOLEAN
    BY <1>19 DEF YieldStart, Yield
  <2>2. QED
    BY <1>19, <2>1, <1>1, <1>2, <1>3, LogTypes DEF YieldStart, others, TypeInv, TypeOK
<1>20. CASE LoopOutput
  <2>1. log' = Append(log, "output") /\ broke' \in BOOLEAN
    BY <1>20 DEF LoopOutput, Yield
  <2>2. QED
    BY <1>20, <2>1, <1>1, <1>2, <1>3, LogTypes DEF LoopOutput, others, TypeInv, TypeOK
<1>21. CASE LoopHeartbeat
  BY <1>21, <1>1, <1>2, <1>3 DEF LoopHeartbeat, others, TypeInv, TypeOK
<1>22. CASE LoopCancelled
  BY <1>22, <1>1, <1>2, <1>3 DEF LoopCancelled, others, TypeInv, TypeOK
<1>23. CASE LoopDone
  BY <1>23, <1>1, <1>2, <1>3 DEF LoopDone, others, TypeInv, TypeOK
<1>24. CASE EmitEnd
  <2>1. (log' = Append(log, "end") \/ log' = Append(log, "error"))
        /\ broke' \in BOOLEAN
    BY <1>24 DEF EmitEnd, Yield
  <2>2. QED
    BY <1>24, <2>1, <1>1, <1>2, <1>3, LogTypes DEF EmitEnd, others, TypeInv, TypeOK
<1>25. CASE Stop
  <2>1. pc' \in {"term", "killChild", "closeOut"} /\ fallback' \in BOOLEAN
    BY <1>25 DEF Stop, ReapedClosed
  <2>2. QED
    BY <1>25, <2>1, <1>1, <1>2, <1>3 DEF Stop, others, TypeInv, TypeOK
<1>26. CASE KillChild
  BY <1>26, <1>1, <1>2, <1>3 DEF KillChild, others, TypeInv, TypeOK
<1>27. CASE Term
  <2>1. hit' \subseteq {"group", "pid"} \X BOOLEAN
    BY <1>27, <1>1 DEF Term, Signal, TypeOK
  <2>2. /\ pc' \in {"term", "poll", "kill", "closeOut"}
        /\ target' \in {"group", "pid"} /\ fallback' \in BOOLEAN
    BY <1>27, <1>1 DEF Term, TypeOK
  <2>3. QED
    BY <1>27, <2>1, <2>2, <1>1, <1>2, <1>3 DEF Term, others, TypeInv, TypeOK
<1>28. CASE PollGone
  BY <1>28, <1>1, <1>2, <1>3 DEF PollGone, others, TypeInv, TypeOK
<1>29. CASE Deadline
  BY <1>29, <1>1, <1>2, <1>3 DEF Deadline, others, TypeInv, TypeOK
<1>30. CASE KillIgnoreGone
  <2>1. hit' \subseteq {"group", "pid"} \X BOOLEAN
    BY <1>30, <1>1 DEF KillIgnoreGone, Signal, TypeOK
  <2>2. QED
    BY <1>30, <2>1, <1>1, <1>2, <1>3 DEF KillIgnoreGone, others, TypeInv, TypeOK
<1>31. CASE CloseOut
  BY <1>31, <1>1, <1>2, <1>3 DEF CloseOut, others, TypeInv, TypeOK
<1>32. CASE WaitExited
  BY <1>32, <1>1, <1>2, <1>3 DEF WaitExited, others, TypeInv, TypeOK
<1>33. CASE Cleanup
  BY <1>33, <1>1, <1>2, <1>3 DEF Cleanup, others, TypeInv, TypeOK
<1>34. CASE Join
  BY <1>34, <1>1, <1>2, <1>3 DEF Join, others, TypeInv, TypeOK
<1>35. CASE Returned
  BY <1>35, <1>1, <1>2, <1>3 DEF Returned, vars, TypeInv, TypeOK
<1>36. CASE UNCHANGED vars
  BY <1>36, <1>1, <1>2, <1>3 DEF vars, TypeInv, TypeOK
<1>37. QED
  BY
     <1>4, <1>5, <1>6, <1>7, <1>8, <1>9, <1>10, <1>11, <1>12, <1>13, <1>14,
     <1>15, <1>16, <1>17, <1>18, <1>19, <1>20, <1>21, <1>22, <1>23, <1>24,
     <1>25, <1>26, <1>27, <1>28, <1>29, <1>30, <1>31, <1>32, <1>33, <1>34,
     <1>35, <1>36
     DEF Next, System, Goroutines, Run, Cancel

LEMMA TypeInvHolds == Spec => []TypeInv
<1>1. Init => TypeInv
  <2>1. SUFFICES ASSUME Init
                 PROVE  TypeInv
    OBVIOUS
  <2>2. /\ Sound(os) /\ log = << >> /\ log \in Seq(DOMAIN ProcessOrder)
        /\ 0 \in 0 .. MaxOutput /\ 0 \in 0 .. 0
    BY <2>1, FirstTables, MaxOutputAssumption DEF Init
  <2>3. /\ written \in 0 .. MaxOutput /\ copied \in 0 .. written
        /\ delivered \in 0 .. copied
        /\ \A i \in DOMAIN log : log[i] \in {"startError", "start", "output", "end", "error"}
    BY <2>1, <2>2 DEF Init
  <2>4. /\ outOpen \in BOOLEAN /\ cancelled \in BOOLEAN /\ replies \in BOOLEAN
        /\ fallback \in BOOLEAN /\ broke \in BOOLEAN
        /\ hit \subseteq {"group", "pid"} \X BOOLEAN
    BY <2>1 DEF Init
  <2>5. TypeOK
    BY <2>1, <2>2, <2>3, <2>4 DEF Init, TypeOK, Sound
  <2>6. QED
    BY <2>2, <2>5 DEF TypeInv
<1>2. TypeInv /\ [Next]_vars => TypeInv'
  BY TypeInvNext
<1>3. QED
  BY <1>1, <1>2, PTL DEF Spec

\* The variables of a run of a process have their types, whatever the processes,
\* the goroutines and the consumer do.
THEOREM TypeCorrect == Spec => []TypeOK
<1>1. TypeInv => TypeOK
  BY DEF TypeInv
<1>2. QED
  BY <1>1, TypeInvHolds, PTL

-----------------------------------------------------------------------------
(* The invariant is kept.                                                  *)

LEMMA InitInv == Init => IInv
<1>1. SUFFICES ASSUME Init
               PROVE  IInv
  OBVIOUS
<1>2. /\ log = << >> /\ log \in Seq(DOMAIN ProcessOrder)
      /\ Events!Latest = "begin" /\ ~Ended
  BY <1>1 DEF Init, Events!Latest, Ended
<1>3. QED
  BY <1>1, <1>2, FirstTables
     DEF Init, IInv, Place, Start, Reaping, Drained, Group, EndAfterOutput,
         Signalled, DoneSent, Streaming, Stopping, Leaving, EndEvents

LEMMA NextInv ==
  ASSUME TypeInv, IInv, [Next]_vars
  PROVE  IInv'
<1> USE DEF IInv, Place, Start, Reaping, Drained, Group, EndAfterOutput, Signalled,
            DoneSent, Streaming, Stopping, Leaving, EndEvents
<1>1. TypeOK /\ Sound(os) /\ log \in Seq(DOMAIN ProcessOrder)
  BY DEF TypeInv
<1>2. Ages(os, os') \/ StartSucceeds
  BY <1>1, TableAges
<1>3. CASE Spawn
  <2>1. UNCHANGED <<log, Events!Latest>> /\ (Ended' <=> Ended)
        /\ (Ended <=> Events!Latest \in EndEvents)
    BY <1>3, NoYieldFacts, EndedFacts DEF Spawn
  <2>2. Ages(os, os')
    BY <1>2, <1>3 DEF Spawn, StartSucceeds
  <2>3. QED
    BY <1>3, <1>1, <2>1, <2>2 DEF Spawn, Ages, TypeOK
<1>4. CASE Detach
  <2>1. UNCHANGED <<log, Events!Latest>> /\ (Ended' <=> Ended)
        /\ (Ended <=> Events!Latest \in EndEvents)
    BY <1>4, NoYieldFacts, EndedFacts DEF Detach
  <2>2. Ages(os, os')
    BY <1>2, <1>4 DEF Detach, StartSucceeds
  <2>3. QED
    BY <1>4, <1>1, <2>1, <2>2 DEF Detach, Ages, TypeOK
<1>5. CASE Output
  <2>1. UNCHANGED <<log, Events!Latest>> /\ (Ended' <=> Ended)
        /\ (Ended <=> Events!Latest \in EndEvents)
    BY <1>5, NoYieldFacts, EndedFacts DEF Output, system
  <2>2. Ages(os, os')
    BY <1>2, <1>5 DEF Output, system, StartSucceeds
  <2>3. QED
    BY <1>5, <1>1, <2>1, <2>2 DEF Output, system, Ages, TypeOK
<1>6. CASE \E p \in Procs : Exit(p)
  <2>1. UNCHANGED <<log, Events!Latest>> /\ (Ended' <=> Ended)
        /\ (Ended <=> Events!Latest \in EndEvents)
    BY <1>6, NoYieldFacts, EndedFacts DEF Exit
  <2>2. Ages(os, os')
    BY <1>2, <1>6 DEF Exit, StartSucceeds
  <2>3. UNCHANGED <<written, copied, delivered, outOpen, cancelled, cancellor,
                    reader, reaper, replies, replier, pc, target, broke>>
    BY <1>6 DEF Exit
  <2>4. QED
    BY <1>1, <2>1, <2>2, <2>3 DEF Ages
<1>7. CASE Recycle
  <2>1. UNCHANGED <<log, Events!Latest>> /\ (Ended' <=> Ended)
        /\ (Ended <=> Events!Latest \in EndEvents)
    BY <1>7, NoYieldFacts, EndedFacts DEF Recycle
  <2>2. Ages(os, os')
    BY <1>2, <1>7 DEF Recycle, StartSucceeds
  <2>3. QED
    BY <1>7, <1>1, <2>1, <2>2 DEF Recycle, Ages, TypeOK
<1>8. CASE CtxCancel
  <2>1. UNCHANGED <<log, Events!Latest>> /\ (Ended' <=> Ended)
        /\ (Ended <=> Events!Latest \in EndEvents)
    BY <1>8, NoYieldFacts, EndedFacts DEF CtxCancel, system
  <2>2. Ages(os, os')
    BY <1>2, <1>8 DEF CtxCancel, system, StartSucceeds
  <2>3. QED
    BY <1>8, <1>1, <2>1, <2>2 DEF CtxCancel, system, Ages, TypeOK
<1>9. CASE ReaderCopy
  <2>1. UNCHANGED <<log, Events!Latest>> /\ (Ended' <=> Ended)
        /\ (Ended <=> Events!Latest \in EndEvents)
    BY <1>9, NoYieldFacts, EndedFacts DEF ReaderCopy, system
  <2>2. Ages(os, os')
    BY <1>2, <1>9 DEF ReaderCopy, system, StartSucceeds
  <2>3. QED
    BY <1>9, <1>1, <2>1, <2>2 DEF ReaderCopy, system, Ages, TypeOK
<1>10. CASE ReaderEnd
  <2>1. UNCHANGED <<log, Events!Latest>> /\ (Ended' <=> Ended)
        /\ (Ended <=> Events!Latest \in EndEvents)
    BY <1>10, NoYieldFacts, EndedFacts DEF ReaderEnd, system
  <2>2. Ages(os, os')
    BY <1>2, <1>10 DEF ReaderEnd, system, StartSucceeds
  <2>3. QED
    BY <1>10, <1>1, <2>1, <2>2 DEF ReaderEnd, system, Ages, TypeOK
<1>11. CASE ReaperWait
  <2>1. UNCHANGED <<log, Events!Latest>> /\ (Ended' <=> Ended)
        /\ (Ended <=> Events!Latest \in EndEvents)
    BY <1>11, NoYieldFacts, EndedFacts DEF ReaperWait
  <2>2. Ages(os, os')
    BY <1>2, <1>11 DEF ReaperWait, StartSucceeds
  <2>3. Reaped(os')
    BY <1>11, <1>1, WaitAges DEF ReaperWait
  <2>4. QED
    BY <1>11, <2>1, <2>2, <2>3 DEF ReaperWait, Ages
<1>12. CASE ReaperSteps
  <2>1. UNCHANGED <<log, Events!Latest>> /\ (Ended' <=> Ended)
        /\ (Ended <=> Events!Latest \in EndEvents)
    BY <1>12, NoYieldFacts, EndedFacts DEF ReaperSteps, system
  <2>2. Ages(os, os')
    BY <1>2, <1>12 DEF ReaperSteps, system, StartSucceeds
  <2>3. QED
    BY <1>12, <1>1, <2>1, <2>2 DEF ReaperSteps, system, Ages, TypeOK
<1>13. CASE ReplierTake
  <2>1. UNCHANGED <<log, Events!Latest>> /\ (Ended' <=> Ended)
        /\ (Ended <=> Events!Latest \in EndEvents)
    BY <1>13, NoYieldFacts, EndedFacts DEF ReplierTake, system
  <2>2. Ages(os, os')
    BY <1>2, <1>13 DEF ReplierTake, system, StartSucceeds
  <2>3. QED
    BY <1>13, <1>1, <2>1, <2>2 DEF ReplierTake, system, Ages, TypeOK
<1>14. CASE ReplierWritten
  <2>1. UNCHANGED <<log, Events!Latest>> /\ (Ended' <=> Ended)
        /\ (Ended <=> Events!Latest \in EndEvents)
    BY <1>14, NoYieldFacts, EndedFacts DEF ReplierWritten, system
  <2>2. Ages(os, os')
    BY <1>2, <1>14 DEF ReplierWritten, system, StartSucceeds
  <2>3. QED
    BY <1>14, <1>1, <2>1, <2>2 DEF ReplierWritten, system, Ages, TypeOK
<1>15. CASE ReplierEnd
  <2>1. UNCHANGED <<log, Events!Latest>> /\ (Ended' <=> Ended)
        /\ (Ended <=> Events!Latest \in EndEvents)
    BY <1>15, NoYieldFacts, EndedFacts DEF ReplierEnd, system
  <2>2. Ages(os, os')
    BY <1>2, <1>15 DEF ReplierEnd, system, StartSucceeds
  <2>3. QED
    BY <1>15, <1>1, <2>1, <2>2 DEF ReplierEnd, system, Ages, TypeOK
<1>16. CASE StartFails
  <2>1. PICK go \in BOOLEAN : Yield("startError", go)
    BY <1>16 DEF StartFails
  <2>2. Events!Latest' = "startError" /\ broke' = ~go /\ log' \in Seq(DOMAIN ProcessOrder)
    BY <1>1, <2>1, YieldFacts
  <2>3. UNCHANGED os /\ ~Ended'
    BY <1>16, <2>2, EndedFacts DEF StartFails, others
  <2>4. log' = <<"startError">>
    BY <1>16, <2>1 DEF StartFails, Yield
  <2>5. QED
    BY <1>16, <2>1, <2>2, <2>3, <2>4, FirstTables DEF StartFails, others
<1>17. CASE StartSucceeds
  <2>1. UNCHANGED <<log, Events!Latest>> /\ (Ended' <=> Ended)
        /\ (Ended <=> Events!Latest \in EndEvents)
    BY <1>17, NoYieldFacts, EndedFacts DEF StartSucceeds
  <2>2. /\ Leader \in os'.born /\ target' = "group" /\ Events!Latest' = "begin"
        /\ ~Ended'
    BY <1>17, <2>1, FirstTables DEF StartSucceeds, Events!Latest
  <2>3. QED
    BY <1>17, <2>1, <2>2 DEF StartSucceeds
<1>18. CASE YieldStart
  <2>1. PICK go \in BOOLEAN : Yield("start", go) /\ pc' = IF go THEN "stream" ELSE "stop"
    BY <1>18 DEF YieldStart
  <2>2. Events!Latest' = "start" /\ broke' = ~go /\ log' \in Seq(DOMAIN ProcessOrder)
    BY <1>1, <2>1, YieldFacts
  <2>3. UNCHANGED os /\ ~Ended'
    BY <1>18, <2>2, EndedFacts DEF YieldStart, others
  <2>4. QED
    BY <1>18, <2>1, <2>2, <2>3, <1>1 DEF YieldStart, others, TypeOK
<1>19. CASE LoopOutput
  <2>1. PICK go \in BOOLEAN : Yield("output", go) /\ pc' = IF go THEN pc ELSE "stop"
    BY <1>19 DEF LoopOutput
  <2>2. Events!Latest' = "output" /\ broke' = ~go /\ log' \in Seq(DOMAIN ProcessOrder)
    BY <1>1, <2>1, YieldFacts
  <2>3. UNCHANGED os /\ ~Ended'
    BY <1>19, <2>2, EndedFacts DEF LoopOutput, others
  <2>4. QED
    BY <1>19, <2>1, <2>2, <2>3, <1>1 DEF LoopOutput, others, TypeOK
<1>20. CASE LoopHeartbeat
  <2>1. UNCHANGED <<log, Events!Latest>> /\ (Ended' <=> Ended)
        /\ (Ended <=> Events!Latest \in EndEvents)
    BY <1>20, NoYieldFacts, EndedFacts DEF LoopHeartbeat, others
  <2>2. Ages(os, os')
    BY <1>2, <1>20 DEF LoopHeartbeat, others, StartSucceeds
  <2>3. QED
    BY <1>20, <1>1, <2>1, <2>2 DEF LoopHeartbeat, others, Ages, TypeOK
<1>21. CASE LoopCancelled
  <2>1. UNCHANGED <<log, Events!Latest>> /\ (Ended' <=> Ended)
        /\ (Ended <=> Events!Latest \in EndEvents)
    BY <1>21, NoYieldFacts, EndedFacts DEF LoopCancelled, others
  <2>2. Ages(os, os')
    BY <1>2, <1>21 DEF LoopCancelled, others, StartSucceeds
  <2>3. QED
    BY <1>21, <1>1, <2>1, <2>2 DEF LoopCancelled, others, Ages, TypeOK
<1>22. CASE LoopDone
  <2>1. UNCHANGED <<log, Events!Latest>> /\ (Ended' <=> Ended)
        /\ (Ended <=> Events!Latest \in EndEvents)
    BY <1>22, NoYieldFacts, EndedFacts DEF LoopDone, others
  <2>2. Ages(os, os')
    BY <1>2, <1>22 DEF LoopDone, others, StartSucceeds
  <2>3. QED
    BY <1>22, <1>1, <2>1, <2>2 DEF LoopDone, others, Ages, TypeOK
<1>23. CASE EmitEnd
  <2>1. PICK event \in EndEvents, go \in BOOLEAN : Yield(event, go)
    BY <1>23 DEF EmitEnd
  <2>2. Events!Latest' = event /\ log' \in Seq(DOMAIN ProcessOrder)
    BY <1>1, <2>1, YieldFacts
  <2>3. UNCHANGED os /\ delivered' = written' /\ os'.holders = {} /\ Reaped(os')
    BY <1>23 DEF EmitEnd, others
  <2>4. QED
    BY <1>23, <2>2, <2>3 DEF EmitEnd, others
<1>24. CASE Stop
  <2>1. UNCHANGED <<log, Events!Latest>> /\ (Ended' <=> Ended)
        /\ (Ended <=> Events!Latest \in EndEvents)
    BY <1>24, NoYieldFacts, EndedFacts DEF Stop, others
  <2>2. Ages(os, os')
    BY <1>2, <1>24 DEF Stop, others, StartSucceeds
  <2>3. QED
    BY <1>24, <1>1, <2>1, <2>2 DEF Stop, others, Ages, ReapedClosed, TypeOK
<1>25. CASE KillChild
  <2>1. UNCHANGED <<log, Events!Latest>> /\ (Ended' <=> Ended)
        /\ (Ended <=> Events!Latest \in EndEvents)
    BY <1>25, NoYieldFacts, EndedFacts DEF KillChild, others
  <2>2. Ages(os, os')
    BY <1>2, <1>25 DEF KillChild, others, StartSucceeds
  <2>3. QED
    BY <1>25, <1>1, <2>1, <2>2 DEF KillChild, others, Ages, TypeOK
<1>26. CASE Term
  <2>1. UNCHANGED <<log, Events!Latest>> /\ (Ended' <=> Ended)
        /\ (Ended <=> Events!Latest \in EndEvents)
    BY <1>26, NoYieldFacts, EndedFacts DEF Term, others, Signal
  <2>2. Ages(os, os')
    BY <1>2, <1>26 DEF Term, others, Signal, StartSucceeds
  <2>3. ~Exists(os, target) => GroupAlive(os) = {}
    BY <1>1, GoneFacts DEF TypeOK
  <2>4. QED
    BY <1>26, <2>1, <2>2, <2>3 DEF Term, others, Ages
<1>27. CASE PollGone
  <2>1. UNCHANGED <<log, Events!Latest>> /\ (Ended' <=> Ended)
        /\ (Ended <=> Events!Latest \in EndEvents)
    BY <1>27, NoYieldFacts, EndedFacts DEF PollGone, others
  <2>2. Ages(os, os')
    BY <1>2, <1>27 DEF PollGone, others, StartSucceeds
  <2>3. ~Exists(os, target) => GroupAlive(os) = {}
    BY <1>1, GoneFacts DEF TypeOK
  <2>4. QED
    BY <1>27, <2>1, <2>2, <2>3 DEF PollGone, others, Ages
<1>28. CASE Deadline
  <2>1. UNCHANGED <<log, Events!Latest>> /\ (Ended' <=> Ended)
        /\ (Ended <=> Events!Latest \in EndEvents)
    BY <1>28, NoYieldFacts, EndedFacts DEF Deadline, others
  <2>2. Ages(os, os')
    BY <1>2, <1>28 DEF Deadline, others, StartSucceeds
  <2>3. QED
    BY <1>28, <1>1, <2>1, <2>2 DEF Deadline, others, Ages, TypeOK
<1>29. CASE KillIgnoreGone
  <2>1. UNCHANGED <<log, Events!Latest>> /\ (Ended' <=> Ended)
        /\ (Ended <=> Events!Latest \in EndEvents)
    BY <1>29, NoYieldFacts, EndedFacts DEF KillIgnoreGone, others, Signal
  <2>2. Ages(os, os')
    BY <1>2, <1>29 DEF KillIgnoreGone, others, Signal, StartSucceeds
  <2>3. GroupAlive(os') \subseteq os'.doomed
    BY <1>29, <1>1, <2>2, KilledAges DEF KillIgnoreGone, Ages, TypeOK
  <2>4. QED
    BY <1>29, <2>1, <2>2, <2>3 DEF KillIgnoreGone, others, Ages
<1>30. CASE CloseOut
  <2>1. UNCHANGED <<log, Events!Latest>> /\ (Ended' <=> Ended)
        /\ (Ended <=> Events!Latest \in EndEvents)
    BY <1>30, NoYieldFacts, EndedFacts DEF CloseOut, others
  <2>2. Ages(os, os')
    BY <1>2, <1>30 DEF CloseOut, others, StartSucceeds
  <2>3. QED
    BY <1>30, <1>1, <2>1, <2>2 DEF CloseOut, others, Ages, TypeOK
<1>31. CASE WaitExited
  <2>1. UNCHANGED <<log, Events!Latest>> /\ (Ended' <=> Ended)
        /\ (Ended <=> Events!Latest \in EndEvents)
    BY <1>31, NoYieldFacts, EndedFacts DEF WaitExited, others
  <2>2. Ages(os, os')
    BY <1>2, <1>31 DEF WaitExited, others, StartSucceeds
  <2>3. QED
    BY <1>31, <1>1, <2>1, <2>2 DEF WaitExited, others, Ages, ExitedClosed, TypeOK
<1>32. CASE Cleanup
  <2>1. UNCHANGED <<log, Events!Latest>> /\ (Ended' <=> Ended)
        /\ (Ended <=> Events!Latest \in EndEvents)
    BY <1>32, NoYieldFacts, EndedFacts DEF Cleanup, others
  <2>2. Ages(os, os')
    BY <1>2, <1>32 DEF Cleanup, others, StartSucceeds
  <2>3. QED
    BY <1>32, <1>1, <2>1, <2>2 DEF Cleanup, others, Ages, TypeOK
<1>33. CASE Join
  <2>1. UNCHANGED <<log, Events!Latest>> /\ (Ended' <=> Ended)
        /\ (Ended <=> Events!Latest \in EndEvents)
    BY <1>33, NoYieldFacts, EndedFacts DEF Join, others
  <2>2. Ages(os, os')
    BY <1>2, <1>33 DEF Join, others, StartSucceeds
  <2>3. QED
    BY <1>33, <1>1, <2>1, <2>2 DEF Join, others, Ages, TypeOK
<1>34. CASE Returned
  <2>1. UNCHANGED <<log, Events!Latest>> /\ (Ended' <=> Ended)
        /\ (Ended <=> Events!Latest \in EndEvents)
    BY <1>34, NoYieldFacts, EndedFacts DEF Returned, vars
  <2>2. Ages(os, os')
    BY <1>2, <1>34 DEF Returned, vars, StartSucceeds
  <2>3. QED
    BY <1>34, <1>1, <2>1, <2>2 DEF Returned, vars, Ages, TypeOK
<1>35. CASE UNCHANGED vars
  <2>1. UNCHANGED <<log, Events!Latest>> /\ (Ended' <=> Ended)
    BY <1>35, NoYieldFacts, EndedFacts DEF vars
  <2>2. QED
    BY <1>35, <2>1 DEF vars
<1>36. QED
  BY
     <1>3, <1>4, <1>5, <1>6, <1>7, <1>8, <1>9, <1>10, <1>11, <1>12, <1>13,
     <1>14, <1>15, <1>16, <1>17, <1>18, <1>19, <1>20, <1>21, <1>22, <1>23,
     <1>24, <1>25, <1>26, <1>27, <1>28, <1>29, <1>30, <1>31, <1>32, <1>33,
     <1>34, <1>35
     DEF Next, System, Goroutines, Run, Cancel

\* Every part of the invariant holds of every reachable state.
THEOREM InvariantHolds == Spec => []IInv
<1>1. Init => IInv
  BY InitInv
<1>2. TypeInv /\ IInv /\ [Next]_vars => IInv'
  BY NextInv
<1>3. QED
  BY <1>1, <1>2, TypeInvHolds, PTL DEF Spec

-----------------------------------------------------------------------------
(* The safety properties.                                                  *)

\* ProcessEnd comes when every byte any process wrote was delivered, nobody is
\* left who could write more, and the child was reaped.
THEOREM EndComesAfterOutput == Spec => []EndAfterOutput
<1>1. IInv => EndAfterOutput
  BY DEF IInv, Drained
<1>2. QED
  BY <1>1, InvariantHolds, PTL

\* A return that no end event preceded came through stop.
LEMMA StoppedFacts ==
  ASSUME IInv, StoppedAndReturned
  PROVE  Events!Latest \in {"start", "output"} /\ Leader \in os.born
<1>1. Events!Latest \in {"start", "output"}
  BY EndedFacts DEF IInv, Place, StoppedAndReturned, Leaving
<1>2. QED
  BY <1>1 DEF IInv, Start, StoppedAndReturned

\* No goroutine of the run is left after a stop, and after a normal end the
\* reaper has only to return.
THEOREM ReturnIsDrained == Spec => []DrainedOnReturn
<1>1. IInv => DrainedOnReturn
  <2>1. SUFFICES ASSUME IInv, pc = "returned"
                 PROVE  /\ reader = "finished" /\ replier = "finished"
                        /\ StoppedAndReturned => reaper = "finished" /\ Reaped(os)
                        /\ Ended => DoneSent
    BY DEF DrainedOnReturn
  <2>2. reader = "finished" /\ replier = "finished" /\ DoneSent
    BY <2>1 DEF IInv, Reaping, Leaving
  <2>3. ASSUME StoppedAndReturned
        PROVE  reaper = "finished" /\ Reaped(os)
    BY <2>1, <2>3, StoppedFacts DEF IInv, Reaping, Leaving
  <2>4. QED
    BY <2>2, <2>3
<1>2. QED
  BY <1>1, InvariantHolds, PTL

\* After a stop by LocalCancellor nobody of the child's group is without a
\* SIGKILL, for any number of descendants.
THEOREM GroupIsGone == Spec => []NoGroupSurvivor
<1>1. IInv => NoGroupSurvivor
  BY StoppedFacts
     DEF IInv, Group, Signalled, NoGroupSurvivor, StoppedAndReturned, Leaving
<1>2. QED
  BY <1>1, InvariantHolds, PTL

-----------------------------------------------------------------------------
(* The refinement of RunEvents.                                            *)

\* What may follow each event the caller's goroutine can be at, and the finals.
LEMMA FollowFacts ==
  /\ ProcessOrder["begin"] = {"start", "startError"}
  /\ \A e \in {"start", "output"} :
       {"output", "heartbeat", "end", "error"} \subseteq ProcessOrder[e]
  /\ ProcessFinals = {"startError"} \union EndEvents
BY DEF ProcessOrder, ProcessFinals, Streamed, EndEvents

\* A yield of an event that may follow is a step of RunEvents.
LEMMA YieldRefines ==
  ASSUME ~broke, pc # "returned", UNCHANGED cancelled,
         NEW e \in ProcessOrder[Events!Latest],
         NEW go \in BOOLEAN, Yield(e, go),
         pc' = "returned" => Events!MayReturn'
  PROVE  Events!RENext
<1>1. log' = Append(log, e) /\ broke' \in BOOLEAN
  BY DEF Yield
<1>2. (pc = "returned")' \in BOOLEAN
  OBVIOUS
<1>3. QED
  BY <1>1, <1>2 DEF Events!RENext, Events!YieldEvent

\* A step that yields nothing and does not cancel is invisible, or is the return.
LEMMA QuietRefines ==
  ASSUME UNCHANGED <<log, broke, cancelled>>,
         pc = "returned" => pc' = "returned",
         pc' = "returned" => Events!MayReturn'
  PROVE  [Events!RENext]_(Events!revars)
<1>1. CASE pc' = "returned" /\ pc # "returned"
  <2>1. Events!MayReturn
    BY <1>1 DEF Events!MayReturn, Events!Latest
  <2>2. QED
    BY <1>1, <2>1 DEF Events!RENext, Events!Return
<1>2. CASE (pc' = "returned") = (pc = "returned")
  BY <1>2 DEF Events!revars
<1>3. QED
  BY <1>1, <1>2

LEMMA StepRefines ==
  ASSUME IInv, IInv', [Next]_vars
  PROVE  [Events!RENext]_(Events!revars)
<1>1. pc' = "returned" => Events!MayReturn'
  BY FollowFacts DEF IInv, Place, Leaving, Events!MayReturn
<1>2. CASE Spawn
  <2>1. UNCHANGED <<log, broke, cancelled>> /\ (pc = "returned" => pc' = "returned")
    BY <1>2 DEF Spawn
  <2>2. QED
    BY <1>1, <2>1, QuietRefines
<1>3. CASE Detach
  <2>1. UNCHANGED <<log, broke, cancelled>> /\ (pc = "returned" => pc' = "returned")
    BY <1>3 DEF Detach
  <2>2. QED
    BY <1>1, <2>1, QuietRefines
<1>4. CASE Output
  <2>1. UNCHANGED <<log, broke, cancelled>> /\ (pc = "returned" => pc' = "returned")
    BY <1>4 DEF Output, system
  <2>2. QED
    BY <1>1, <2>1, QuietRefines
<1>5. CASE \E p \in Procs : Exit(p)
  <2>1. UNCHANGED <<log, broke, cancelled>> /\ (pc = "returned" => pc' = "returned")
    BY <1>5 DEF Exit
  <2>2. QED
    BY <1>1, <2>1, QuietRefines
<1>6. CASE Recycle
  <2>1. UNCHANGED <<log, broke, cancelled>> /\ (pc = "returned" => pc' = "returned")
    BY <1>6 DEF Recycle
  <2>2. QED
    BY <1>1, <2>1, QuietRefines
<1>7. CASE CtxCancel
  BY <1>7 DEF CtxCancel, Events!RENext, Events!CancelContext
<1>8. CASE ReaderCopy
  <2>1. UNCHANGED <<log, broke, cancelled>> /\ (pc = "returned" => pc' = "returned")
    BY <1>8 DEF ReaderCopy, system
  <2>2. QED
    BY <1>1, <2>1, QuietRefines
<1>9. CASE ReaderEnd
  <2>1. UNCHANGED <<log, broke, cancelled>> /\ (pc = "returned" => pc' = "returned")
    BY <1>9 DEF ReaderEnd, system
  <2>2. QED
    BY <1>1, <2>1, QuietRefines
<1>10. CASE ReaperWait
  <2>1. UNCHANGED <<log, broke, cancelled>> /\ (pc = "returned" => pc' = "returned")
    BY <1>10 DEF ReaperWait
  <2>2. QED
    BY <1>1, <2>1, QuietRefines
<1>11. CASE ReaperSteps
  <2>1. UNCHANGED <<log, broke, cancelled>> /\ (pc = "returned" => pc' = "returned")
    BY <1>11 DEF ReaperSteps, system
  <2>2. QED
    BY <1>1, <2>1, QuietRefines
<1>12. CASE ReplierTake
  <2>1. UNCHANGED <<log, broke, cancelled>> /\ (pc = "returned" => pc' = "returned")
    BY <1>12 DEF ReplierTake, system
  <2>2. QED
    BY <1>1, <2>1, QuietRefines
<1>13. CASE ReplierWritten
  <2>1. UNCHANGED <<log, broke, cancelled>> /\ (pc = "returned" => pc' = "returned")
    BY <1>13 DEF ReplierWritten, system
  <2>2. QED
    BY <1>1, <2>1, QuietRefines
<1>14. CASE ReplierEnd
  <2>1. UNCHANGED <<log, broke, cancelled>> /\ (pc = "returned" => pc' = "returned")
    BY <1>14 DEF ReplierEnd, system
  <2>2. QED
    BY <1>1, <2>1, QuietRefines
<1>15. CASE StartFails
  <2>1. PICK go \in BOOLEAN : Yield("startError", go)
    BY <1>15 DEF StartFails
  <2>2. "startError" \in ProcessOrder[Events!Latest] /\ ~broke
    BY <1>15, FollowFacts DEF StartFails, IInv, Place, Streaming, Events!Latest
  <2>3. QED
    BY <1>1, <1>15, <2>1, <2>2, YieldRefines DEF StartFails, others
<1>16. CASE StartSucceeds
  <2>1. UNCHANGED <<log, broke, cancelled>> /\ (pc = "returned" => pc' = "returned")
    BY <1>16 DEF StartSucceeds
  <2>2. QED
    BY <1>1, <2>1, QuietRefines
<1>17. CASE YieldStart
  <2>1. PICK go \in BOOLEAN : Yield("start", go)
    BY <1>17 DEF YieldStart
  <2>2. "start" \in ProcessOrder[Events!Latest] /\ ~broke
    BY <1>17, FollowFacts DEF YieldStart, IInv, Place, Streaming, Events!Latest
  <2>3. QED
    BY <1>1, <1>17, <2>1, <2>2, YieldRefines DEF YieldStart, others
<1>18. CASE LoopOutput
  <2>1. PICK go \in BOOLEAN : Yield("output", go)
    BY <1>18 DEF LoopOutput
  <2>2. "output" \in ProcessOrder[Events!Latest] /\ ~broke
    BY <1>18, FollowFacts DEF LoopOutput, IInv, Place, Streaming, Events!Latest
  <2>3. QED
    BY <1>1, <1>18, <2>1, <2>2, YieldRefines DEF LoopOutput, others
<1>19. CASE LoopHeartbeat
  <2>1. "heartbeat" \in ProcessOrder[Events!Latest] /\ ~broke
    BY <1>19, FollowFacts DEF LoopHeartbeat, IInv, Place, Streaming
  <2>2. UNCHANGED <<log, cancelled, pc = "returned">> /\ broke' = TRUE /\ pc # "returned"
    BY <1>19 DEF LoopHeartbeat, others
  <2>3. QED
    BY <2>1, <2>2 DEF Events!RENext, Events!BreakAtHeartbeat
<1>20. CASE LoopCancelled
  <2>1. UNCHANGED <<log, broke, cancelled>> /\ (pc = "returned" => pc' = "returned")
    BY <1>20 DEF LoopCancelled, others
  <2>2. QED
    BY <1>1, <2>1, QuietRefines
<1>21. CASE LoopDone
  <2>1. UNCHANGED <<log, broke, cancelled>> /\ (pc = "returned" => pc' = "returned")
    BY <1>21 DEF LoopDone, others
  <2>2. QED
    BY <1>1, <2>1, QuietRefines
<1>22. CASE EmitEnd
  <2>1. PICK event \in EndEvents, go \in BOOLEAN : Yield(event, go)
    BY <1>22 DEF EmitEnd, EndEvents
  <2>2. event \in ProcessOrder[Events!Latest] /\ ~broke
    BY <1>22, FollowFacts DEF EmitEnd, IInv, Place, Streaming, EndEvents
  <2>3. QED
    BY <1>1, <1>22, <2>1, <2>2, YieldRefines DEF EmitEnd, others
<1>23. CASE Stop
  <2>1. UNCHANGED <<log, broke, cancelled>> /\ (pc = "returned" => pc' = "returned")
    BY <1>23 DEF Stop, others
  <2>2. QED
    BY <1>1, <2>1, QuietRefines
<1>24. CASE KillChild
  <2>1. UNCHANGED <<log, broke, cancelled>> /\ (pc = "returned" => pc' = "returned")
    BY <1>24 DEF KillChild, others
  <2>2. QED
    BY <1>1, <2>1, QuietRefines
<1>25. CASE Term
  <2>1. UNCHANGED <<log, broke, cancelled>> /\ (pc = "returned" => pc' = "returned")
    BY <1>25 DEF Term, others, Signal
  <2>2. QED
    BY <1>1, <2>1, QuietRefines
<1>26. CASE PollGone
  <2>1. UNCHANGED <<log, broke, cancelled>> /\ (pc = "returned" => pc' = "returned")
    BY <1>26 DEF PollGone, others
  <2>2. QED
    BY <1>1, <2>1, QuietRefines
<1>27. CASE Deadline
  <2>1. UNCHANGED <<log, broke, cancelled>> /\ (pc = "returned" => pc' = "returned")
    BY <1>27 DEF Deadline, others
  <2>2. QED
    BY <1>1, <2>1, QuietRefines
<1>28. CASE KillIgnoreGone
  <2>1. UNCHANGED <<log, broke, cancelled>> /\ (pc = "returned" => pc' = "returned")
    BY <1>28 DEF KillIgnoreGone, others, Signal
  <2>2. QED
    BY <1>1, <2>1, QuietRefines
<1>29. CASE CloseOut
  <2>1. UNCHANGED <<log, broke, cancelled>> /\ (pc = "returned" => pc' = "returned")
    BY <1>29 DEF CloseOut, others
  <2>2. QED
    BY <1>1, <2>1, QuietRefines
<1>30. CASE WaitExited
  <2>1. UNCHANGED <<log, broke, cancelled>> /\ (pc = "returned" => pc' = "returned")
    BY <1>30 DEF WaitExited, others
  <2>2. QED
    BY <1>1, <2>1, QuietRefines
<1>31. CASE Cleanup
  <2>1. UNCHANGED <<log, broke, cancelled>> /\ (pc = "returned" => pc' = "returned")
    BY <1>31 DEF Cleanup, others
  <2>2. QED
    BY <1>1, <2>1, QuietRefines
<1>32. CASE Join
  <2>1. UNCHANGED <<log, broke, cancelled>> /\ (pc = "returned" => pc' = "returned")
    BY <1>32 DEF Join, others
  <2>2. QED
    BY <1>1, <2>1, QuietRefines
<1>33. CASE Returned
  <2>1. UNCHANGED <<log, broke, cancelled>> /\ (pc = "returned" => pc' = "returned")
    BY <1>33 DEF Returned, vars
  <2>2. QED
    BY <1>1, <2>1, QuietRefines
<1>34. CASE UNCHANGED vars
  BY <1>1, <1>34, QuietRefines DEF vars
<1>35. QED
  BY
     <1>2, <1>3, <1>4, <1>5, <1>6, <1>7, <1>8, <1>9, <1>10, <1>11, <1>12,
     <1>13, <1>14, <1>15, <1>16, <1>17, <1>18, <1>19, <1>20, <1>21, <1>22,
     <1>23, <1>24, <1>25, <1>26, <1>27, <1>28, <1>29, <1>30, <1>31, <1>32,
     <1>33, <1>34
     DEF Next, System, Goroutines, Run, Cancel

\* The iterator implements RunEvents: ProcessStart first, then output, then one
\* ProcessEnd or ProcessError, a failed start its error alone, no call of yield
\* after a break, and no return without a reason.
THEOREM RunImplementsEvents == Spec => ImplementsRunEvents
<1>1. Init => Events!REInit
  BY DEF Init, Events!REInit
<1>2. IInv /\ IInv' /\ [Next]_vars => [Events!RENext]_(Events!revars)
  BY StepRefines
<1>3. QED
  BY <1>1, <1>2, InvariantHolds, PTL DEF Spec, ImplementsRunEvents, Events!RESpec

-----------------------------------------------------------------------------
(* What the promise comes to.                                              *)

\* The events of every run are in the order of ProcessOrder, the iterator
\* returns only with a reason, and after a break or a return nothing is yielded.
THEOREM EventsInOrder == Spec => []Promise!InOrder /\ Promise!Silent
<1>1. Promise!Closed
  BY DEF Promise!Closed, ProcessOrder, Streamed
<1>2. Promise!RESpec => []Promise!InOrder
  BY <1>1, Promise!Ordered
<1>3. Promise!RESpec => Promise!Silent
  BY Promise!BreakIsFinal
<1>4. Events!REInit => Promise!REInit
  BY DEF Events!REInit, Promise!REInit
<1>5. [Events!RENext]_(Events!revars) => [Promise!RENext]_(Promise!revars)
  BY DEF Events!RENext, Promise!RENext, Events!revars, Promise!revars,
         Events!YieldEvent, Promise!YieldEvent, Events!Latest, Promise!Latest,
         Events!MayReturn, Promise!MayReturn, Events!Return, Promise!Return,
         Events!BreakAtHeartbeat, Promise!BreakAtHeartbeat,
         Events!CancelContext, Promise!CancelContext
<1>6. ImplementsRunEvents => Promise!RESpec
  BY <1>4, <1>5, PTL DEF ImplementsRunEvents, Events!RESpec, Promise!RESpec
<1>7. QED
  BY <1>2, <1>3, <1>6, RunImplementsEvents, PTL

=============================================================================
