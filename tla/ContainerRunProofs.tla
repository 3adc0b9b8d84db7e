------------------------- MODULE ContainerRunProofs -------------------------
(***************************************************************************)
(* Theorems about ContainerProcess.ExecuteAndStream (ContainerRun.tla), for *)
(* every bound: the type invariant, that the iterator keeps the promise of  *)
(* RunEvents, that a container is not forgotten and is removed only when    *)
(* its goroutines are done, and what an end event says of the output.       *)
(***************************************************************************)
EXTENDS ContainerRun, SequenceTheorems, TLAPS

-----------------------------------------------------------------------------
(* What RunEvents promises, and its lemmas, with the table of a run.       *)

Promise == INSTANCE RunEventsProofs WITH
  Follows <- ContainerOrder, Finals <- ContainerFinals, returned <- pc = "returned"

-----------------------------------------------------------------------------
(* The inductive invariant.                                                *)

\* Where the caller's goroutine can be: before it has the container's id, before the
\* container was started, in the stream loop and the first events of the end, after
\* the end, on the way out.
Unknown == {"begin", "create", "pull", "pullOpen", "pulling", "recreate", "creating"}
Unstarted == Unknown \union {"created", "starting"}
Streaming == {"started", "stream", "final", "end"}
Stopping == {"stop", "cancelRun", "waitExited"}
Deferred == {"cleanup", "remove", "returned"}

\* The history is a sequence of events, and the place of the caller's goroutine
\* says which event was the latest.
Place ==
  /\ log \in Seq(DOMAIN ContainerOrder)
  /\ pc \in Unstarted \union Streaming \union {"ended"} \union Stopping \union Deferred
  /\ pc \in {"begin", "create", "pull"} => Events!Latest = "begin"
  /\ pc = "pullOpen" => Events!Latest = "pullStart"
  /\ pc = "pulling" => Events!Latest \in {"pullStart", "pullProgress"}
  /\ pc = "recreate" => Events!Latest = "pullComplete"
  /\ pc \in {"creating", "created"} => Events!Latest \in {"begin", "pullComplete"}
  /\ pc \in {"starting", "started"} => Events!Latest = "create"
  /\ pc \in {"stream", "final"} => Events!Latest \in {"start", "output"}
  /\ pc = "end" => Events!Latest = "logError"
  /\ pc = "ended" => Events!Latest = "end"

\* The goroutine goes on as long as the consumer does, and leaves for a reason.
Reason ==
  /\ pc \in Unstarted \union Streaming \union {"ended"} => ~broke
  /\ pc \in Stopping \union Deferred => Events!MayReturn

\* The container exists from its creation on; the consumer is told of it, and then
\* the return removes it.
Box ==
  /\ pc \in Unknown \ {"creating"} => box = "none"
  /\ pc \in {"creating", "created", "starting"} => box = "created"
  /\ pc \in Unknown \union {"created"} => ~Emitted("create")
  /\ removal # "none" => pc = "returned"
  /\ NoContainerForgotten

\* The two goroutines are started together, and the logs finish first.
Goroutines ==
  /\ pc \in Unstarted => waiter = "idle"
  /\ pc \in Streaming \union {"ended"} \union Stopping => waiter # "idle"
  /\ waiter = "idle" <=> logs = "idle"
  /\ waiter \in {"sent", "finished"} => logs = "finished"
  /\ pc \in {"final", "end", "ended"} \union Deferred
       => waiter \in {"idle", "sent", "finished"}
  /\ waiter \in {"sent", "finished"} <=> result # "none"

\* What the waiter sends, it saw; it gives the logs up only with an error.
Results ==
  /\ waiter = "exit" \/ result \in {"exit", "logError"} => box \in {"exited", "removed"}
  /\ result = "exit" => ~logErr
  /\ cancelRun /\ pc \in Unstarted \union Streaming
       => waiter = "error" \/ result = "waitError"

\* While nothing was given up, logs that finished without an error are complete.
LogsComplete ==
  /\ logs = "finished" /\ ~logErr /\ ~cancelled /\ ~cancelRun
       => box \in {"exited", "removed"} /\ copied = written

\* After ProcessEnd there is nothing more to yield or to copy.
EndIsLate ==
  /\ Emitted("end") => pc \in {"ended"} \union Deferred
  /\ pc = "end" => Emitted("logError") /\ result = "logError" /\ delivered = copied
  /\ EndAfterLogs

IInv ==
  /\ Place /\ Reason /\ Box /\ Goroutines /\ Results /\ LogsComplete /\ EndIsLate

-----------------------------------------------------------------------------
(* A yield.                                                                *)

\* The events there are, and those a run may end with.
LEMMA OrderFacts ==
  /\ DOMAIN ContainerOrder =
       {"begin", "pullStart", "pullProgress", "pullComplete", "create", "start",
        "output", "status", "heartbeat", "logError", "end", "remove",
        "startError", "error"}
  /\ ContainerFinals = {"startError", "error", "remove"}
BY DEF ContainerOrder, ContainerFinals

\* A yield makes its event the latest one and adds it to those emitted.
LEMMA YieldFacts ==
  ASSUME log \in Seq(DOMAIN ContainerOrder),
         NEW e \in DOMAIN ContainerOrder, NEW go \in BOOLEAN, Yield(e, go)
  PROVE  /\ log' \in Seq(DOMAIN ContainerOrder)
         /\ Events!Latest' = e
         /\ broke' = ~go
         /\ Emitted("create")' <=> Emitted("create") \/ e = "create"
         /\ Emitted("end")' <=> Emitted("end") \/ e = "end"
         /\ Emitted("logError")' <=> Emitted("logError") \/ e = "logError"
<1>1. log' = Append(log, e) /\ broke' = ~go
  BY DEF Yield
<1>2. /\ log' \in Seq(DOMAIN ContainerOrder) /\ log' # << >>
      /\ log'[Len(log')] = e /\ Range(log') = Range(log) \union {e}
  BY <1>1, Promise!LogAppend DEF Range
<1>3. Events!Latest' = e
  BY <1>2 DEF Events!Latest
<1>4. QED
  BY <1>1, <1>2, <1>3 DEF Emitted

\* A step that leaves the history alone leaves what is said of it alone.
LEMMA NoYieldFacts ==
  ASSUME UNCHANGED log
  PROVE  UNCHANGED <<Events!Latest, Emitted("create"), Emitted("end"), Emitted("logError")>>
BY DEF Events!Latest, Emitted

-----------------------------------------------------------------------------
(* The type invariant.                                                     *)

\* Every step of the container, of the two goroutines and of the caller's keeps
\* the variables in their types: no more is copied than was written, and no
\* more is yielded than was copied.
THEOREM TypeCorrect == Spec => []TypeOK
<1>1. Init => TypeOK
  <2>1. 0 \in 0 .. MaxOutput /\ 0 \in 0 .. 0
    BY MaxOutputAssumption
  <2>2. QED
    BY <2>1, Zenon DEF Init, TypeOK
<1>2. ASSUME TypeOK, Output
      PROVE  TypeOK'
  BY <1>2, MaxOutputAssumption DEF Output, TypeOK
<1>3. ASSUME TypeOK, Exit
      PROVE  TypeOK'
  BY <1>3 DEF Exit, background, TypeOK
<1>4. ASSUME TypeOK, CtxCancel
      PROVE  TypeOK'
  BY <1>4 DEF CtxCancel, TypeOK
<1>5. ASSUME TypeOK, LogOpen
      PROVE  TypeOK'
  <2>1. logs' \in {"copying", "finished"} /\ logErr' \in BOOLEAN
    <3>1. CASE logs' = "copying" /\ UNCHANGED logErr
      BY <1>5, <3>1 DEF TypeOK
    <3>2. CASE logs' = "finished" /\ logErr' = TRUE
      BY <3>2
    <3>3. QED
      BY <1>5, <3>1, <3>2 DEF LogOpen
  <2>2. QED
    BY <1>5, <2>1 DEF LogOpen, TypeOK
<1>6. ASSUME TypeOK, LogCopy
      PROVE  TypeOK'
  BY <1>6 DEF LogCopy, TypeOK
<1>7. ASSUME TypeOK, LogEnd
      PROVE  TypeOK'
  BY <1>7 DEF LogEnd, TypeOK
<1>8. ASSUME TypeOK, LogBreak
      PROVE  TypeOK'
  BY <1>8 DEF LogBreak, RunCtxDone, TypeOK
<1>9. ASSUME TypeOK, WaitExit
      PROVE  TypeOK'
  BY <1>9 DEF WaitExit, TypeOK
<1>10. ASSUME TypeOK, WaitError
      PROVE  TypeOK'
  BY <1>10 DEF WaitError, TypeOK
<1>11. ASSUME TypeOK, WaitSend
      PROVE  TypeOK'
  BY <1>11 DEF WaitSend, TypeOK
<1>12. ASSUME TypeOK, WaitFinish
      PROVE  TypeOK'
  BY <1>12 DEF WaitFinish, TypeOK
<1>13. ASSUME TypeOK, Begin
      PROVE  TypeOK'
  <2>1. broke' \in BOOLEAN
    <3>1. CASE UNCHANGED broke
      BY <1>13, <3>1 DEF TypeOK
    <3>2. CASE StartError
      BY <3>2 DEF StartError, Yield
    <3>3. QED
      BY <1>13, <3>1, <3>2 DEF Begin
  <2>2. QED
    BY <1>13, <2>1 DEF Begin, background, TypeOK
<1>14. ASSUME TypeOK, Create
      PROVE  TypeOK'
  BY <1>14 DEF Create, background, TypeOK
<1>15. ASSUME TypeOK, CreateNotFound
      PROVE  TypeOK'
  BY <1>15 DEF CreateNotFound, background, TypeOK
<1>16. ASSUME TypeOK, CreateFails
      PROVE  TypeOK'
  BY <1>16 DEF CreateFails, Yield, StartError, background, TypeOK
<1>17. ASSUME TypeOK, PullStart
      PROVE  TypeOK'
  BY <1>17 DEF PullStart, Yield, YieldThen, background, TypeOK
<1>18. ASSUME TypeOK, PullProgress
      PROVE  TypeOK'
  BY <1>18 DEF PullProgress, Yield, YieldThen, background, TypeOK
<1>19. ASSUME TypeOK, PullComplete
      PROVE  TypeOK'
  BY <1>19 DEF PullComplete, Yield, YieldThen, background, TypeOK
<1>20. ASSUME TypeOK, PullFails
      PROVE  TypeOK'
  BY <1>20 DEF PullFails, Yield, StartError, background, TypeOK
<1>21. ASSUME TypeOK, EmitCreate
      PROVE  TypeOK'
  BY <1>21 DEF EmitCreate, Yield, YieldThen, background, TypeOK
<1>22. ASSUME TypeOK, StartContainer
      PROVE  TypeOK'
  BY <1>22 DEF StartContainer, TypeOK
<1>23. ASSUME TypeOK, StartContainerFails
      PROVE  TypeOK'
  BY <1>23 DEF StartContainerFails, Yield, StartError, background, TypeOK
<1>24. ASSUME TypeOK, YieldStart
      PROVE  TypeOK'
  BY <1>24 DEF YieldStart, Yield, YieldThen, background, TypeOK
<1>25. ASSUME TypeOK, LoopOutput
      PROVE  TypeOK'
  BY <1>25 DEF LoopOutput, Yield, YieldThen, background, TypeOK
<1>26. ASSUME TypeOK, LoopCancelled
      PROVE  TypeOK'
  BY <1>26 DEF LoopCancelled, background, TypeOK
<1>27. ASSUME TypeOK, LoopDone
      PROVE  TypeOK'
  BY <1>27 DEF LoopDone, background, TypeOK
<1>28. ASSUME TypeOK, EmitWaitError
      PROVE  TypeOK'
  BY <1>28 DEF EmitWaitError, Yield, YieldThen, background, TypeOK
<1>29. ASSUME TypeOK, EmitLogError
      PROVE  TypeOK'
  BY <1>29 DEF EmitLogError, Yield, YieldThen, background, TypeOK
<1>30. ASSUME TypeOK, EmitEnd
      PROVE  TypeOK'
  BY <1>30 DEF EmitEnd, Yield, YieldThen, background, TypeOK
<1>31. ASSUME TypeOK, EmitRemove
      PROVE  TypeOK'
  BY <1>31 DEF EmitRemove, Yield, YieldThen, background, TypeOK
<1>32. ASSUME TypeOK, LoopHeartbeat
      PROVE  TypeOK'
  BY <1>32 DEF LoopHeartbeat, background, TypeOK
<1>33. ASSUME TypeOK, StopContainer
      PROVE  TypeOK'
  BY <1>33 DEF StopContainer, background, TypeOK
<1>34. ASSUME TypeOK, CancelRun
      PROVE  TypeOK'
  BY <1>34 DEF CancelRun, background, TypeOK
<1>35. ASSUME TypeOK, WaitExited
      PROVE  TypeOK'
  BY <1>35 DEF WaitExited, background, TypeOK
<1>36. ASSUME TypeOK, Cleanup
      PROVE  TypeOK'
  BY <1>36 DEF Cleanup, background, TypeOK
<1>37. ASSUME TypeOK, RemoveContainer
      PROVE  TypeOK'
  BY <1>37 DEF RemoveContainer, background, TypeOK
<1>38. ASSUME TypeOK, Returned
      PROVE  TypeOK'
  BY <1>38 DEF Returned, vars, TypeOK
<1>39. TypeOK /\ UNCHANGED vars => TypeOK'
  BY DEF TypeOK, vars
<1>40. ASSUME TypeOK, CreateAnswered
      PROVE  TypeOK'
  BY <1>40 DEF CreateAnswered, background, TypeOK
<1>41. ASSUME TypeOK, PullOpen
      PROVE  TypeOK'
  BY <1>41 DEF PullOpen, background, TypeOK
<1>42. TypeOK /\ [Next]_vars => TypeOK'
  BY
     <1>2, <1>3, <1>4, <1>5, <1>6, <1>7, <1>8, <1>9, <1>10, <1>11, <1>12,
     <1>13, <1>14, <1>15, <1>16, <1>17, <1>18, <1>19, <1>20, <1>21, <1>22,
     <1>23, <1>24, <1>25, <1>26, <1>27, <1>28, <1>29, <1>30, <1>31, <1>32,
     <1>33, <1>34, <1>35, <1>36, <1>37, <1>38, <1>39,
     <1>40, <1>41
     DEF Next, Background, Prepare, Stream, Finish
<1>43. QED
  BY <1>1, <1>42, PTL DEF Spec

-----------------------------------------------------------------------------
(* The invariant is kept.                                                  *)

LEMMA InitInv == Init => IInv
<1>1. SUFFICES ASSUME Init
               PROVE  IInv
  OBVIOUS
<1>2. /\ log = << >> /\ log \in Seq(DOMAIN ContainerOrder)
      /\ Events!Latest = "begin" /\ ~Emitted("create") /\ ~Emitted("end")
  BY <1>1 DEF Init, Events!Latest, Emitted, Range
<1>3. QED
  BY <1>1, <1>2
     DEF Init, IInv, Place, Reason, Box, Goroutines, Results, LogsComplete,
         EndIsLate, EndAfterLogs, NoContainerForgotten, Unknown, Unstarted,
         Streaming, Stopping, Deferred

LEMMA NextInv ==
  ASSUME TypeOK, IInv, [Next]_vars
  PROVE  IInv'
<1> USE OrderFacts
    DEF IInv, Place, Reason, Events!MayReturn, Box, Goroutines,
        Results, LogsComplete, EndIsLate, EndAfterLogs, NoContainerForgotten,
        Unknown, Unstarted, Streaming, Stopping, Deferred
<1>1. CASE Output
  <2>1. UNCHANGED <<log, Events!Latest, Emitted("create"), Emitted("end"), Emitted("logError")>>
    BY <1>1, NoYieldFacts DEF Output
  <2>2. QED
    BY <1>1, <2>1 DEF Output, TypeOK
<1>2. CASE Exit
  <2>1. UNCHANGED <<log, Events!Latest, Emitted("create"), Emitted("end"), Emitted("logError")>>
    BY <1>2, NoYieldFacts DEF Exit, background
  <2>2. QED
    BY <1>2, <2>1 DEF Exit, background, TypeOK
<1>3. CASE CtxCancel
  <2>1. UNCHANGED <<log, Events!Latest, Emitted("create"), Emitted("end"), Emitted("logError")>>
    BY <1>3, NoYieldFacts DEF CtxCancel
  <2>2. QED
    BY <1>3, <2>1 DEF CtxCancel, TypeOK
<1>4. CASE LogOpen
  <2>1. UNCHANGED <<log, Events!Latest, Emitted("create"), Emitted("end"), Emitted("logError")>>
    BY <1>4, NoYieldFacts DEF LogOpen
  <2>2. QED
    BY <1>4, <2>1 DEF LogOpen, TypeOK
<1>5. CASE LogCopy
  <2>1. UNCHANGED <<log, Events!Latest, Emitted("create"), Emitted("end"), Emitted("logError")>>
    BY <1>5, NoYieldFacts DEF LogCopy
  <2>2. QED
    BY <1>5, <2>1 DEF LogCopy, TypeOK
<1>6. CASE LogEnd
  <2>1. UNCHANGED <<log, Events!Latest, Emitted("create"), Emitted("end"), Emitted("logError")>>
    BY <1>6, NoYieldFacts DEF LogEnd
  <2>2. QED
    BY <1>6, <2>1 DEF LogEnd, TypeOK
<1>7. CASE LogBreak
  <2>1. UNCHANGED <<log, Events!Latest, Emitted("create"), Emitted("end"), Emitted("logError")>>
    BY <1>7, NoYieldFacts DEF LogBreak, RunCtxDone
  <2>2. logErr' \in BOOLEAN
    BY <1>7, Zenon DEF LogBreak, RunCtxDone
  <2>3. Place' /\ Reason' /\ Box'
    BY <1>7, <2>1, <2>2 DEF LogBreak, TypeOK
  <2>4. Goroutines' /\ Results' /\ LogsComplete'
    BY <1>7, <2>1, <2>2 DEF LogBreak, RunCtxDone, TypeOK
  <2>5. EndIsLate'
    BY <1>7, <2>1, <2>2 DEF LogBreak, TypeOK
  <2>6. QED
    BY ONLY <2>3, <2>4, <2>5, Zenon DEF IInv
<1>8. CASE WaitExit
  <2>1. UNCHANGED <<log, Events!Latest, Emitted("create"), Emitted("end"), Emitted("logError")>>
    BY <1>8, NoYieldFacts DEF WaitExit
  <2>2. QED
    BY <1>8, <2>1 DEF WaitExit, TypeOK
<1>9. CASE WaitError
  <2>1. UNCHANGED <<log, Events!Latest, Emitted("create"), Emitted("end"), Emitted("logError")>>
    BY <1>9, NoYieldFacts DEF WaitError
  <2>2. QED
    BY <1>9, <2>1 DEF WaitError, TypeOK
<1>10. CASE WaitSend
  <2>1. UNCHANGED <<log, Events!Latest, Emitted("create"), Emitted("end"), Emitted("logError")>>
    BY <1>10, NoYieldFacts DEF WaitSend
  <2>2. QED
    BY <1>10, <2>1 DEF WaitSend, TypeOK
<1>11. CASE WaitFinish
  <2>1. UNCHANGED <<log, Events!Latest, Emitted("create"), Emitted("end"), Emitted("logError")>>
    BY <1>11, NoYieldFacts DEF WaitFinish
  <2>2. QED
    BY <1>11, <2>1 DEF WaitFinish, TypeOK
<1>12. CASE Begin
  <2>1. CASE pc' = "create" /\ UNCHANGED <<log, broke>>
    <3>1. UNCHANGED <<Events!Latest, Emitted("create"), Emitted("end"), Emitted("logError")>>
      BY <2>1, NoYieldFacts
    <3>2. QED
      BY <1>12, <2>1, <3>1 DEF Begin, background
  <2>2. CASE StartError /\ pc' = "returned"
    <3>1. PICK go \in BOOLEAN : Yield("startError", go)
      BY <2>2 DEF StartError
    <3>2. /\ log' \in Seq(DOMAIN ContainerOrder) /\ Events!Latest' = "startError"
          /\ Emitted("create")' <=> Emitted("create")
          /\ Emitted("end")' <=> Emitted("end")
          /\ Emitted("logError")' <=> Emitted("logError")
      BY <3>1, YieldFacts
    <3>3. QED
      BY <1>12, <2>2, <3>2 DEF Begin, background
  <2>3. QED
    BY <1>12, <2>1, <2>2 DEF Begin
<1>13. CASE Create
  <2>1. UNCHANGED <<log, Events!Latest, Emitted("create"), Emitted("end"), Emitted("logError")>>
    BY <1>13, NoYieldFacts DEF Create, background
  <2>2. QED
    BY <1>13, <2>1 DEF Create, background, TypeOK
<1>14. CASE CreateNotFound
  <2>1. UNCHANGED <<log, Events!Latest, Emitted("create"), Emitted("end"), Emitted("logError")>>
    BY <1>14, NoYieldFacts DEF CreateNotFound, background
  <2>2. QED
    BY <1>14, <2>1 DEF CreateNotFound, background, TypeOK
<1>15. CASE CreateFails
  <2>1. PICK go \in BOOLEAN : Yield("startError", go)
    BY <1>15 DEF CreateFails, StartError
  <2>2. /\ log' \in Seq(DOMAIN ContainerOrder) /\ Events!Latest' = "startError" /\ broke' = ~go
        /\ Emitted("create")' <=> Emitted("create")
        /\ Emitted("end")' <=> Emitted("end")
        /\ Emitted("logError")' <=> Emitted("logError")
    BY <2>1, YieldFacts
  <2>3. QED
    BY <1>15, <2>1, <2>2 DEF CreateFails, background, TypeOK
<1>16. CASE PullStart
  <2>1. PICK go \in BOOLEAN : /\ Yield("pullStart", go)
                              /\ pc' = IF go THEN "pullOpen" ELSE "returned"
    BY <1>16 DEF PullStart, YieldThen
  <2>2. /\ log' \in Seq(DOMAIN ContainerOrder) /\ Events!Latest' = "pullStart" /\ broke' = ~go
        /\ Emitted("create")' <=> Emitted("create")
        /\ Emitted("end")' <=> Emitted("end")
        /\ Emitted("logError")' <=> Emitted("logError")
    BY <2>1, YieldFacts
  <2>3. QED
    BY <1>16, <2>1, <2>2 DEF PullStart, background, TypeOK
<1>17. CASE PullProgress
  <2>1. PICK go \in BOOLEAN : /\ Yield("pullProgress", go)
                              /\ pc' = IF go THEN "pulling" ELSE "returned"
    BY <1>17 DEF PullProgress, YieldThen
  <2>2. /\ log' \in Seq(DOMAIN ContainerOrder) /\ Events!Latest' = "pullProgress" /\ broke' = ~go
        /\ Emitted("create")' <=> Emitted("create")
        /\ Emitted("end")' <=> Emitted("end")
        /\ Emitted("logError")' <=> Emitted("logError")
    BY <2>1, YieldFacts
  <2>3. QED
    BY <1>17, <2>1, <2>2 DEF PullProgress, background, TypeOK
<1>18. CASE PullComplete
  <2>1. PICK go \in BOOLEAN : /\ Yield("pullComplete", go)
                              /\ pc' = IF go THEN "recreate" ELSE "returned"
    BY <1>18 DEF PullComplete, YieldThen
  <2>2. /\ log' \in Seq(DOMAIN ContainerOrder) /\ Events!Latest' = "pullComplete" /\ broke' = ~go
        /\ Emitted("create")' <=> Emitted("create")
        /\ Emitted("end")' <=> Emitted("end")
        /\ Emitted("logError")' <=> Emitted("logError")
    BY <2>1, YieldFacts
  <2>3. QED
    BY <1>18, <2>1, <2>2 DEF PullComplete, background, TypeOK
<1>19. CASE PullFails
  <2>1. PICK go \in BOOLEAN : Yield("startError", go)
    BY <1>19 DEF PullFails, StartError
  <2>2. /\ log' \in Seq(DOMAIN ContainerOrder) /\ Events!Latest' = "startError" /\ broke' = ~go
        /\ Emitted("create")' <=> Emitted("create")
        /\ Emitted("end")' <=> Emitted("end")
        /\ Emitted("logError")' <=> Emitted("logError")
    BY <2>1, YieldFacts
  <2>3. QED
    BY <1>19, <2>1, <2>2 DEF PullFails, background, TypeOK
<1>20. CASE EmitCreate
  <2>1. PICK go \in BOOLEAN : /\ Yield("create", go)
                              /\ pc' = IF go THEN "starting" ELSE "remove"
    BY <1>20 DEF EmitCreate, YieldThen
  <2>2. /\ log' \in Seq(DOMAIN ContainerOrder) /\ Events!Latest' = "create" /\ broke' = ~go
        /\ Emitted("create")' = TRUE
        /\ Emitted("end")' <=> Emitted("end")
        /\ Emitted("logError")' <=> Emitted("logError")
    BY <2>1, YieldFacts
  <2>3. QED
    BY <1>20, <2>1, <2>2 DEF EmitCreate, background, TypeOK
<1>21. CASE StartContainer
  <2>1. UNCHANGED <<log, Events!Latest, Emitted("create"), Emitted("end"), Emitted("logError")>>
    BY <1>21, NoYieldFacts DEF StartContainer
  <2>2. QED
    BY <1>21, <2>1 DEF StartContainer, TypeOK
<1>22. CASE StartContainerFails
  <2>1. PICK go \in BOOLEAN : Yield("startError", go)
    BY <1>22 DEF StartContainerFails, StartError
  <2>2. /\ log' \in Seq(DOMAIN ContainerOrder) /\ Events!Latest' = "startError" /\ broke' = ~go
        /\ Emitted("create")' <=> Emitted("create")
        /\ Emitted("end")' <=> Emitted("end")
        /\ Emitted("logError")' <=> Emitted("logError")
    BY <2>1, YieldFacts
  <2>3. QED
    BY <1>22, <2>1, <2>2 DEF StartContainerFails, background, TypeOK
<1>23. CASE YieldStart
  <2>1. PICK go \in BOOLEAN : /\ Yield("start", go)
                              /\ pc' = IF go THEN "stream" ELSE "stop"
    BY <1>23 DEF YieldStart, YieldThen
  <2>2. /\ log' \in Seq(DOMAIN ContainerOrder) /\ Events!Latest' = "start" /\ broke' = ~go
        /\ Emitted("create")' <=> Emitted("create")
        /\ Emitted("end")' <=> Emitted("end")
        /\ Emitted("logError")' <=> Emitted("logError")
    BY <2>1, YieldFacts
  <2>3. QED
    BY <1>23, <2>1, <2>2 DEF YieldStart, background, TypeOK
<1>24. CASE LoopOutput
  <2>1. PICK go \in BOOLEAN : /\ Yield("output", go)
                              /\ pc' = IF go THEN pc ELSE "stop"
    BY <1>24 DEF LoopOutput, YieldThen
  <2>2. /\ log' \in Seq(DOMAIN ContainerOrder) /\ Events!Latest' = "output" /\ broke' = ~go
        /\ Emitted("create")' <=> Emitted("create")
        /\ Emitted("end")' <=> Emitted("end")
        /\ Emitted("logError")' <=> Emitted("logError")
    BY <2>1, YieldFacts
  <2>3. QED
    BY <1>24, <2>1, <2>2 DEF LoopOutput, background, TypeOK
<1>25. CASE LoopCancelled
  <2>1. UNCHANGED <<log, Events!Latest, Emitted("create"), Emitted("end"), Emitted("logError")>>
    BY <1>25, NoYieldFacts DEF LoopCancelled, background
  <2>2. QED
    BY <1>25, <2>1 DEF LoopCancelled, background, TypeOK
<1>26. CASE LoopDone
  <2>1. UNCHANGED <<log, Events!Latest, Emitted("create"), Emitted("end"), Emitted("logError")>>
    BY <1>26, NoYieldFacts DEF LoopDone, background
  <2>2. QED
    BY <1>26, <2>1 DEF LoopDone, background, TypeOK
<1>27. CASE EmitWaitError
  <2>1. PICK go \in BOOLEAN : /\ Yield("error", go)
                              /\ pc' = IF go THEN "cleanup" ELSE "cleanup"
    BY <1>27 DEF EmitWaitError, YieldThen
  <2>2. /\ log' \in Seq(DOMAIN ContainerOrder) /\ Events!Latest' = "error" /\ broke' = ~go
        /\ Emitted("create")' <=> Emitted("create")
        /\ Emitted("end")' <=> Emitted("end")
        /\ Emitted("logError")' <=> Emitted("logError")
    BY <2>1, YieldFacts
  <2>3. QED
    BY <1>27, <2>1, <2>2 DEF EmitWaitError, background, TypeOK
<1>28. CASE EmitLogError
  <2>1. PICK go \in BOOLEAN : /\ Yield("logError", go)
                              /\ pc' = IF go THEN "end" ELSE "cleanup"
    BY <1>28 DEF EmitLogError, YieldThen
  <2>2. /\ log' \in Seq(DOMAIN ContainerOrder) /\ Events!Latest' = "logError" /\ broke' = ~go
        /\ Emitted("create")' <=> Emitted("create")
        /\ Emitted("end")' <=> Emitted("end")
        /\ Emitted("logError")' = TRUE
    BY <2>1, YieldFacts
  <2>3. QED
    BY <1>28, <2>1, <2>2 DEF EmitLogError, background, TypeOK
<1>29. CASE EmitEnd
  <2>1. PICK go \in BOOLEAN : /\ Yield("end", go)
                              /\ pc' = IF go THEN "ended" ELSE "cleanup"
    BY <1>29 DEF EmitEnd, YieldThen
  <2>2. /\ log' \in Seq(DOMAIN ContainerOrder) /\ Events!Latest' = "end" /\ broke' = ~go
        /\ Emitted("create")' <=> Emitted("create")
        /\ Emitted("end")' = TRUE
        /\ Emitted("logError")' <=> Emitted("logError")
    BY <2>1, YieldFacts
  <2>3. QED
    BY <1>29, <2>1, <2>2 DEF EmitEnd, background, TypeOK
<1>30. CASE EmitRemove
  <2>1. PICK go \in BOOLEAN : /\ Yield("remove", go)
                              /\ pc' = IF go THEN "cleanup" ELSE "cleanup"
    BY <1>30 DEF EmitRemove, YieldThen
  <2>2. /\ log' \in Seq(DOMAIN ContainerOrder) /\ Events!Latest' = "remove" /\ broke' = ~go
        /\ Emitted("create")' <=> Emitted("create")
        /\ Emitted("end")' <=> Emitted("end")
        /\ Emitted("logError")' <=> Emitted("logError")
    BY <2>1, YieldFacts
  <2>3. QED
    BY <1>30, <2>1, <2>2 DEF EmitRemove, background, TypeOK
<1>31. CASE LoopHeartbeat
  <2>1. UNCHANGED <<log, Events!Latest, Emitted("create"), Emitted("end"), Emitted("logError")>>
    BY <1>31, NoYieldFacts DEF LoopHeartbeat, background
  <2>2. QED
    BY <1>31, <2>1 DEF LoopHeartbeat, background, TypeOK
<1>32. CASE StopContainer
  <2>1. UNCHANGED <<log, Events!Latest, Emitted("create"), Emitted("end"), Emitted("logError")>>
    BY <1>32, NoYieldFacts DEF StopContainer, background
  <2>2. QED
    BY <1>32, <2>1 DEF StopContainer, background, TypeOK
<1>33. CASE CancelRun
  <2>1. UNCHANGED <<log, Events!Latest, Emitted("create"), Emitted("end"), Emitted("logError")>>
    BY <1>33, NoYieldFacts DEF CancelRun, background
  <2>2. QED
    BY <1>33, <2>1 DEF CancelRun, background, TypeOK
<1>34. CASE WaitExited
  <2>1. UNCHANGED <<log, Events!Latest, Emitted("create"), Emitted("end"), Emitted("logError")>>
    BY <1>34, NoYieldFacts DEF WaitExited, background
  <2>2. QED
    BY <1>34, <2>1 DEF WaitExited, background, TypeOK
<1>35. CASE Cleanup
  <2>1. UNCHANGED <<log, Events!Latest, Emitted("create"), Emitted("end"), Emitted("logError")>>
    BY <1>35, NoYieldFacts DEF Cleanup, background
  <2>2. QED
    BY <1>35, <2>1 DEF Cleanup, background, TypeOK
<1>36. CASE RemoveContainer
  <2>1. UNCHANGED <<log, Events!Latest, Emitted("create"), Emitted("end"), Emitted("logError")>>
    BY <1>36, NoYieldFacts DEF RemoveContainer, background
  <2>2. QED
    BY <1>36, <2>1 DEF RemoveContainer, background, TypeOK
<1>37. CASE Returned
  <2>1. UNCHANGED <<log, Events!Latest, Emitted("create"), Emitted("end"), Emitted("logError")>>
    BY <1>37, NoYieldFacts DEF Returned, vars
  <2>2. QED
    BY <1>37, <2>1 DEF Returned, vars, TypeOK
<1>38. CASE UNCHANGED vars
  <2>1. UNCHANGED <<Events!Latest, Emitted("create"), Emitted("end"), Emitted("logError")>>
    BY <1>38, NoYieldFacts DEF vars
  <2>2. QED
    BY <1>38, <2>1 DEF vars
<1>39. CASE CreateAnswered
  <2>1. UNCHANGED <<log, Events!Latest, Emitted("create"), Emitted("end"), Emitted("logError")>>
    BY <1>39, NoYieldFacts DEF CreateAnswered, background
  <2>2. QED
    BY <1>39, <2>1 DEF CreateAnswered, background, TypeOK
<1>40. CASE PullOpen
  <2>1. UNCHANGED <<log, Events!Latest, Emitted("create"), Emitted("end"), Emitted("logError")>>
    BY <1>40, NoYieldFacts DEF PullOpen, background
  <2>2. QED
    BY <1>40, <2>1 DEF PullOpen, background, TypeOK
<1>41. QED
  BY
     <1>1, <1>2, <1>3, <1>4, <1>5, <1>6, <1>7, <1>8, <1>9, <1>10, <1>11,
     <1>12, <1>13, <1>14, <1>15, <1>16, <1>17, <1>18, <1>19, <1>20, <1>21,
     <1>22, <1>23, <1>24, <1>25, <1>26, <1>27, <1>28, <1>29, <1>30, <1>31,
     <1>32, <1>33, <1>34, <1>35, <1>36, <1>37, <1>38, <1>39,
     <1>40
     DEF Next, Background, Prepare, Stream, Finish

\* Every part of the invariant holds of every reachable state.
THEOREM InvariantHolds == Spec => []IInv
<1>1. Init => IInv
  BY InitInv
<1>2. TypeOK /\ IInv /\ [Next]_vars => IInv'
  BY NextInv
<1>3. QED
  BY <1>1, <1>2, TypeCorrect, PTL DEF Spec

-----------------------------------------------------------------------------
(* The safety properties.                                                  *)

\* ProcessEnd comes, unless ctx is cancelled, when the container has exited and
\* all its output was yielded, or after the error of the logs.
THEOREM EndComesAfterLogs == Spec => []EndAfterLogs
<1>1. IInv => EndAfterLogs
  BY DEF IInv, EndIsLate
<1>2. QED
  BY <1>1, InvariantHolds, PTL

\* The container is removed only after the log goroutine and the waiter are
\* through with it.
THEOREM RemovalIsQuiet == Spec => []QuietAtRemove
<1>1. TypeOK /\ IInv => QuietAtRemove
  BY DEF TypeOK, IInv, Box, Goroutines, Deferred, QuietAtRemove
<1>2. QED
  BY <1>1, TypeCorrect, InvariantHolds, PTL

\* Whatever call of the daemon fails after the one that gave the container's id, and
\* wherever the consumer breaks or ctx is cancelled, no return leaves the container
\* behind untried.
THEOREM ContainerNotForgotten == Spec => []NoContainerForgotten
<1>1. IInv => NoContainerForgotten
  BY DEF IInv, Box
<1>2. QED
  BY <1>1, InvariantHolds, PTL

-----------------------------------------------------------------------------
(* The refinement of RunEvents.                                            *)

\* What may follow each event the caller's goroutine can be at.
LEMMA FollowFacts ==
  /\ ContainerOrder["begin"] = {"create", "pullStart", "startError"}
  /\ ContainerOrder["pullStart"] = {"pullProgress", "pullComplete", "startError"}
  /\ ContainerOrder["pullProgress"] = {"pullProgress", "pullComplete", "startError"}
  /\ ContainerOrder["pullComplete"] = {"create", "startError"}
  /\ ContainerOrder["create"] = {"start", "startError"}
  /\ \A e \in {"start", "output"} :
       {"output", "heartbeat", "logError", "end", "error"} \subseteq ContainerOrder[e]
  /\ ContainerOrder["logError"] = {"end"}
  /\ ContainerOrder["end"] = {"remove"}
BY DEF ContainerOrder, Streamed

\* A yield of an event that may follow is a step of RunEvents: where the
\* goroutine yields, it neither has seen a break nor has returned.
LEMMA YieldRefines ==
  ASSUME IInv, IInv', UNCHANGED cancelled,
         pc \in Unstarted \union Streaming \union {"ended"},
         NEW e \in ContainerOrder[Events!Latest],
         NEW go \in BOOLEAN, Yield(e, go)
  PROVE  Events!RENext
<1>1. ~broke /\ pc # "returned"
  BY DEF IInv, Reason, Unknown, Unstarted, Streaming
<1>2. log' = Append(log, e) /\ broke' \in BOOLEAN
  BY DEF Yield
<1>3. (pc = "returned")' \in BOOLEAN
  OBVIOUS
<1>4. (pc = "returned")' => Events!MayReturn'
  BY DEF IInv, Reason, Deferred
<1>5. QED
  BY <1>1, <1>2, <1>3, <1>4 DEF Events!RENext, Events!YieldEvent

\* A step that yields nothing and does not cancel is invisible, or is the return.
LEMMA QuietRefines ==
  ASSUME IInv, IInv', UNCHANGED <<log, broke, cancelled>>,
         pc = "returned" => pc' = "returned"
  PROVE  [Events!RENext]_(Events!revars)
<1>1. CASE pc' = "returned" /\ pc # "returned"
  <2>1. Events!MayReturn'
    BY <1>1 DEF IInv, Reason, Deferred
  <2>2. Events!MayReturn
    BY <2>1 DEF Events!MayReturn, Events!Latest
  <2>3. QED
    BY <1>1, <2>2 DEF Events!RENext, Events!Return
<1>2. CASE (pc' = "returned") = (pc = "returned")
  BY <1>2 DEF Events!revars
<1>3. QED
  BY <1>1, <1>2

LEMMA StepRefines ==
  ASSUME IInv, IInv', [Next]_vars
  PROVE  [Events!RENext]_(Events!revars)
<1>1. CASE Output
  BY <1>1, QuietRefines DEF Output
<1>2. CASE Exit
  BY <1>2, QuietRefines DEF Exit, background
<1>3. CASE CtxCancel
  BY <1>3 DEF CtxCancel, Events!RENext, Events!CancelContext
<1>4. CASE LogOpen
  BY <1>4, QuietRefines DEF LogOpen
<1>5. CASE LogCopy
  BY <1>5, QuietRefines DEF LogCopy
<1>6. CASE LogEnd
  BY <1>6, QuietRefines DEF LogEnd
<1>7. CASE LogBreak
  BY <1>7, QuietRefines DEF LogBreak
<1>8. CASE WaitExit
  BY <1>8, QuietRefines DEF WaitExit
<1>9. CASE WaitError
  BY <1>9, QuietRefines DEF WaitError
<1>10. CASE WaitSend
  BY <1>10, QuietRefines DEF WaitSend
<1>11. CASE WaitFinish
  BY <1>11, QuietRefines DEF WaitFinish
<1>12. CASE Begin
  <2>1. CASE pc' = "create" /\ UNCHANGED <<log, broke>>
    BY <1>12, <2>1, QuietRefines DEF Begin, background
  <2>2. CASE StartError /\ pc' = "returned"
    <3>1. PICK go \in BOOLEAN : Yield("startError", go)
      BY <2>2 DEF StartError
    <3>2. "startError" \in ContainerOrder[Events!Latest]
      BY <1>12, FollowFacts DEF Begin, IInv, Place
    <3>3. QED
      BY <1>12, <3>1, <3>2, YieldRefines DEF Begin, background, Unknown, Unstarted
  <2>3. QED
    BY <1>12, <2>1, <2>2 DEF Begin
<1>13. CASE Create
  BY <1>13, QuietRefines DEF Create, background
<1>14. CASE CreateNotFound
  BY <1>14, QuietRefines DEF CreateNotFound, background
<1>15. CASE CreateFails
  <2>1. PICK go \in BOOLEAN : Yield("startError", go)
    BY <1>15 DEF CreateFails, StartError
  <2>2. "startError" \in ContainerOrder[Events!Latest]
    BY <1>15, FollowFacts DEF CreateFails, IInv, Place
  <2>3. QED
    BY <1>15, <2>1, <2>2, YieldRefines DEF CreateFails, background, Unknown, Unstarted
<1>16. CASE PullStart
  <2>1. PICK go \in BOOLEAN : Yield("pullStart", go)
    BY <1>16 DEF PullStart, YieldThen
  <2>2. "pullStart" \in ContainerOrder[Events!Latest]
    BY <1>16, FollowFacts DEF PullStart, IInv, Place
  <2>3. QED
    BY <1>16, <2>1, <2>2, YieldRefines DEF PullStart, background, Unknown, Unstarted, Streaming
<1>17. CASE PullProgress
  <2>1. PICK go \in BOOLEAN : Yield("pullProgress", go)
    BY <1>17 DEF PullProgress, YieldThen
  <2>2. "pullProgress" \in ContainerOrder[Events!Latest]
    BY <1>17, FollowFacts DEF PullProgress, IInv, Place
  <2>3. QED
    BY <1>17, <2>1, <2>2, YieldRefines DEF PullProgress, background, Unknown, Unstarted, Streaming
<1>18. CASE PullComplete
  <2>1. PICK go \in BOOLEAN : Yield("pullComplete", go)
    BY <1>18 DEF PullComplete, YieldThen
  <2>2. "pullComplete" \in ContainerOrder[Events!Latest]
    BY <1>18, FollowFacts DEF PullComplete, IInv, Place
  <2>3. QED
    BY <1>18, <2>1, <2>2, YieldRefines DEF PullComplete, background, Unknown, Unstarted, Streaming
<1>19. CASE PullFails
  <2>1. PICK go \in BOOLEAN : Yield("startError", go)
    BY <1>19 DEF PullFails, StartError
  <2>2. "startError" \in ContainerOrder[Events!Latest]
    BY <1>19, FollowFacts DEF PullFails, IInv, Place
  <2>3. QED
    BY <1>19, <2>1, <2>2, YieldRefines DEF PullFails, background, Unknown, Unstarted, Streaming
<1>20. CASE EmitCreate
  <2>1. PICK go \in BOOLEAN : Yield("create", go)
    BY <1>20 DEF EmitCreate, YieldThen
  <2>2. "create" \in ContainerOrder[Events!Latest]
    BY <1>20, FollowFacts DEF EmitCreate, IInv, Place
  <2>3. QED
    BY <1>20, <2>1, <2>2, YieldRefines DEF EmitCreate, background, Unknown, Unstarted, Streaming
<1>21. CASE StartContainer
  BY <1>21, QuietRefines DEF StartContainer
<1>22. CASE StartContainerFails
  <2>1. PICK go \in BOOLEAN : Yield("startError", go)
    BY <1>22 DEF StartContainerFails, StartError
  <2>2. "startError" \in ContainerOrder[Events!Latest]
    BY <1>22, FollowFacts DEF StartContainerFails, IInv, Place
  <2>3. QED
    BY <1>22, <2>1, <2>2, YieldRefines DEF StartContainerFails, background, Unknown, Unstarted, Streaming
<1>23. CASE YieldStart
  <2>1. PICK go \in BOOLEAN : Yield("start", go)
    BY <1>23 DEF YieldStart, YieldThen
  <2>2. "start" \in ContainerOrder[Events!Latest]
    BY <1>23, FollowFacts DEF YieldStart, IInv, Place
  <2>3. QED
    BY <1>23, <2>1, <2>2, YieldRefines DEF YieldStart, background, Unknown, Unstarted, Streaming
<1>24. CASE LoopOutput
  <2>1. PICK go \in BOOLEAN : Yield("output", go)
    BY <1>24 DEF LoopOutput, YieldThen
  <2>2. "output" \in ContainerOrder[Events!Latest]
    BY <1>24, FollowFacts DEF LoopOutput, IInv, Place
  <2>3. QED
    BY <1>24, <2>1, <2>2, YieldRefines DEF LoopOutput, background, Unknown, Unstarted, Streaming
<1>25. CASE LoopCancelled
  BY <1>25, QuietRefines DEF LoopCancelled, background
<1>26. CASE LoopDone
  BY <1>26, QuietRefines DEF LoopDone, background
<1>27. CASE EmitWaitError
  <2>1. PICK go \in BOOLEAN : Yield("error", go)
    BY <1>27 DEF EmitWaitError, YieldThen
  <2>2. "error" \in ContainerOrder[Events!Latest]
    BY <1>27, FollowFacts DEF EmitWaitError, IInv, Place
  <2>3. QED
    BY <1>27, <2>1, <2>2, YieldRefines DEF EmitWaitError, background, Unknown, Unstarted, Streaming
<1>28. CASE EmitLogError
  <2>1. PICK go \in BOOLEAN : Yield("logError", go)
    BY <1>28 DEF EmitLogError, YieldThen
  <2>2. "logError" \in ContainerOrder[Events!Latest]
    BY <1>28, FollowFacts DEF EmitLogError, IInv, Place
  <2>3. QED
    BY <1>28, <2>1, <2>2, YieldRefines DEF EmitLogError, background, Unknown, Unstarted, Streaming
<1>29. CASE EmitEnd
  <2>1. PICK go \in BOOLEAN : Yield("end", go)
    BY <1>29 DEF EmitEnd, YieldThen
  <2>2. "end" \in ContainerOrder[Events!Latest]
    BY <1>29, FollowFacts DEF EmitEnd, IInv, Place
  <2>3. QED
    BY <1>29, <2>1, <2>2, YieldRefines DEF EmitEnd, background, Unknown, Unstarted, Streaming
<1>30. CASE EmitRemove
  <2>1. PICK go \in BOOLEAN : Yield("remove", go)
    BY <1>30 DEF EmitRemove, YieldThen
  <2>2. "remove" \in ContainerOrder[Events!Latest]
    BY <1>30, FollowFacts DEF EmitRemove, IInv, Place
  <2>3. QED
    BY <1>30, <2>1, <2>2, YieldRefines DEF EmitRemove, background, Unknown, Unstarted, Streaming
<1>31. CASE LoopHeartbeat
  <2>1. "heartbeat" \in ContainerOrder[Events!Latest] /\ ~broke
    BY <1>31, FollowFacts DEF LoopHeartbeat, IInv, Place, Reason, Streaming
  <2>2. UNCHANGED <<log, cancelled, pc = "returned">> /\ broke' = TRUE /\ pc # "returned"
    BY <1>31 DEF LoopHeartbeat, background
  <2>3. QED
    BY <2>1, <2>2 DEF Events!RENext, Events!BreakAtHeartbeat
<1>32. CASE StopContainer
  BY <1>32, QuietRefines DEF StopContainer, background
<1>33. CASE CancelRun
  BY <1>33, QuietRefines DEF CancelRun, background
<1>34. CASE WaitExited
  BY <1>34, QuietRefines DEF WaitExited, background
<1>35. CASE Cleanup
  BY <1>35, QuietRefines DEF Cleanup, background
<1>36. CASE RemoveContainer
  BY <1>36, QuietRefines DEF RemoveContainer, background
<1>37. CASE Returned
  BY <1>37, QuietRefines DEF Returned, vars
<1>38. CASE UNCHANGED vars
  BY <1>38, QuietRefines DEF vars
<1>39. CASE CreateAnswered
  BY <1>39, QuietRefines DEF CreateAnswered, background
<1>40. CASE PullOpen
  BY <1>40, QuietRefines DEF PullOpen, background
<1>41. QED
  BY
     <1>1, <1>2, <1>3, <1>4, <1>5, <1>6, <1>7, <1>8, <1>9, <1>10, <1>11,
     <1>12, <1>13, <1>14, <1>15, <1>16, <1>17, <1>18, <1>19, <1>20, <1>21,
     <1>22, <1>23, <1>24, <1>25, <1>26, <1>27, <1>28, <1>29, <1>30, <1>31,
     <1>32, <1>33, <1>34, <1>35, <1>36, <1>37, <1>38, <1>39,
     <1>40
     DEF Next, Background, Prepare, Stream, Finish

\* The iterator implements RunEvents: whichever call of the daemon fails and
\* wherever the consumer breaks, the events come in the order of the table, none
\* comes after a break, and the iterator returns only for a reason.
THEOREM RunImplementsEvents == Spec => ImplementsRunEvents
<1>1. Init => Events!REInit
  BY DEF Init, Events!REInit
<1>2. IInv /\ IInv' /\ [Next]_vars => [Events!RENext]_(Events!revars)
  BY StepRefines
<1>3. QED
  BY <1>1, <1>2, InvariantHolds, PTL DEF Spec, ImplementsRunEvents, Events!RESpec

-----------------------------------------------------------------------------
(* What the promise comes to.                                              *)

\* The events of every run are in the order of ContainerOrder, the iterator
\* returns only with a reason, and after a break or a return nothing is yielded.
THEOREM EventsInOrder == Spec => []Promise!InOrder /\ Promise!Silent
<1>1. Promise!Closed
  BY DEF Promise!Closed, ContainerOrder, Streamed
<1>2. Promise!RESpec => []Promise!InOrder
  BY <1>1, Promise!Ordered
<1>3. Promise!RESpec => Promise!Silent
  BY Promise!BreakIsFinal
<1>4. Events!REInit => Promise!REInit
  BY DEF Events!REInit, Promise!REInit
<1>5. [Events!RENext]_(Events!revars) => [Promise!RENext]_(Promise!revars)
  BY DEF Events!RENext, Promise!RENext, Events!revars, Promise!revars,
         Events!YieldEvent, Promise!YieldEvent, Events!Latest, Promise!Latest,
         Events!MayReturn, Promise!MayReturn, Events!Return, Promise!Return,
         Events!BreakAtHeartbeat, Promise!BreakAtHeartbeat,
         Events!CancelContext, Promise!CancelContext
<1>6. ImplementsRunEvents => Promise!RESpec
  BY <1>4, <1>5, PTL DEF ImplementsRunEvents, Events!RESpec, Promise!RESpec
<1>7. QED
  BY <1>2, <1>3, <1>6, RunImplementsEvents, PTL

=============================================================================
