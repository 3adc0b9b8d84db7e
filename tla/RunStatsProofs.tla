--------------------------- MODULE RunStatsProofs ---------------------------
(***************************************************************************)
(* Theorems about RunStats for runs of a Process one after another: the     *)
(* timer's totals are the instants each state was the most urgent one, and  *)
(* the duration counter has them all, each once; for any number of runs,    *)
(* ids and instants.                                                        *)
(***************************************************************************)
EXTENDS RunStats, StatusTimerProofs, FiniteSetTheorems

Places == {"idle", "gauge", "started", "stream", "add", "final", "addLeft",
           "addEnd", "stop", "exit", "error", "returned"}

\* Where a run is before its start and after its return.
Resting == {"idle", "returned"}

\* Where the run has accrued time it has not added to the counter.
Adding == {"add", "addLeft", "addEnd"}

\* Where the timer is open.
Open == {"gauge", "started", "stream", "add", "final"}

\* The types, with those of the history.
TypeInv ==
  /\ now \in Times /\ startTime \in 0 .. now /\ duration \in 0 .. now
  /\ statusTimer \in Timers /\ own \in [Runs -> Timers]
  /\ statusTimer.since \in 0 .. now
  /\ exitCode \in Runs \union {NoRun} /\ pid \in Runs \union {NoRun}
  /\ eventCount \in Nat /\ errorCount \in 0 .. eventCount
  /\ gauge \in [Runs -> {"unset", "running", "stopped"}]
  /\ accruals \in [Runs -> [Live -> Times]] /\ counter \in [Live -> Nat]
  /\ endTime \in [Runs -> Times \union {Never}] /\ seen \in [Runs -> Times]
  /\ pc \in [Runs -> Places]
  /\ reported \in [Ids -> Reports \union {"none"}]
  /\ urgent \in [Times -> Counting]
  /\ past \in [Live -> Nat]

\* The run that started last is the only one under way, and the timer is its own.
Turn ==
  /\ \A r \in Runs : /\ pc[r] \notin Resting => pid = r
                     /\ pc[r] = "idle" => own[r] = NewTimer /\ endTime[r] = Never
                     /\ pc[r] \in Open => ~own[r].closed
                     /\ pc[r] \notin Adding => accruals[r] = NoTime
  /\ pid = NoRun => statusTimer = NewTimer
  /\ pid # NoRun => pc[pid] # "idle" /\ statusTimer = own[pid]

\* The run is past its start and what it read; the interval of its timer begins
\* at its last report.
Clock ==
  pid # NoRun =>
    /\ seen[pid] \in startTime .. now
    /\ endTime[pid] # Never => endTime[pid] \in seen[pid] .. now
    /\ pc[pid] \in {"gauge", "started", "stream"} => endTime[pid] = Never
    /\ pc[pid] = "final" \/ own[pid].closed => endTime[pid] # Never
    /\ ~statusTimer.closed /\ statusTimer.cur # "none" => statusTimer.since = seen[pid]

\* An open timer knows what each id last reported, and the instants since the
\* last report count under the most urgent of that.
Standing ==
  pid # NoRun /\ ~statusTimer.closed =>
    /\ statusTimer.records =
         [i \in Ids |-> IF reported[i] \in Live THEN reported[i] ELSE "none"]
    /\ statusTimer.cur = MostUrgent(reported)
    /\ \A k \in seen[pid] .. MaxTime : urgent[k] = statusTimer.cur

\* The totals, which never exceed the time there was.
Totals ==
  /\ CountsByUrgency
  /\ pid = NoRun => statusTimer.totals = NoTime
  /\ pid # NoRun => \A s \in Live : statusTimer.totals[s] \in 0 .. (Horizon - startTime)

\* What a run has accrued and the counter has not.
Pending(s) == IF pid = NoRun THEN 0 ELSE accruals[pid][s]

\* No interval is lost or counted twice between the timer and the counter.
Balance ==
  \A s \in Live : counter[s] + Pending(s) = past[s] + statusTimer.totals[s]

\* The inductive invariant.
IInv == TypeInv /\ Turn /\ Clock /\ Standing /\ Totals /\ Balance

-----------------------------------------------------------------------------
(* Instants.                                                                *)

\* The instants from `from' on and before `upTo' at which f is s.
Instants(f, from, upTo, s) == Cardinality({k \in from .. upTo - 1 : f[k] = s})

\* An interval without instants has none in any state.
LEMMA InstantsNone ==
  ASSUME NEW f, NEW from \in Int, NEW s
  PROVE  Instants(f, from, from, s) = 0
<1>1. {k \in from .. from - 1 : f[k] = s} = {}
  OBVIOUS
<1>. QED
  BY <1>1, FS_EmptySet DEF Instants

\* Later instants add to a state what they are if f is in it, and else nothing.
LEMMA InstantsAdd ==
  ASSUME NEW f, NEW from \in Int, NEW mid \in Int, NEW upTo \in Int, NEW s,
         from <= mid, mid <= upTo
  PROVE  /\ Instants(f, from, mid, s) \in Nat
         /\ (\A k \in mid .. upTo - 1 : f[k] = s) =>
              Instants(f, from, upTo, s) = Instants(f, from, mid, s) + (upTo - mid)
         /\ (\A k \in mid .. upTo - 1 : f[k] # s) =>
              Instants(f, from, upTo, s) = Instants(f, from, mid, s)
<1> DEFINE early == {k \in from .. mid - 1 : f[k] = s}
           late == {k \in mid .. upTo - 1 : f[k] = s}
<1>1. IsFiniteSet(from .. mid - 1) /\ IsFiniteSet(mid .. upTo - 1)
  BY FS_Interval
<1>2. IsFiniteSet(early) /\ IsFiniteSet(late)
  BY <1>1, FS_Subset
<1>3. Cardinality(early) \in Nat /\ Cardinality(late) \in Nat
  BY <1>2, FS_CardinalityType
<1>4. /\ (\A k \in mid .. upTo - 1 : f[k] = s) => Cardinality(late) = upTo - mid
      /\ (\A k \in mid .. upTo - 1 : f[k] # s) => Cardinality(late) = 0
  <2>1. ASSUME \A k \in mid .. upTo - 1 : f[k] = s
        PROVE  Cardinality(late) = upTo - mid
    <3>1. late = mid .. upTo - 1
      BY <2>1
    <3>2. upTo - 1 \in Int
      OBVIOUS
    <3>3. Cardinality(mid .. upTo - 1) =
            IF mid > upTo - 1 THEN 0 ELSE (upTo - 1) - mid + 1
      BY <3>2, FS_Interval
    <3>4. Cardinality(mid .. upTo - 1) = upTo - mid
      BY <3>3
    <3>. QED
      BY <3>1, <3>4
  <2>2. ASSUME \A k \in mid .. upTo - 1 : f[k] # s
        PROVE  Cardinality(late) = 0
    <3>1. late = {}
      BY <2>2
    <3>. QED
      BY <3>1, FS_EmptySet
  <2>. QED
    BY <2>1, <2>2
<1>5. early \intersect late = {} /\ {k \in from .. upTo - 1 : f[k] = s} = early \union late
  OBVIOUS
<1>6. Cardinality(early \union late) = Cardinality(early) + Cardinality(late)
  <2> HIDE DEF early, late
  <2>1. Cardinality(early \union late) =
          Cardinality(early) + Cardinality(late) - Cardinality(early \intersect late)
    BY <1>2, FS_Union
  <2>2. Cardinality(early \intersect late) = 0
    BY <1>5, FS_EmptySet
  <2>. QED
    BY <1>3, <1>4, <2>1, <2>2
<1>. QED
  BY <1>3, <1>4, <1>5, <1>6 DEF Instants

\* Instants are counted alike where the functions are alike.
LEMMA InstantsSame ==
  ASSUME NEW f, NEW g, NEW from \in Int, NEW upTo \in Int, NEW s,
         \A k \in from .. upTo - 1 : f[k] = g[k]
  PROVE  Instants(f, from, upTo, s) = Instants(g, from, upTo, s)
<1>1. {k \in from .. upTo - 1 : f[k] = s} = {k \in from .. upTo - 1 : g[k] = s}
  OBVIOUS
<1>. QED
  BY <1>1 DEF Instants

\* TimeByUrgency counts instants of the run that started last.
LEMMA TimeIsInstants ==
  ASSUME NEW s \in Live
  PROVE  TimeByUrgency[s] = Instants(urgent, startTime, Horizon, s)
BY DEF TimeByUrgency, Counted, Instants

-----------------------------------------------------------------------------
(* What stands.                                                             *)

Standings == [Ids -> Reports \union {"none"}]

\* The records of a timer that knows a standing.
Alive(standing) ==
  [i \in Ids |-> IF standing[i] \in Live THEN standing[i] ELSE "none"]

\* The timer's aggregate is the most urgent state that stands.
LEMMA AggregateIsMostUrgent ==
  ASSUME NEW standing \in Standings
  PROVE  Aggregate(Alive(standing)) = MostUrgent(standing)
<1> DEFINE live == {Alive(standing)[i] : i \in Ids}
           found == {i \in Ids : standing[i] \in Live}
<1>1. \A s \in Live : s \in live <=> \E i \in Ids : standing[i] = s
  BY DEF Alive, Live
<1>2. CASE \E i \in Ids : standing[i] = "blocked"
  <2>1. "blocked" \in live /\ \E i \in found : standing[i] = "blocked"
    BY <1>1, <1>2 DEF Live
  <2>. QED
    BY <2>1 DEF Aggregate, MostUrgent
<1>3. CASE (\A i \in Ids : standing[i] # "blocked") /\ \E i \in Ids : standing[i] = "working"
  <2>1. "blocked" \notin live /\ "working" \in live
    BY <1>1, <1>3 DEF Live
  <2>2. /\ \A i \in found : standing[i] # "blocked"
        /\ \E i \in found : standing[i] = "working"
    BY <1>3 DEF Live
  <2>3. Aggregate(Alive(standing)) = "working"
    BY <2>1 DEF Aggregate
  <2>4. MostUrgent(standing) = "working"
    BY <2>2 DEF MostUrgent
  <2>. QED
    BY <2>3, <2>4
<1>4. CASE /\ \A i \in Ids : standing[i] \notin {"blocked", "working"}
           /\ \E i \in Ids : standing[i] = "idle"
  <2>1. live \intersect {"blocked", "working"} = {} /\ "idle" \in live
    BY <1>1, <1>4 DEF Live
  <2>2. found # {} /\ \A i \in found : standing[i] = "idle"
    BY <1>4 DEF Live
  <2>3. Aggregate(Alive(standing)) = "idle"
    BY <2>1 DEF Aggregate
  <2>4. MostUrgent(standing) = "idle"
    BY <2>2 DEF MostUrgent
  <2>. QED
    BY <2>3, <2>4
<1>5. CASE \A i \in Ids : standing[i] \notin Live
  <2>1. "blocked" \notin live /\ "working" \notin live /\ "idle" \notin live
    BY <1>1, <1>5 DEF Live
  <2>2. found = {}
    BY <1>5
  <2>3. Aggregate(Alive(standing)) = "none"
    BY <2>1 DEF Aggregate
  <2>4. MostUrgent(standing) = "none"
    BY <2>2 DEF MostUrgent
  <2>. QED
    BY <2>3, <2>4
<1>. QED
  BY <1>2, <1>3, <1>4, <1>5 DEF Live

\* A report changes the records as it changes what stands.
LEMMA StandsIsRecorded ==
  ASSUME reported \in Standings, NEW state \in Reports, NEW id \in Ids
  PROVE  /\ Stands(state, id) \in Standings
         /\ Recorded(Alive(reported), state, id) = Alive(Stands(state, id))
<1>1. Stands(state, id) \in Standings
  BY DEF Stands, Standings
<1>2. id \in Clears[id]
  BY ClearsAssumption
<1>3. CASE state \in Live
  BY <1>3 DEF Recorded, Alive, Stands, Standings, Live
<1>4. CASE state \in {"done", "error"}
  BY <1>4 DEF Recorded, Alive, Stands, Standings, Live
<1>5. CASE state = "clear"
  BY <1>2, <1>5 DEF Recorded, Alive, Stands, Standings, Live
<1>6. CASE state = "unknown"
  BY <1>6 DEF Recorded, Alive, Stands, Standings, Live
<1>. QED
  BY <1>1, <1>3, <1>4, <1>5, <1>6 DEF Reports

-----------------------------------------------------------------------------
(* The timer of the run under way.                                          *)

\* What the timer has counted once an interval up to `at' is accrued.
LEMMA AccrueUpTo ==
  ASSUME TypeInv, Turn, Clock, Standing, Totals, pid # NoRun, ~statusTimer.closed,
         NEW at \in Times, seen[pid] <= at, at <= now
  PROVE  /\ Accrue(statusTimer, at).since \in 0 .. now
         /\ Accrue(statusTimer, at).cur # "none" => Accrue(statusTimer, at).since = at
         /\ \A s \in Live :
              LET total == Accrue(statusTimer, at).totals[s] IN
              /\ total = Instants(urgent, startTime, at, s)
              /\ total \in 0 .. (at - startTime)
              /\ total - statusTimer.totals[s] \in Times
<1> DEFINE tm == statusTimer
           c == tm.cur
           last == seen[pid]
<1>1. /\ tm \in Timers /\ at \in Int /\ last \in Nat /\ startTime \in Nat
      /\ startTime <= last /\ last <= at /\ at <= MaxTime /\ tm.since \in Nat
      /\ Horizon = last /\ c \in Counting
      /\ c # "none" => tm.since = last
      /\ \A k \in last .. MaxTime : urgent[k] = c
  <2>1. pid \in Runs /\ statusTimer = own[pid]
    BY DEF TypeInv, Turn
  <2>2. Horizon = last
    BY <2>1 DEF Horizon
  <2>. QED
    BY <2>1, <2>2, MaxTimeAssumption DEF TypeInv, Clock, Standing, Times, Timers
<1>2. \A s \in Live : /\ tm.totals[s] = Instants(urgent, startTime, last, s)
                      /\ tm.totals[s] \in 0 .. (last - startTime)
  BY <1>1, TimeIsInstants DEF Totals, CountsByUrgency
<1> HIDE DEF tm, c, last
<1>3. \A s \in Live : Instants(urgent, startTime, at, s) =
                        tm.totals[s] + IF c = s THEN at - last ELSE 0
  <2> TAKE s \in Live
  <2>1. last \in Int /\ startTime \in Int /\ \A k \in last .. at - 1 : urgent[k] = c
    BY <1>1, MaxTimeAssumption
  <2>2. CASE c = s
    <3>1. \A k \in last .. at - 1 : urgent[k] = s
      BY <2>1, <2>2
    <3>. QED
      BY <1>1, <1>2, <2>1, <2>2, <3>1, InstantsAdd
  <2>3. CASE c # s
    <3>1. \A k \in last .. at - 1 : urgent[k] # s
      BY <2>1, <2>3
    <3>. QED
      BY <1>1, <1>2, <2>1, <2>3, <3>1, InstantsAdd
  <2>. QED
    BY <2>2, <2>3
<1>4. CASE c # "none" /\ at > tm.since
  <2>1. /\ Accrue(tm, at).since = at
        /\ Accrue(tm, at).totals = [tm.totals EXCEPT ![c] = @ + (at - last)]
    BY <1>1, <1>4, AccrueEffect DEF c
  <2>2. c \in Live /\ tm.totals \in [Live -> Int]
    BY <1>1, <1>4 DEF Counting, Timers
  <2>3. \A s \in Live : Accrue(tm, at).totals[s] =
                          tm.totals[s] + IF c = s THEN at - last ELSE 0
    BY <1>2, <2>1, <2>2
  <2>4. ASSUME NEW s \in Live
        PROVE  /\ Accrue(tm, at).totals[s] = Instants(urgent, startTime, at, s)
               /\ Accrue(tm, at).totals[s] \in 0 .. (at - startTime)
               /\ Accrue(tm, at).totals[s] - tm.totals[s] \in 0 .. MaxTime
    BY <1>1, <1>2, <1>3, <2>3, MaxTimeAssumption
  <2>5. at \in 0 .. now
    BY DEF TypeInv, Times
  <2>. QED
    BY <2>1, <2>4, <2>5 DEF tm, Times
<1>5. CASE c = "none" \/ at <= tm.since
  <2>1. Accrue(tm, at) = tm
    BY <1>1, <1>5, AccrueEffect DEF c
  <2>2. \A s \in Live : Instants(urgent, startTime, at, s) = tm.totals[s]
    BY <1>1, <1>2, <1>3, <1>5 DEF Live
  <2>. QED
    BY <1>1, <1>2, <1>5, <2>1, <2>2, MaxTimeAssumption DEF tm, c, Times, TypeInv
<1>. QED
  BY <1>1, <1>4, <1>5

\* Steps that leave the timer and what it is compared with leave the totals.
LEMMA TotalsFrame ==
  ASSUME Totals, Turn, pid \in Runs \union {NoRun},
         UNCHANGED <<pid, startTime, statusTimer, own, seen, urgent>>,
         pid # NoRun /\ own[pid].closed => endTime'[pid] = endTime[pid]
  PROVE  Totals'
<1>1. Horizon' = Horizon
  BY DEF Horizon
<1>2. TimeByUrgency' = TimeByUrgency
  BY <1>1 DEF TimeByUrgency, Counted
<1>. QED
  BY <1>1, <1>2 DEF Totals, CountsByUrgency

\* A run that is neither before its start nor returned is the last that started.
LEMMA UnderWay ==
  ASSUME TypeInv, Turn, NEW r \in Runs, pc[r] \notin Resting
  PROVE  /\ pid = r /\ pid # NoRun /\ statusTimer = own[r]
         /\ pc[r] \in Open => ~statusTimer.closed
         /\ \A q \in Runs \ {r} : pc[q] \in Resting
BY NoRunAssumption DEF Turn

-----------------------------------------------------------------------------
(* Reports.                                                                 *)

\* A report keeps the invariant.
LEMMA ObserveStep ==
  ASSUME IInv, NEW r \in Runs, ObserveStatus(r)
  PROVE  IInv'
<1> USE NoRunAssumption, MaxTimeAssumption
<1>1. PICK at \in seen[r] .. (IF pc[r] = "final" THEN endTime[r] ELSE now),
           state \in Reports, id \in Ids :
        /\ eventCount' = eventCount + 1
        /\ WithStatusTimer(r, Apply(statusTimer, at, state, id))
        /\ own' = [own EXCEPT ![r] = Apply(@, at, state, id)]
        /\ seen' = [seen EXCEPT ![r] = at]
        /\ reported' = Stands(state, id)
        /\ urgent' = [k \in DOMAIN urgent |->
                        IF k >= at THEN MostUrgent(reported') ELSE urgent[k]]
  BY DEF ObserveStatus
<1>2. /\ pc[r] \in {"stream", "final"} /\ pc' = [pc EXCEPT ![r] = "add"]
      /\ UNCHANGED <<now, others, counter, endTime>>
  BY DEF ObserveStatus, Goto
<1>3. /\ pid = r /\ pid # NoRun /\ statusTimer = own[r] /\ ~statusTimer.closed
      /\ statusTimer \in Timers
      /\ \A q \in Runs \ {r} : pc[q] \in Resting
  BY <1>2, UnderWay DEF IInv, Resting, Open, TypeInv
<1>4. /\ at \in Times /\ startTime <= seen[r] /\ seen[r] <= at /\ at <= now
      /\ endTime[r] # Never => endTime[r] \in at .. now
      /\ seen[r] \in Nat /\ startTime \in Nat /\ now \in Nat /\ at \in Int
  BY <1>1, <1>2, <1>3 DEF IInv, TypeInv, Clock, Times, Never
<1> DEFINE old == Accrue(statusTimer, at)
           new == Apply(statusTimer, at, state, id)
<1>5. /\ new \in Timers /\ ~new.closed /\ new.totals = old.totals
      /\ new.records = Recorded(statusTimer.records, state, id)
      /\ new.cur = Aggregate(new.records)
      /\ new.since = IF statusTimer.cur = "none" THEN at ELSE old.since
  <2>1. statusTimer \in Timers /\ at \in Int /\ ~statusTimer.closed
    BY <1>3, <1>4
  <2>2. /\ new \in Timers /\ ~new.closed /\ new.totals = old.totals
        /\ new.records = Recorded(statusTimer.records, state, id)
        /\ new.cur = Aggregate(Recorded(statusTimer.records, state, id))
        /\ new.since = IF statusTimer.cur = "none" THEN at ELSE old.since
    BY ONLY <2>1, state \in Reports, id \in Ids, ApplyEffect
  <2>. QED
    BY <2>2
<1>6. /\ old.since \in 0 .. now
      /\ \A s \in Live : /\ old.totals[s] = Instants(urgent, startTime, at, s)
                         /\ old.totals[s] \in 0 .. (at - startTime)
                         /\ old.totals[s] - statusTimer.totals[s] \in Times
  BY <1>3, <1>4, AccrueUpTo DEF IInv
<1>7. old.cur # "none" => old.since = at
  BY <1>3, <1>4, AccrueUpTo DEF IInv
<1>8. old.cur = statusTimer.cur
  BY <1>3, <1>4, AccrueEffect
<1> HIDE DEF old, new
<1>9. new.since = at
  BY <1>5, <1>7, <1>8
<1>10. statusTimer' = new /\ own'[r] = new /\ own' = [own EXCEPT ![r] = new]
  BY <1>1, <1>3 DEF WithStatusTimer, new, IInv, TypeInv
<1>11. /\ reported \in Standings /\ reported' = Stands(state, id) /\ reported' \in Standings
       /\ new.records = Alive(reported') /\ new.cur = MostUrgent(reported')
  <2>1. reported \in Standings /\ statusTimer.records = Alive(reported)
    BY <1>3 DEF IInv, TypeInv, Standing, Standings, Alive
  <2>2. reported' = Stands(state, id)
    BY <1>1
  <2>3. /\ Stands(state, id) \in Standings
        /\ Recorded(Alive(reported), state, id) = Alive(Stands(state, id))
    BY <2>1, StandsIsRecorded
  <2>4. Aggregate(Alive(reported')) = MostUrgent(reported')
    BY <2>2, <2>3, AggregateIsMostUrgent
  <2>. QED
    BY <1>5, <2>1, <2>2, <2>3, <2>4
<1>12. /\ urgent' \in [Times -> Counting]
       /\ \A k \in Times : urgent'[k] = IF k >= at THEN new.cur ELSE urgent[k]
  <2>1. new.cur \in Counting /\ urgent \in [Times -> Counting]
    BY <1>5 DEF Timers, IInv, TypeInv
  <2>. QED
    BY <1>1, <1>11, <2>1
<1>13. seen' = [seen EXCEPT ![r] = at] /\ seen'[r] = at
  BY <1>1 DEF IInv, TypeInv
<1>14. /\ accruals' = [accruals EXCEPT ![r] =
             [s \in Live |-> new.totals[s] - statusTimer.totals[s]]]
       /\ [s \in Live |-> new.totals[s] - statusTimer.totals[s]] \in [Live -> Times]
  BY <1>1, <1>5, <1>6 DEF WithStatusTimer, new
<1>15. UNCHANGED <<now, startTime, duration, exitCode, errorCount, pid, gauge, past,
                   counter, endTime>> /\ eventCount' = eventCount + 1
  BY <1>1, <1>2 DEF others
<1>16. TypeInv'
  <2>1. own' \in [Runs -> Timers] /\ new.since \in 0 .. now
    BY <1>4, <1>5, <1>9, <1>10 DEF IInv, TypeInv
  <2>2. accruals' \in [Runs -> [Live -> Times]]
    BY <1>14 DEF IInv, TypeInv
  <2>3. pc' \in [Runs -> Places] /\ seen' \in [Runs -> Times]
    BY <1>2, <1>4, <1>13 DEF IInv, TypeInv, Places
  <2>4. eventCount' \in Nat /\ errorCount' \in 0 .. eventCount'
    BY <1>15 DEF IInv, TypeInv
  <2>. QED
    BY <1>5, <1>10, <1>11, <1>12, <1>15, <2>1, <2>2, <2>3, <2>4
       DEF IInv, TypeInv, Standings
<1>17. Turn'
  BY <1>2, <1>3, <1>5, <1>10, <1>14, <1>15 DEF IInv, TypeInv, Turn, Resting, Adding, Open
<1>18. Clock'
  BY <1>2, <1>3, <1>4, <1>5, <1>9, <1>10, <1>13, <1>15 DEF IInv, TypeInv, Clock
<1>19. Standing'
  BY <1>3, <1>4, <1>10, <1>11, <1>12, <1>13, <1>15 DEF Standing, Alive, Times
<1>20. Totals'
  <2>1. Horizon' = at
    BY <1>3, <1>5, <1>10, <1>13, <1>15 DEF Horizon
  <2>2. ASSUME NEW s \in Live
        PROVE  TimeByUrgency'[s] = new.totals[s]
    <3>1. TimeByUrgency'[s] = Instants(urgent', startTime, at, s)
      BY <1>15, <2>1 DEF TimeByUrgency, Counted, Instants
    <3>2. \A k \in startTime .. at - 1 : urgent'[k] = urgent[k]
      BY <1>4, <1>12 DEF Times
    <3>3. startTime \in Int /\ at \in Int
      BY <1>4
    <3>4. Instants(urgent', startTime, at, s) = Instants(urgent, startTime, at, s)
      BY <3>2, <3>3, InstantsSame
    <3>. QED
      BY <1>5, <1>6, <3>1, <3>4
  <2>. QED
    BY <1>3, <1>5, <1>6, <1>10, <1>15, <2>1, <2>2 DEF Totals, CountsByUrgency
<1>21. Balance'
  <2>1. accruals[r] = NoTime /\ pid' = r
    BY <1>2, <1>3, <1>15 DEF IInv, Turn, Adding
  <2>2. ASSUME NEW s \in Live
        PROVE  counter[s] = past[s] + statusTimer.totals[s]
    BY <1>3, <2>1 DEF IInv, TypeInv, Balance, Pending, NoTime
  <2>3. ASSUME NEW s \in Live
        PROVE  Pending(s)' = new.totals[s] - statusTimer.totals[s]
    BY <1>3, <1>14, <1>15, <2>1 DEF Pending, IInv, TypeInv
  <2>4. ASSUME NEW s \in Live
        PROVE  /\ new.totals[s] \in Int /\ statusTimer.totals[s] \in Int
               /\ past[s] \in Nat /\ counter[s] \in Nat
    BY <1>3, <1>5 DEF Timers, IInv, TypeInv
  <2>. QED
    BY <1>10, <1>15, <2>2, <2>3, <2>4 DEF Balance
<1>. QED
  BY <1>16, <1>17, <1>18, <1>19, <1>20, <1>21 DEF IInv

-----------------------------------------------------------------------------
(* The end of a run.                                                        *)

\* Closing the timer of the run under way, at the end time it leaves behind,
\* keeps the invariant: Leave and CloseAtEnd in one.
LEMMA CloseStep ==
  ASSUME IInv, NEW r \in Runs, NEW at \in Times, NEW place \in {"addLeft", "addEnd"},
         pc[r] \in {"stream", "final"}, seen[r] <= at, at <= now,
         endTime' = [endTime EXCEPT ![r] = at],
         WithStatusTimer(r, Close(statusTimer, at)),
         own' = [own EXCEPT ![r] = Close(@, at)],
         pc' = [pc EXCEPT ![r] = place],
         UNCHANGED <<now, others, eventCount, counter, seen, reported, urgent>>
  PROVE  IInv'
<1> USE NoRunAssumption, MaxTimeAssumption
<1>1. /\ pid = r /\ pid # NoRun /\ statusTimer = own[r] /\ ~statusTimer.closed
      /\ statusTimer \in Timers
      /\ \A q \in Runs \ {r} : pc[q] \in Resting
  BY UnderWay DEF IInv, Resting, Open, TypeInv
<1>2. /\ startTime <= seen[r] /\ seen[r] \in Nat /\ startTime \in Nat /\ now \in Nat
      /\ at \in Int /\ at # Never
  BY <1>1 DEF IInv, TypeInv, Clock, Times, Never
<1> DEFINE old == Accrue(statusTimer, at)
           new == Close(statusTimer, at)
<1>3. /\ new \in Timers /\ new.closed
      /\ new.totals = old.totals /\ new.since = old.since
  BY <1>1, <1>2, CloseEffect
<1>4. /\ old.since \in 0 .. now
      /\ \A s \in Live : /\ old.totals[s] = Instants(urgent, startTime, at, s)
                         /\ old.totals[s] \in 0 .. (at - startTime)
                         /\ old.totals[s] - statusTimer.totals[s] \in Times
  BY <1>1, AccrueUpTo DEF IInv
<1> HIDE DEF old, new
<1>5. statusTimer' = new /\ own'[r] = new /\ own' = [own EXCEPT ![r] = new]
  BY <1>1 DEF WithStatusTimer, new, IInv, TypeInv
<1>6. /\ accruals' = [accruals EXCEPT ![r] =
            [s \in Live |-> new.totals[s] - statusTimer.totals[s]]]
      /\ [s \in Live |-> new.totals[s] - statusTimer.totals[s]] \in [Live -> Times]
  BY <1>3, <1>4 DEF WithStatusTimer, new
<1>7. UNCHANGED <<now, startTime, duration, exitCode, eventCount, errorCount, pid,
                  gauge, past, counter, seen, reported, urgent>>
  BY DEF others
<1>8. TypeInv'
  <2>1. own' \in [Runs -> Timers] /\ endTime' \in [Runs -> Times \union {Never}]
    BY <1>3, <1>5 DEF IInv, TypeInv
  <2>2. accruals' \in [Runs -> [Live -> Times]] /\ pc' \in [Runs -> Places]
    BY <1>6 DEF IInv, TypeInv, Places
  <2>. QED
    BY <1>3, <1>4, <1>5, <1>7, <2>1, <2>2 DEF IInv, TypeInv
<1>9. Turn'
  BY <1>1, <1>3, <1>5, <1>6, <1>7 DEF IInv, TypeInv, Turn, Resting, Adding, Open
<1>10. Clock'
  BY <1>1, <1>2, <1>3, <1>5, <1>7 DEF IInv, TypeInv, Clock
<1>11. Standing'
  BY <1>3, <1>5 DEF Standing
<1>12. Totals'
  <2>1. Horizon' = at
    BY <1>1, <1>3, <1>5, <1>7 DEF Horizon, IInv, TypeInv
  <2>2. ASSUME NEW s \in Live
        PROVE  TimeByUrgency'[s] = new.totals[s]
    BY <1>3, <1>4, <1>7, <2>1 DEF TimeByUrgency, Counted, Instants
  <2>. QED
    BY <1>1, <1>3, <1>4, <1>5, <1>7, <2>1, <2>2 DEF Totals, CountsByUrgency
<1>13. Balance'
  <2>1. accruals[r] = NoTime /\ pid' = r
    BY <1>1, <1>7 DEF IInv, Turn, Adding
  <2>2. ASSUME NEW s \in Live
        PROVE  counter[s] = past[s] + statusTimer.totals[s]
    BY <1>1, <2>1 DEF IInv, TypeInv, Balance, Pending, NoTime
  <2>3. ASSUME NEW s \in Live
        PROVE  Pending(s)' = new.totals[s] - statusTimer.totals[s]
    BY <1>1, <1>6, <1>7, <2>1 DEF Pending, IInv, TypeInv
  <2>4. ASSUME NEW s \in Live
        PROVE  /\ new.totals[s] \in Int /\ statusTimer.totals[s] \in Int
               /\ past[s] \in Nat /\ counter[s] \in Nat
    BY <1>1, <1>3 DEF Timers, IInv, TypeInv
  <2>. QED
    BY <1>5, <1>7, <2>2, <2>3, <2>4 DEF Balance
<1>. QED
  BY <1>8, <1>9, <1>10, <1>11, <1>12, <1>13 DEF IInv

\* A consumer's break or a cancelled ctx keeps the invariant.
LEMMA LeaveStep ==
  ASSUME IInv, NEW r \in Runs, Leave(r)
  PROVE  IInv'
<1>1. pc[r] \in {"stream", "final"} /\ pid = r /\ pid # NoRun
  BY UnderWay DEF Leave, Resting, IInv
<1>2. now \in Times /\ seen[r] <= now
  BY <1>1 DEF IInv, TypeInv, Clock
<1>3. now <= now
  BY <1>2, MaxTimeAssumption DEF Times
<1>. QED
  BY <1>1, <1>2, <1>3, CloseStep DEF Leave, Goto

\* So does the end of a run.
LEMMA CloseAtEndStep ==
  ASSUME IInv, NEW r \in Runs, CloseAtEnd(r)
  PROVE  IInv'
<1>1. pc[r] = "final" /\ pid = r /\ pid # NoRun
  BY UnderWay DEF CloseAtEnd, Resting, IInv
<1>2. endTime[r] \in Times /\ seen[r] <= endTime[r] /\ endTime[r] <= now
  BY <1>1, MaxTimeAssumption DEF IInv, TypeInv, Clock, Times, Never
<1>3. endTime' = [endTime EXCEPT ![r] = endTime[r]]
  BY DEF CloseAtEnd, IInv, TypeInv
<1>. QED
  BY <1>1, <1>2, <1>3, CloseStep DEF CloseAtEnd, Goto

-----------------------------------------------------------------------------
(* The start of a run.                                                      *)

\* The start of a run after the others keeps the invariant: what its timer
\* forgets, the counter has.
LEMMA StartStep ==
  ASSUME IInv, ~Concurrent, NEW r \in Runs, Start(r)
  PROVE  IInv'
<1> USE NoRunAssumption, MaxTimeAssumption
<1>1. /\ pc[r] = "idle" /\ \A q \in Runs : pc[q] \in Resting
      /\ pid' = r /\ startTime' = now /\ statusTimer' = NewTimer
      /\ pc' = [pc EXCEPT ![r] = "gauge"] /\ seen' = [seen EXCEPT ![r] = now]
      /\ past' = [s \in Live |-> past[s] + TimeByUrgency[s]]
      /\ reported' = [id \in Ids |-> "none"]
      /\ urgent' = [k \in 0 .. MaxTime |-> "none"]
      /\ UNCHANGED <<now, duration, exitCode, eventCount, errorCount, gauge,
                     counter, accruals, endTime, own>>
  BY DEF Start, Goto, Resting
<1>2. own[r] = NewTimer /\ endTime[r] = Never /\ \A q \in Runs : accruals[q] = NoTime
  BY <1>1 DEF IInv, Turn, Resting, Adding
<1>3. /\ NewTimer \in Timers /\ ~NewTimer.closed /\ NewTimer.since = 0
      /\ NewTimer.cur = "none" /\ NewTimer.totals = NoTime
      /\ NewTimer.records = [id \in Ids |-> "none"]
  BY NewTimerTyped DEF NewTimer, NoTime
<1>4. \A s \in Live : /\ TimeByUrgency[s] = statusTimer.totals[s]
                      /\ statusTimer.totals[s] \in Nat
  <2>1. CASE pid = NoRun
    BY <2>1 DEF IInv, Totals, CountsByUrgency, NoTime
  <2>2. CASE pid # NoRun
    <3>1. Horizon \in Int /\ startTime \in Int
      BY <2>2 DEF IInv, TypeInv, Horizon, Times, Never
    <3>. QED
      BY <2>2, <3>1 DEF IInv, Totals, CountsByUrgency
  <2>. QED
    BY <2>1, <2>2
<1>5. TypeInv'
  <2>1. past' \in [Live -> Nat]
    <3>1. \A s \in Live : past[s] \in Nat
      BY DEF IInv, TypeInv
    <3>2. \A s \in Live : past[s] + TimeByUrgency[s] \in Nat
      BY <1>4, <3>1
    <3>. QED
      BY <1>1, <3>2
  <2>2. reported' \in [Ids -> Reports \union {"none"}] /\ urgent' \in [Times -> Counting]
    BY <1>1 DEF Times, Counting
  <2>3. pc' \in [Runs -> Places] /\ seen' \in [Runs -> Times]
    BY <1>1 DEF IInv, TypeInv, Places
  <2>4. now \in 0 .. now /\ 0 \in 0 .. now
    BY DEF IInv, TypeInv, Times
  <2>. QED
    BY <1>1, <1>3, <2>1, <2>2, <2>3, <2>4 DEF IInv, TypeInv
<1>6. Turn'
  BY <1>1, <1>2, <1>3 DEF IInv, TypeInv, Turn, Resting, Adding, Open
<1>7. Clock'
  BY <1>1, <1>2, <1>3 DEF IInv, TypeInv, Clock, Times
<1>8. Standing'
  <2>1. reported' \in Standings /\ Alive(reported') = [id \in Ids |-> "none"]
    BY <1>1 DEF Standings, Alive, Live
  <2>2. MostUrgent(reported') = "none"
    BY <1>1 DEF MostUrgent, Live
  <2>3. \A k \in seen'[pid'] .. MaxTime : urgent'[k] = "none"
    BY <1>1 DEF IInv, TypeInv, Times
  <2>. QED
    BY <1>1, <1>3, <2>1, <2>2, <2>3 DEF Standing, Alive
<1>9. Totals'
  <2>1. Horizon' = now /\ now \in Int
    BY <1>1, <1>2, <1>3 DEF Horizon, IInv, TypeInv, Times
  <2>2. ASSUME NEW s \in Live
        PROVE  TimeByUrgency'[s] = 0
    <3>1. TimeByUrgency'[s] = Instants(urgent', now, now, s)
      BY <1>1, <2>1 DEF TimeByUrgency, Counted, Instants
    <3>. QED
      BY <2>1, <3>1, InstantsNone
  <2>. QED
    BY <1>1, <1>3, <2>1, <2>2 DEF Totals, CountsByUrgency, NoTime
<1>10. Balance'
  <2>1. ASSUME NEW s \in Live
        PROVE  counter[s] = past[s] + TimeByUrgency[s]
    <3>1. Pending(s) = 0
      BY <1>2 DEF Pending, NoTime, IInv, TypeInv
    <3>. QED
      BY <1>4, <3>1 DEF IInv, Balance, TypeInv
  <2>2. ASSUME NEW s \in Live
        PROVE  Pending(s)' = 0 /\ NewTimer.totals[s] = 0
    BY <1>1, <1>2, <1>3 DEF Pending, NoTime
  <2>3. \A s \in Live : counter[s] \in Nat
    BY DEF IInv, TypeInv
  <2>4. \A s \in Live : past'[s] = counter[s]
    BY <1>1, <2>1
  <2>. QED
    BY <1>1, <2>2, <2>3, <2>4 DEF Balance
<1>. QED
  BY <1>5, <1>6, <1>7, <1>8, <1>9, <1>10 DEF IInv

-----------------------------------------------------------------------------
(* The other steps.                                                         *)

\* An interval added to the counter is no longer pending.
LEMMA RecordAccrualsStep ==
  ASSUME IInv, NEW r \in Runs, RecordAccruals(r)
  PROVE  IInv'
<1> USE NoRunAssumption
<1> DEFINE place == CASE pc[r] = "add" -> IF endTime[r] = Never THEN "stream" ELSE "final"
                      [] pc[r] = "addLeft" -> "returned"
                      [] OTHER -> "stop"
<1>1. /\ pc[r] \in Adding /\ pc' = [pc EXCEPT ![r] = place]
      /\ counter' = [s \in Live |-> counter[s] + accruals[r][s]]
      /\ accruals' = [accruals EXCEPT ![r] = NoTime]
      /\ UNCHANGED <<now, stats, endTime, seen, history>>
  BY DEF RecordAccruals, Goto, Adding
<1>2. pid = r /\ pid # NoRun /\ statusTimer = own[r]
  BY <1>1, UnderWay DEF IInv, Resting, Adding
<1>3. /\ place \in {"stream", "final", "returned", "stop"}
      /\ place \in Open => pc[r] = "add"
      /\ place = "stream" => endTime[r] = Never
      /\ place = "final" => endTime[r] # Never
  BY <1>1 DEF Adding, Open
<1> HIDE DEF place
<1>4. TypeInv'
  <2>1. accruals[r] \in [Live -> Times] /\ counter \in [Live -> Nat]
    BY DEF IInv, TypeInv
  <2>2. counter' \in [Live -> Nat] /\ NoTime \in [Live -> Times]
    BY <1>1, <2>1, MaxTimeAssumption DEF Times, NoTime
  <2>3. accruals' \in [Runs -> [Live -> Times]] /\ pc' \in [Runs -> Places]
    BY <1>1, <1>3, <2>2 DEF IInv, TypeInv, Places
  <2>. QED
    BY <1>1, <2>2, <2>3 DEF IInv, TypeInv, stats, history
<1>5. Turn'
  BY <1>1, <1>2, <1>3 DEF IInv, TypeInv, Turn, Resting, Adding, Open, stats, history
<1>6. Clock'
  BY <1>1, <1>2, <1>3 DEF IInv, TypeInv, Clock, stats, history
<1>7. Standing'
  BY <1>1 DEF IInv, Standing, stats, history, MostUrgent
<1>8. Totals'
  BY <1>1, TotalsFrame DEF IInv, TypeInv, stats, history
<1>9. Balance'
  <2>1. ASSUME NEW s \in Live
        PROVE  /\ counter'[s] = counter[s] + accruals[r][s]
               /\ counter[s] \in Nat /\ accruals[r][s] \in Nat
               /\ Pending(s) = accruals[r][s] /\ Pending(s)' = 0
               /\ past'[s] = past[s] /\ statusTimer' = statusTimer
    BY <1>1, <1>2, MaxTimeAssumption
       DEF Pending, IInv, TypeInv, NoTime, stats, history, Times
  <2>. QED
    BY <2>1 DEF IInv, Balance
<1>. QED
  BY <1>4, <1>5, <1>6, <1>7, <1>8, <1>9 DEF IInv

\* A step of a run that leaves its timer, its reports and what it accrued alone,
\* and stays on the same side of the start, keeps the invariant if the types do.
LEMMA QuietStep ==
  ASSUME IInv, TypeInv', NEW r \in Runs, pc[r] \notin Resting \union Adding,
         NEW place \in Places \ ({"idle"} \union Adding), pc' = [pc EXCEPT ![r] = place],
         place \in Open => pc[r] \in Open,
         place \in {"gauge", "started", "stream"} => pc[r] \in {"gauge", "started", "stream"},
         place = "final" => endTime'[r] # Never,
         \/ UNCHANGED endTime
         \/ place = "final" /\ pc[r] = "stream" /\ endTime' = [endTime EXCEPT ![r] = now],
         UNCHANGED <<now, startTime, statusTimer, counter, pid, accruals, seen, history>>
  PROVE  IInv'
<1> USE NoRunAssumption
<1>1. pid = r /\ pid # NoRun /\ statusTimer = own[r] /\ (pc[r] \in Open => ~own[r].closed)
  BY UnderWay DEF IInv, Resting
<1>2. UNCHANGED <<own, reported, urgent, past>>
  BY DEF history
<1>3. Turn'
  BY <1>1, <1>2 DEF IInv, TypeInv, Turn, Resting, Adding, Open
<1>4. Clock'
  BY <1>1, <1>2 DEF IInv, TypeInv, Clock, Times, Open
<1>5. Standing'
  BY <1>2 DEF IInv, Standing, MostUrgent
<1>6. Totals'
  BY <1>1, <1>2, TotalsFrame DEF IInv, TypeInv, Open
<1>7. Balance'
  BY <1>2 DEF IInv, Balance, Pending
<1>. QED
  BY <1>3, <1>4, <1>5, <1>6, <1>7 DEF IInv

\* SetGauge, YieldStart, RecordOutput, TakeDone, Stop and EmitEnd are such steps.
LEMMA QuietSteps ==
  ASSUME IInv, NEW r \in Runs,
         \/ SetGauge(r) \/ YieldStart(r) \/ RecordOutput(r)
         \/ TakeDone(r) \/ Stop(r) \/ EmitEnd(r)
  PROVE  IInv'
<1> USE NoRunAssumption
<1>1. CASE SetGauge(r)
  <2>1. pc' = [pc EXCEPT ![r] = "started"] /\ pc[r] = "gauge" /\ pid \in Runs
    BY <1>1, UnderWay DEF SetGauge, Goto, IInv, Resting
  <2>2. TypeInv'
    BY <1>1, <2>1 DEF SetGauge, IInv, TypeInv, history, Places
  <2>. QED
    BY <1>1, <2>1, <2>2, QuietStep DEF SetGauge, Places, Resting, Adding, Open, history
<1>2. CASE YieldStart(r)
  <2>1. PICK place \in {"stream", "returned"} : pc' = [pc EXCEPT ![r] = place]
    BY <1>2 DEF YieldStart, Goto
  <2>2. /\ pc[r] = "started" /\ eventCount' \in {eventCount, eventCount + 1}
        /\ UNCHANGED <<now, others, statusTimer, counter, accruals, endTime, seen,
                       history>>
    BY <1>2 DEF YieldStart, history, others
  <2>3. TypeInv'
    BY <2>1, <2>2 DEF IInv, TypeInv, others, history, Places
  <2>. QED
    BY <2>1, <2>2, <2>3, QuietStep DEF Places, Resting, Adding, Open, others
<1>3. CASE RecordOutput(r)
  <2>1. pc' = [pc EXCEPT ![r] = pc[r]] /\ pc[r] \in {"stream", "final"}
    BY <1>3 DEF RecordOutput, IInv, TypeInv
  <2>2. TypeInv'
    BY <1>3 DEF RecordOutput, IInv, TypeInv, others, history
  <2>3. pc[r] = "final" => endTime[r] # Never
    BY <2>1, UnderWay DEF IInv, Clock, Resting
  <2>. QED
    BY <1>3, <2>1, <2>2, <2>3, QuietStep
       DEF RecordOutput, Places, Resting, Adding, Open, others, history
<1>4. CASE TakeDone(r)
  <2>1. /\ pc' = [pc EXCEPT ![r] = "final"] /\ pc[r] = "stream"
        /\ endTime' = [endTime EXCEPT ![r] = now] /\ endTime'[r] # Never
    BY <1>4 DEF TakeDone, Goto, IInv, TypeInv, Never, Times
  <2>2. TypeInv'
    BY <1>4, <2>1 DEF TakeDone, IInv, TypeInv, stats, history, Places
  <2>. QED
    BY <1>4, <2>1, <2>2, QuietStep DEF TakeDone, Places, Resting, Adding, Open, stats
<1>5. CASE Stop(r)
  <2>1. PICK place \in {"exit", "error"} : pc' = [pc EXCEPT ![r] = place]
    BY <1>5 DEF Stop, Goto
  <2>2. /\ pc[r] = "stop" /\ pid \in Runs /\ duration' = now - startTime
        /\ gauge' = [gauge EXCEPT ![pid] = "stopped"] /\ exitCode' \in {exitCode, r}
        /\ UNCHANGED <<now, statusTimer, startTime, eventCount, errorCount, pid,
                       counter, accruals, endTime, seen, history>>
    BY <1>5, UnderWay DEF Stop, IInv, Resting
  <2>3. duration' \in 0 .. now
    BY <2>2, MaxTimeAssumption DEF IInv, TypeInv, Times
  <2>4. TypeInv'
    BY <2>1, <2>2, <2>3 DEF IInv, TypeInv, history, Places
  <2>. QED
    BY <2>1, <2>2, <2>4, QuietStep DEF Places, Resting, Adding, Open
<1>6. CASE EmitEnd(r)
  <2>1. /\ pc' = [pc EXCEPT ![r] = "returned"] /\ pc[r] \in {"exit", "error"}
        /\ errorCount' \in {errorCount, errorCount + 1} /\ eventCount' = eventCount + 1
    BY <1>6 DEF EmitEnd, Goto, IInv, TypeInv
  <2>2. TypeInv'
    BY <1>6, <2>1 DEF EmitEnd, IInv, TypeInv, history, Places
  <2>. QED
    BY <1>6, <2>1, <2>2, QuietStep DEF EmitEnd, Places, Resting, Adding, Open
<1>. QED
  BY <1>1, <1>2, <1>3, <1>4, <1>5, <1>6

\* So does the clock.
LEMMA TickStep ==
  ASSUME IInv, Tick
  PROVE  IInv'
<1>1. now' = now + 1 /\ now < MaxTime
      /\ UNCHANGED <<stats, counter, pc, accruals, endTime, seen, history>>
  BY DEF Tick
<1>2. TypeInv'
  BY <1>1, MaxTimeAssumption DEF IInv, TypeInv, stats, history, Times
<1>3. Turn' /\ Standing' /\ Balance'
  BY <1>1 DEF IInv, Turn, Standing, Balance, Pending, MostUrgent, stats, history
<1>4. Clock'
  BY <1>1, MaxTimeAssumption DEF IInv, TypeInv, Clock, stats, history, Times
<1>5. Totals'
  BY <1>1, TotalsFrame DEF IInv, TypeInv, stats, history
<1>. QED
  BY <1>2, <1>3, <1>4, <1>5 DEF IInv

\* And nothing.
LEMMA StutterStep ==
  ASSUME IInv, UNCHANGED vars
  PROVE  IInv'
<1>1. TypeInv' /\ Turn' /\ Clock' /\ Standing' /\ Balance'
  BY DEF IInv, TypeInv, Turn, Clock, Standing, Balance, Pending, MostUrgent,
         vars, stats, history
<1>2. Totals'
  BY TotalsFrame DEF IInv, TypeInv, vars, stats, history
<1>. QED
  BY <1>1, <1>2 DEF IInv

\* The invariant holds initially.
LEMMA InitHolds == Init => IInv
<1> SUFFICES ASSUME Init PROVE IInv
  OBVIOUS
<1> USE NoRunAssumption, MaxTimeAssumption
<1>1. /\ NewTimer \in Timers /\ NewTimer.since = 0 /\ ~NewTimer.closed
      /\ NewTimer.totals = NoTime
  BY NewTimerTyped DEF NewTimer, NoTime
<1>2. NoTime \in [Live -> Times] /\ NoTime \in [Live -> Nat] /\ 0 \in 0 .. 0
  BY DEF NoTime, Times
<1>3. TypeInv
  BY <1>1, <1>2 DEF Init, TypeInv, Times, Places, Counting
<1>4. Turn /\ Clock /\ Standing
  BY <1>1 DEF Init, Turn, Clock, Standing, Resting, Open, Adding
<1>5. ASSUME NEW s \in Live
      PROVE  TimeByUrgency[s] = 0
  <2>1. Horizon = 0 /\ startTime = 0
    BY DEF Init, Horizon
  <2>. QED
    BY <2>1, TimeIsInstants, InstantsNone
<1>6. Totals
  BY <1>1, <1>5 DEF Init, Totals, CountsByUrgency, NoTime
<1>7. Balance
  BY <1>1 DEF Init, Balance, Pending, NoTime
<1>. QED
  BY <1>3, <1>4, <1>6, <1>7 DEF IInv

-----------------------------------------------------------------------------
(* The theorems.                                                            *)

\* The inductive invariant holds of runs one after another.
THEOREM InvariantHolds ==
  ASSUME ~Concurrent
  PROVE  Spec => []IInv
<1>1. IInv /\ [Next]_vars => IInv'
  BY TickStep, StartStep, QuietSteps, ObserveStep, RecordAccrualsStep, LeaveStep,
     CloseAtEndStep, StutterStep DEF Next
<1>. QED
  BY InitHolds, <1>1, PTL DEF Spec

\* The statistics keep their types: no total exceeds the time there was, no
\* interval of the timer starts in the future, and no error is counted that is
\* not counted as an event.
THEOREM TypeCorrect ==
  ASSUME ~Concurrent
  PROVE  Spec => []TypeOK
<1>1. IInv => TypeOK
  <2> SUFFICES ASSUME IInv PROVE TypeOK
    OBVIOUS
  <2>1. \A s \in Live : statusTimer.totals[s] \in Times
    <3>1. CASE pid = NoRun
      BY <3>1, MaxTimeAssumption DEF IInv, Totals, NoTime, Times
    <3>2. CASE pid # NoRun
      <4>1. Horizon \in 0 .. MaxTime /\ startTime \in 0 .. MaxTime
        BY <3>2, MaxTimeAssumption DEF IInv, TypeInv, Clock, Horizon, Times, Turn
      <4>2. \A s \in Live : statusTimer.totals[s] \in 0 .. (Horizon - startTime)
        BY <3>2 DEF IInv, Totals
      <4>. QED
        BY <4>1, <4>2, MaxTimeAssumption DEF Times
    <3>. QED
      BY <3>1, <3>2
  <2>2. statusTimer.totals \in [Live -> Times]
    BY <2>1 DEF IInv, TypeInv, Timers
  <2>. QED
    BY <2>2 DEF IInv, TypeInv, TypeOK, Timers, TimerRecords, Counting
<1>. QED
  BY InvariantHolds, <1>1, PTL

\* However a run ends and whenever its reports are read, the StatusTime of the
\* run that started last is the number of instants in which each state was the
\* most urgent one reported: the total is accrued interval by interval, and
\* compared with a count over all instants.
THEOREM TotalsAreByUrgency ==
  ASSUME ~Concurrent
  PROVE  Spec => []CountsByUrgency
<1>1. IInv => CountsByUrgency
  BY DEF IInv, Totals
<1>. QED
  BY InvariantHolds, <1>1, PTL

\* Between runs the counter has the time of all runs so far, though additions
\* are made outside the lock and Start forgets the totals.
THEOREM CounterHasAllTime ==
  ASSUME ~Concurrent
  PROVE  Spec => []TimeReported
<1>1. IInv => TimeReported
  <2> SUFFICES ASSUME IInv, \A r \in Runs : pc[r] \in {"idle", "returned"},
                      NEW s \in Live
               PROVE  counter[s] = past[s] + TimeByUrgency[s]
    BY DEF TimeReported
  <2>1. Pending(s) = 0
    BY DEF IInv, Turn, TypeInv, Pending, Adding, NoTime
  <2>2. TimeByUrgency[s] = statusTimer.totals[s]
    BY DEF IInv, Totals, CountsByUrgency
  <2>. QED
    BY <2>1, <2>2 DEF IInv, Balance, TypeInv
<1>. QED
  BY InvariantHolds, <1>1, PTL

=============================================================================
