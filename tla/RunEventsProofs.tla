--------------------------- MODULE RunEventsProofs ---------------------------
(***************************************************************************)
(* What the promise of RunEvents comes to, for every table of events: read *)
(* off the history alone, without the steps it was made by.                 *)
(***************************************************************************)
EXTENDS RunEvents, Integers, SequenceTheorems, TLAPS

\* The table speaks of its own events.
Closed ==
  /\ "begin" \in DOMAIN Follows
  /\ \A e \in DOMAIN Follows : Follows[e] \subseteq DOMAIN Follows

\* Each event is one that may follow the event before it, the first one may come
\* first, and an iterator that returned was told to or had yielded a final event.
InOrder ==
  /\ \A i \in 1 .. Len(log) :
       log[i] \in Follows[IF i = 1 THEN "begin" ELSE log[i - 1]]
  /\ returned => MayReturn

\* No event comes after the consumer broke or the iterator returned, and neither
\* is undone.
Silent ==
  [][/\ broke => broke' /\ UNCHANGED log
     /\ returned => returned' /\ UNCHANGED log]_revars

TypedLog == log \in Seq(DOMAIN Follows)

\* What one more event does to a history: it is the latest, it is among those
\* emitted, and it changes no other.
LEMMA LogAppend ==
  ASSUME NEW S, NEW l \in Seq(S), NEW e \in S
  PROVE  /\ Append(l, e) \in Seq(S)
         /\ Append(l, e) # << >>
         /\ Append(l, e)[Len(Append(l, e))] = e
         /\ {Append(l, e)[i] : i \in DOMAIN Append(l, e)}
              = {l[i] : i \in DOMAIN l} \union {e}
<1>1. /\ Append(l, e) \in Seq(S) /\ Len(Append(l, e)) = Len(l) + 1
      /\ Append(l, e)[Len(l) + 1] = e
      /\ \A i \in 1 .. Len(l) : Append(l, e)[i] = l[i]
  OBVIOUS
<1>2. QED
  BY <1>1

\* The latest event is one of the table.
LEMMA LatestTyped ==
  ASSUME Closed, TypedLog
  PROVE  Latest \in DOMAIN Follows
BY DEF Closed, TypedLog, Latest

\* A history in order stays so with an event that may follow the latest.
LEMMA YieldKeepsOrder ==
  ASSUME Closed, TypedLog, InOrder, YieldEvent
  PROVE  TypedLog' /\ InOrder'
<1>1. PICK e \in Follows[Latest] : log' = Append(log, e)
  BY DEF YieldEvent
<1>2. e \in DOMAIN Follows
  BY <1>1, LatestTyped DEF Closed
<1>3. /\ log' \in Seq(DOMAIN Follows) /\ Len(log') = Len(log) + 1
      /\ log'[Len(log) + 1] = e /\ \A i \in 1 .. Len(log) : log'[i] = log[i]
      /\ Len(log) \in Nat
  BY <1>1, <1>2 DEF TypedLog
<1>4. ASSUME NEW i \in 1 .. Len(log')
      PROVE  log'[i] \in Follows[IF i = 1 THEN "begin" ELSE log'[i - 1]]
  <2>1. CASE i <= Len(log)
    <3>1. i \in 1 .. Len(log) /\ (i # 1 => i - 1 \in 1 .. Len(log))
      BY <1>3, <2>1
    <3>2. QED
      BY <1>3, <3>1 DEF InOrder
  <2>2. CASE i = Len(log) + 1
    <3>1. Latest = IF i = 1 THEN "begin" ELSE log'[i - 1]
      BY <1>3, <2>2 DEF TypedLog, Latest
    <3>2. QED
      BY <1>1, <1>3, <2>2, <3>1
  <2>3. QED
    BY <1>3, <2>1, <2>2
<1>5. returned' => MayReturn'
  BY DEF YieldEvent
<1>6. QED
  BY <1>3, <1>4, <1>5 DEF TypedLog, InOrder

\* The history is in order, whatever the table.
THEOREM Ordered ==
  ASSUME Closed
  PROVE  RESpec => []InOrder
<1>1. REInit => TypedLog /\ InOrder
  BY DEF REInit, TypedLog, InOrder
<1>2. TypedLog /\ InOrder /\ [RENext]_revars => TypedLog' /\ InOrder'
  <2>1. SUFFICES ASSUME TypedLog, InOrder, [RENext]_revars
                 PROVE  TypedLog' /\ InOrder'
    OBVIOUS
  <2>2. CASE YieldEvent
    BY <2>1, <2>2, YieldKeepsOrder
  <2>3. CASE BreakAtHeartbeat
    BY <2>1, <2>3 DEF BreakAtHeartbeat, TypedLog, InOrder, MayReturn
  <2>4. CASE CancelContext
    BY <2>1, <2>4 DEF CancelContext, TypedLog, InOrder, MayReturn
  <2>5. CASE Return
    BY <2>1, <2>5 DEF Return, TypedLog, InOrder, MayReturn, Latest
  <2>6. CASE UNCHANGED revars
    BY <2>1, <2>6 DEF revars, TypedLog, InOrder, MayReturn, Latest
  <2>7. QED
    BY <2>1, <2>2, <2>3, <2>4, <2>5, <2>6 DEF RENext
<1>3. QED
  BY <1>1, <1>2, PTL DEF RESpec

\* After a break or a return the history is final.
THEOREM BreakIsFinal == RESpec => Silent
<1>1. [RENext]_revars =>
        [/\ broke => broke' /\ UNCHANGED log
         /\ returned => returned' /\ UNCHANGED log]_revars
  BY DEF RENext, YieldEvent, BreakAtHeartbeat, CancelContext, Return, revars
<1>2. QED
  BY <1>1, PTL DEF RESpec, Silent

=============================================================================
