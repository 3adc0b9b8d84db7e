-------------------------- MODULE StatusTimerProofs --------------------------
(***************************************************************************)
(* Lemmas about the operators of StatusTimer, for the proofs of the modules *)
(* that hold a timer: its type is kept, an open timer follows its records,  *)
(* and what an interval adds to the totals.                                 *)
(***************************************************************************)
EXTENDS StatusTimer, TLAPS

Counting == Live \union {"none"}

\* The states of records a timer can hold.
TimerRecords == [Ids -> Counting]

\* The values of a timer; its times are any integers.
Timers ==
  [records : TimerRecords, cur : Counting, since : Int,
   totals : [Live -> Int], closed : BOOLEAN]

\* A new timer is one.
LEMMA NewTimerTyped == NewTimer \in Timers
BY DEF NewTimer, Timers, TimerRecords, Counting, Live

\* The aggregate of records is a live state or none.
LEMMA AggregateTyped ==
  ASSUME NEW records \in TimerRecords
  PROVE  Aggregate(records) \in Counting
BY DEF Aggregate, Counting, Live

\* A report leaves records of live states only.
LEMMA RecordedTyped ==
  ASSUME NEW records \in TimerRecords, NEW state \in Reports, NEW id \in Ids
  PROVE  Recorded(records, state, id) \in TimerRecords
BY DEF Recorded, Reports, TimerRecords, Counting, Live

\* An interval is accrued to the current state, if there is one and time passed:
\* the other totals and fields stay.
LEMMA AccrueEffect ==
  ASSUME NEW tm \in Timers, NEW at \in Int
  PROVE  /\ Accrue(tm, at) \in Timers
         /\ Accrue(tm, at).records = tm.records
         /\ Accrue(tm, at).cur = tm.cur
         /\ Accrue(tm, at).closed = tm.closed
         /\ tm.cur = "none" \/ at <= tm.since => Accrue(tm, at) = tm
         /\ tm.cur # "none" /\ at > tm.since =>
              /\ Accrue(tm, at).since = at
              /\ Accrue(tm, at).totals =
                   [tm.totals EXCEPT ![tm.cur] = @ + (at - tm.since)]
<1>1. CASE tm.cur = "none" \/ at <= tm.since
  BY <1>1 DEF Accrue, Timers
<1>2. CASE tm.cur # "none" /\ at > tm.since
  <2>1. tm.cur \in Live /\ tm.totals[tm.cur] \in Int /\ tm.since \in Int
    BY <1>2 DEF Timers, Counting
  <2> DEFINE totals == [tm.totals EXCEPT ![tm.cur] = @ + (at - tm.since)]
  <2>2. totals \in [Live -> Int]
    BY <2>1 DEF Timers
  <2>3. Accrue(tm, at) = [tm EXCEPT !.totals = totals, !.since = at]
    BY <1>2, <2>1 DEF Accrue, Timers
  <2> HIDE DEF totals
  <2>4. /\ Accrue(tm, at) \in Timers
        /\ Accrue(tm, at).records = tm.records
        /\ Accrue(tm, at).cur = tm.cur
        /\ Accrue(tm, at).closed = tm.closed
        /\ Accrue(tm, at).since = at
        /\ Accrue(tm, at).totals = totals
    BY <2>2, <2>3 DEF Timers
  <2>. QED
    BY <1>2, <2>1, <2>4 DEF totals
<1>. QED
  BY <1>1, <1>2 DEF Timers

\* A report to an open timer replaces its records and its current state, and
\* starts an interval after a gap; a closed timer takes no report.
LEMMA ApplyEffect ==
  ASSUME NEW tm \in Timers, NEW at \in Int, NEW state \in Reports, NEW id \in Ids
  PROVE  /\ Apply(tm, at, state, id) \in Timers
         /\ tm.closed => Apply(tm, at, state, id) = tm
         /\ ~tm.closed =>
              /\ Apply(tm, at, state, id).records = Recorded(tm.records, state, id)
              /\ Apply(tm, at, state, id).cur =
                   Aggregate(Recorded(tm.records, state, id))
              /\ Apply(tm, at, state, id).since =
                   IF tm.cur = "none" THEN at ELSE Accrue(tm, at).since
              /\ Apply(tm, at, state, id).totals = Accrue(tm, at).totals
              /\ ~Apply(tm, at, state, id).closed
<1>1. CASE tm.closed
  BY <1>1 DEF Apply
<1>2. CASE ~tm.closed
  <2> DEFINE accrued == Accrue(tm, at)
             records == Recorded(tm.records, state, id)
  <2>1. accrued \in Timers /\ accrued.closed = tm.closed /\ accrued.cur = tm.cur
    BY AccrueEffect
  <2>2. tm.records \in TimerRecords
    BY DEF Timers
  <2>3. records \in TimerRecords /\ Aggregate(records) \in Counting
    BY <2>2, RecordedTyped, AggregateTyped
  <2>4. Apply(tm, at, state, id) =
          [accrued EXCEPT !.records = records, !.cur = Aggregate(records),
                          !.since = IF tm.cur = "none" THEN at ELSE @]
    BY <1>2 DEF Apply
  <2> HIDE DEF accrued, records
  <2>5. /\ Apply(tm, at, state, id) \in Timers
        /\ Apply(tm, at, state, id).records = records
        /\ Apply(tm, at, state, id).cur = Aggregate(records)
        /\ Apply(tm, at, state, id).since = IF tm.cur = "none" THEN at ELSE accrued.since
        /\ Apply(tm, at, state, id).totals = accrued.totals
        /\ ~Apply(tm, at, state, id).closed
    BY <1>2, <2>1, <2>3, <2>4 DEF Timers
  <2>. QED
    BY <1>2, <2>5 DEF accrued, records
<1>. QED
  BY <1>1, <1>2

\* Closing accrues the last interval and leaves no record; once is enough.
LEMMA CloseEffect ==
  ASSUME NEW tm \in Timers, NEW at \in Int
  PROVE  /\ Close(tm, at) \in Timers
         /\ Close(tm, at).closed
         /\ tm.closed => Close(tm, at) = tm
         /\ ~tm.closed =>
              /\ Close(tm, at).cur = "none"
              /\ Close(tm, at).since = Accrue(tm, at).since
              /\ Close(tm, at).totals = Accrue(tm, at).totals
<1>1. CASE tm.closed
  BY <1>1 DEF Close
<1>2. CASE ~tm.closed
  <2>1. Accrue(tm, at) \in Timers
    BY AccrueEffect
  <2>2. NewTimer.records \in TimerRecords
    BY NewTimerTyped DEF Timers
  <2>3. Close(tm, at) = [Accrue(tm, at) EXCEPT !.cur = "none", !.closed = TRUE,
                                               !.records = NewTimer.records]
    BY <1>2 DEF Close
  <2>. QED
    BY <1>2, <2>1, <2>2, <2>3 DEF Timers, Counting
<1>. QED
  BY <1>1, <1>2

=============================================================================
