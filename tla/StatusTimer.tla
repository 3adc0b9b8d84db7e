----------------------------- MODULE StatusTimer -----------------------------
(***************************************************************************)
(* StatusTimer (status_timer.go): time per program status state.  The      *)
(* timer is a value and its methods are operators on it, which RunStats     *)
(* and Runner use; at each instant a run counts once, under its most        *)
(* urgent live state.                                                       *)
(***************************************************************************)
EXTENDS Integers

CONSTANTS
  Ids,        \* the ids of records, "" included
  Clears      \* Clears[id]: what a clear of id removes: id and the ids under it,
              \* everything for ""

ASSUME ClearsAssumption ==
  /\ "" \in Ids
  /\ Clears \in [Ids -> SUBSET Ids] /\ \A id \in Ids : id \in Clears[id]

Live == {"working", "blocked", "idle"}

\* An unknown state changes no record.
Reports == Live \union {"done", "error", "clear", "unknown"}

NewTimer ==
  [records |-> [id \in Ids |-> "none"], cur |-> "none", since |-> 0,
   totals |-> [s \in Live |-> 0], closed |-> FALSE]

Aggregate(records) ==
  LET live == {records[id] : id \in Ids} IN
  CASE "blocked" \in live -> "blocked"
    [] "blocked" \notin live /\ "working" \in live -> "working"
    [] live \intersect {"blocked", "working"} = {} /\ "idle" \in live -> "idle"
    [] OTHER -> "none"

Accrue(tm, at) ==
  IF tm.cur = "none" \/ at <= tm.since THEN tm
  ELSE [tm EXCEPT !.totals[tm.cur] = @ + (at - tm.since), !.since = at]

\* Mutant: done and error are stored like the live states.
RecordedAll(records, state, id) ==
  IF state = "clear"
  THEN [i \in Ids |-> IF i \in Clears[id] THEN "none" ELSE records[i]]
  ELSE [records EXCEPT ![id] = state]

Recorded(records, state, id) ==
  CASE state \in Live -> [records EXCEPT ![id] = state]
    [] state \in {"done", "error"} -> [records EXCEPT ![id] = "none"]
    [] state = "clear" ->
         [i \in Ids |-> IF i \in Clears[id] THEN "none" ELSE records[i]]
    [] OTHER -> records

\* The interval starts anew after a gap, and there only.
Apply(tm, at, state, id) ==
  IF tm.closed THEN tm
  ELSE LET accrued == Accrue(tm, at)
           records == Recorded(tm.records, state, id)
       IN [accrued EXCEPT !.records = records,
                          !.cur = Aggregate(records),
                          !.since = IF tm.cur = "none" THEN at ELSE @]

Close(tm, at) ==
  IF tm.closed THEN tm
  ELSE [Accrue(tm, at) EXCEPT !.cur = "none", !.closed = TRUE,
                              !.records = NewTimer.records]

=============================================================================
