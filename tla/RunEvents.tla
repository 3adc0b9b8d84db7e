----------------------------- MODULE RunEvents -----------------------------
(***************************************************************************)
(* What an iterator over the events of a run promises, without saying how   *)
(* it is done: the events come in the order of a table, none comes after    *)
(* the consumer broke out of the loop, and the iterator returns for a       *)
(* reason: the consumer broke, ctx was cancelled, or the last event was a   *)
(* final one.                                                               *)
(***************************************************************************)
EXTENDS Sequences

CONSTANTS
  Follows,   \* Follows[e]: the events that may come right after e
  Finals     \* the events a run may end with

VARIABLES
  log,        \* the events yielded
  broke,      \* the consumer stopped iterating
  cancelled,  \* ctx is done
  returned    \* the iterator has returned

revars == <<log, broke, cancelled, returned>>

Latest == IF log = <<>> THEN "begin" ELSE log[Len(log)]

REInit == log = <<>> /\ ~broke /\ ~cancelled /\ ~returned

MayReturn == broke \/ cancelled \/ Latest \in Finals

\* The consumer takes an event, and may break at it; the return may follow at once.
YieldEvent ==
  /\ ~broke /\ ~returned
  /\ \E event \in Follows[Latest] : log' = Append(log, event)
  /\ broke' \in BOOLEAN
  /\ returned' \in BOOLEAN /\ (returned' => MayReturn')
  /\ UNCHANGED cancelled

\* The consumer breaks at a heartbeat; the log keeps none.
BreakAtHeartbeat ==
  /\ ~broke /\ ~returned
  /\ "heartbeat" \in Follows[Latest]
  /\ broke' = TRUE
  /\ UNCHANGED <<log, cancelled, returned>>

CancelContext ==
  /\ ~cancelled
  /\ cancelled' = TRUE
  /\ UNCHANGED <<log, broke, returned>>

Return ==
  /\ ~returned /\ MayReturn
  /\ returned' = TRUE
  /\ UNCHANGED <<log, broke, cancelled>>

RENext == YieldEvent \/ BreakAtHeartbeat \/ CancelContext \/ Return

RESpec == REInit /\ [][RENext]_revars

=============================================================================
