----------------------------- MODULE EventStream -----------------------------
(***************************************************************************)
(* What a consumer of a run is promised (README, "Program status" and      *)
(* "Streaming Behaviour"), without saying how it is done.                  *)
(*                                                                         *)
(* A source emits bytes, numbered 1, 2, 3, ..., and program status         *)
(* reports; `at' says how many bytes each report follows.  The consumer    *)
(* gets the bytes in order, none lost and none twice, and each report      *)
(* exactly between the bytes it was found between.  A stream is complete   *)
(* only when the source has closed and everything it emitted has been      *)
(* delivered; a consumer that stops, or a cancelled context, may abandon   *)
(* it anywhere.                                                            *)
(***************************************************************************)
EXTENDS Integers, Sequences

VARIABLES
  emitted,   \* number of bytes the source has emitted
  at,        \* for each report emitted, the number of bytes before it
  closed,    \* whether the source has closed
  out,       \* the bytes delivered, in order
  told,      \* number of reports delivered
  stream     \* "open", "complete" or "abandoned"

evars == <<emitted, at, closed, out, told, stream>>

\* Consecutive bytes that follow the first `base' ones.
Run(base, n) == [i \in 1 .. n |-> base + i]

EInit ==
  /\ emitted = 0
  /\ at = <<>>
  /\ closed = FALSE
  /\ out = <<>>
  /\ told = 0
  /\ stream = "open"

EmitBytes ==
  /\ ~closed
  /\ emitted' \in Nat
  /\ emitted' > emitted
  /\ UNCHANGED <<at, closed, out, told, stream>>

EmitReport ==
  /\ ~closed
  /\ at' = Append(at, emitted)
  /\ UNCHANGED <<emitted, closed, out, told, stream>>

Close ==
  /\ closed' = TRUE
  /\ UNCHANGED <<emitted, at, out, told, stream>>

\* The bytes that may be delivered next: those up to the next report.
Deliverable == IF told < Len(at) THEN at[told + 1] ELSE emitted

DeliverBytes ==
  /\ stream = "open"
  /\ \E n \in 1 .. Deliverable - Len(out) : out' = out \o Run(Len(out), n)
  /\ stream' \in {"open", "abandoned"}
  /\ UNCHANGED <<emitted, at, closed, told>>

DeliverReport ==
  /\ stream = "open"
  /\ told < Len(at)
  /\ at[told + 1] = Len(out)
  /\ told' = told + 1
  /\ stream' \in {"open", "abandoned"}
  /\ UNCHANGED <<emitted, at, closed, out>>

Finish ==
  /\ stream = "open"
  /\ closed
  /\ Len(out) = emitted
  /\ told = Len(at)
  /\ stream' = "complete"
  /\ UNCHANGED <<emitted, at, closed, out, told>>

Abandon ==
  /\ stream = "open"
  /\ stream' = "abandoned"
  /\ UNCHANGED <<emitted, at, closed, out, told>>

ENext ==
  \/ EmitBytes \/ EmitReport \/ Close
  \/ DeliverBytes \/ DeliverReport \/ Finish \/ Abandon

ESpec == EInit /\ [][ENext]_evars

=============================================================================
