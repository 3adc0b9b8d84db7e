---------------------------- MODULE MCStreamLoop ----------------------------
(* Instances of StreamLoop for TLC: the bounds are in the configurations.   *)
EXTENDS StreamLoop
=============================================================================
