---------------------------- MODULE MCProcessRun ----------------------------
(* Process.run with few descendants, for TLC.                              *)
EXTENDS ProcessRun

=============================================================================
