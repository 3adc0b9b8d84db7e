---------------------------- MODULE MCAsciicast ----------------------------
(* Asciicast with short outputs, for TLC.                                   *)
EXTENDS Asciicast

\* ids differ in nothing, and neither do what they report.
StatusSymmetry == Permutations(Ids) \union Permutations(Keys)

=============================================================================
