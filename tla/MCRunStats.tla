----------------------------- MODULE MCRunStats -----------------------------
(* RunStats with the ids "", "a" and "a/b", for TLC.                        *)
EXTENDS RunStats, TLC

MCIds == {"", "a", "a/b"}

MCClears == [id \in MCIds |-> CASE id = "" -> MCIds
                                [] id = "a" -> {"a", "a/b"}
                                [] id = "a/b" -> {"a/b"}]

\* The runs differ in nothing.
RunSymmetry == Permutations(Runs)

=============================================================================
