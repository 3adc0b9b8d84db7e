------------------------------ MODULE MCRunner ------------------------------
(* Runner with the ids "", "a" and "a/b", the last too deep for the         *)
(* terminal, for TLC.                                                       *)
EXTENDS Runner

MCIds == {"", "a", "a/b"}

MCClears == [id \in MCIds |-> CASE id = "" -> MCIds
                                [] id = "a" -> {"a", "a/b"}
                                [] id = "a/b" -> {"a/b"}]

=============================================================================
