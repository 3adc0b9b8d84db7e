--------------------------- MODULE MCContainerRun ---------------------------
(* ContainerProcess.ExecuteAndStream with little output, for TLC.          *)
EXTENDS ContainerRun

=============================================================================
