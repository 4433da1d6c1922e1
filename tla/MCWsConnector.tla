--------------------------- MODULE MCWsConnector ----------------------------
(* Instances of WsConnector for TLC: one or two worker threads, with the   *)
(* bounds in the .cfg files.                                                *)
EXTENDS WsConnector, TLC

\* Handles are interchangeable.
Symmetry == Permutations(Handles)

=============================================================================
