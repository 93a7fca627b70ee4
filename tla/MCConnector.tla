---------------------------- MODULE MCConnector ----------------------------
(* Small instances of the publishing path for TLC. *)
EXTENDS Connector

(* A disk that does not fail, one that fails in every way, and the two on  *)
(* which the active file is safe.                                          *)
MCFaultSets == {{}, FaultKinds, {"rotate", "delete"}, FaultKinds \ {"rotate"}}

(* A disk on which only the last write may be cut short by a crash. *)
MCTornOnly == {{"torn"}}
=============================================================================
