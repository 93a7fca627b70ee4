-------------------------- MODULE MCProcessManager --------------------------
(* Small instances of the process manager for TLC. *)
EXTENDS ProcessManager

(* A run of the safety properties alone. *)
SafetySpec == Init /\ [][Next]_vars
=============================================================================
