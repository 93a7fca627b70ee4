-------------------------- MODULE MCDetectionCycle --------------------------
(* Small instances of the scan loop for model checking. *)
EXTENDS DetectionCycle

(* A run of the safety properties alone. *)
SafetySpec == Init /\ [][Next]_vars
=============================================================================
