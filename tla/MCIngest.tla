------------------------------ MODULE MCIngest ------------------------------
(* Small instances of the ingest pipeline for model checking. *)
EXTENDS Ingest

CONSTANT procmond

(* Rows lost and repeated; rows lost, failed commits and unreadable marks. *)
MCFaultSets == {{"redeliver", "skip"}, {"skip", "commit", "unreadable"}}
=============================================================================
