---------------------------- MODULE MCSnapshotFetch ---------------------------
(* SnapshotFetch with the plan of the program.                               *)
EXTENDS SnapshotFetch, RegisterPlan
===============================================================================
