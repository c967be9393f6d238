----------------------------- MODULE MCSnapshotSlot ----------------------------
(* Two readers, one more than the program has, and the members that the      *)
(* responses are built from.                                                  *)
EXTENDS SnapshotSlot

CONSTANTS http, probe    \* the HTTP thread and another caller of get_snapshot

MCReaders == {http, probe}
MCFields == {"info", "meter1", "bms", "energy"}
===============================================================================
