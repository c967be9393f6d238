---------------------------- MODULE AtomicSnapshot ----------------------------
(***************************************************************************)
(* What include/http_server.h promises of the latest snapshot: the main    *)
(* loop replaces it as a whole, and get_snapshot returns it as a whole.    *)
(* A snapshot is known by its number: 0 is the default-constructed one, n  *)
(* the n-th that was published.                                            *)
(***************************************************************************)
EXTENDS Naturals

CONSTANT Readers

VARIABLES
  latest,       \* number of the latest snapshot
  got           \* what each reader's last call returned

vars == <<latest, got>>

Init == latest = 0 /\ got = [r \in Readers |-> 0]

Publish == latest' = latest + 1 /\ UNCHANGED got

Get(r) == got' = [got EXCEPT ![r] = latest] /\ UNCHANGED latest

Next == Publish \/ \E r \in Readers : Get(r)

Spec == Init /\ [][Next]_vars
===============================================================================
