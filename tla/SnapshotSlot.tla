----------------------------- MODULE SnapshotSlot -----------------------------
(***************************************************************************)
(* The snapshot shared by the main loop and the HTTP thread                *)
(* (latest_snapshot_ and snapshot_mutex_ of src/http_server.cpp).  Copying *)
(* a DeviceSnapshot is no atomic step: it copies strings, numbers and      *)
(* nested structures one after the other, here one of Fields at a time and *)
(* in any order.  Only the mutex keeps a reader from seeing half of an     *)
(* update.                                                                 *)
(***************************************************************************)
EXTENDS Naturals

CONSTANTS
  Fields,       \* the members of a DeviceSnapshot
  Readers,      \* callers of get_snapshot; the program has one, the HTTP thread
  Writer,       \* the main loop, which calls update_snapshot
  Nobody,       \* no thread
  MaxUpdates    \* bound on the updates of a behaviour

ASSUME SlotAssumption ==
  /\ Fields # {}
  /\ Writer \notin Readers
  /\ Nobody \notin Readers \cup {Writer}
  /\ MaxUpdates \in Nat

VARIABLES
  holder,       \* the thread that holds snapshot_mutex_, or Nobody
  slot,         \* latest_snapshot_: for each member, the update it is from
  update,       \* number of the update in progress or last made
  left,         \* for each thread inside its critical section, members to copy
  buffer,       \* what each reader has copied so far
  returned      \* what each reader's last call returned

vars == <<holder, slot, update, left, buffer, returned>>

Threads == Readers \cup {Writer}

Whole(n) == [f \in Fields |-> n]

TypeOK ==
  /\ holder \in Threads \cup {Nobody}
  /\ slot \in [Fields -> Nat]
  /\ update \in Nat
  /\ left \in [Threads -> SUBSET Fields]
  /\ buffer \in [Readers -> [Fields -> Nat]]
  /\ returned \in [Readers -> [Fields -> Nat]]

\* Mutant: there is no snapshot before the first update.
InitEmpty ==
  /\ holder = Nobody
  /\ slot = [f \in {} |-> 0] /\ update = 0
  /\ left = [t \in Threads |-> {}]
  /\ buffer = [r \in Readers |-> Whole(0)]
  /\ returned = [r \in Readers |-> Whole(0)]

Init ==
  /\ holder = Nobody
  /\ slot = Whole(0) /\ update = 0
  /\ left = [t \in Threads |-> {}]
  /\ buffer = [r \in Readers |-> Whole(0)]
  /\ returned = [r \in Readers |-> Whole(0)]

\* Mutant: the critical section is entered without waiting for the mutex.
LockWithoutWaiting(t) == holder' = t

\* std::lock_guard: waits until the mutex is free.
Lock(t) ==
  /\ holder = Nobody
  /\ holder' = t

\* update_snapshot(snap)
BeginUpdate ==
  /\ update < MaxUpdates
  /\ Lock(Writer)
  /\ update' = update + 1
  /\ left' = [left EXCEPT ![Writer] = Fields]
  /\ UNCHANGED <<slot, buffer, returned>>

UpdateField(f) ==
  /\ f \in left[Writer]
  /\ slot' = [slot EXCEPT ![f] = update]
  /\ left' = [left EXCEPT ![Writer] = @ \ {f}]
  /\ UNCHANGED <<holder, update, buffer, returned>>

EndUpdate ==
  /\ holder = Writer /\ left[Writer] = {}
  /\ holder' = Nobody
  /\ UNCHANGED <<slot, update, left, buffer, returned>>

\* get_snapshot(): the copy is made before the lock is released.
BeginGet(r) ==
  /\ Lock(r)
  /\ left' = [left EXCEPT ![r] = Fields]
  /\ UNCHANGED <<slot, update, buffer, returned>>

GetField(r, f) ==
  /\ f \in left[r]
  /\ buffer' = [buffer EXCEPT ![r][f] = slot[f]]
  /\ left' = [left EXCEPT ![r] = @ \ {f}]
  /\ UNCHANGED <<holder, slot, update, returned>>

EndGet(r) ==
  /\ holder = r /\ left[r] = {}
  /\ returned' = [returned EXCEPT ![r] = buffer[r]]
  /\ holder' = Nobody
  /\ UNCHANGED <<slot, update, left, buffer>>

Next ==
  \/ BeginUpdate
  \/ \E f \in Fields : UpdateField(f)
  \/ EndUpdate
  \/ \E r \in Readers : BeginGet(r) \/ EndGet(r)
  \/ \E r \in Readers, f \in Fields : GetField(r, f)

Spec == Init /\ [][Next]_vars

-----------------------------------------------------------------------------
(* Properties *)

\* A caller of get_snapshot never sees a mixture of two updates.
\* (get_snapshot, src/http_server.cpp:98)
NoTornSnapshot == \A r \in Readers : \E n \in 0..update : returned[r] = Whole(n)

\* The locked slot implements the atomic one: an update takes effect when the
\* mutex is released, a get when it has copied the last member.
Some == CHOOSE f \in Fields : TRUE

Latest == IF holder = Writer THEN update - 1 ELSE update

Atomic == INSTANCE AtomicSnapshot WITH
  latest <- Latest,
  got <- [r \in Readers |-> returned[r][Some]]

ImplementsAtomicSnapshot == Atomic!Spec
===============================================================================
