---------------------------- MODULE SnapshotFetch -----------------------------
(***************************************************************************)
(* SolakonDevice (src/solakon_device.cpp): one fetch_snapshot is a fixed   *)
(* sequence of register reads, the Plan, each of which may fail.  A read   *)
(* goes straight into a member of the snapshot, or through a local         *)
(* variable whose value is then copied, with or without a look at the      *)
(* error code.  Values are kept as where they come from: the member's      *)
(* default, a reading of some register in some fetch, or the indeterminate *)
(* contents of a local that was never assigned.  The reads themselves are  *)
(* RegisterRead calls: each returns its own registers, or an error.        *)
(***************************************************************************)
EXTENDS Integers, Sequences

CONSTANTS
  Plan,             \* the reads of a fetch, in order
  Uninitialised,    \* the locals declared without an initializer
  MaxFetches,       \* bound on the fetches of a behaviour
  MaxFailures       \* bound on the failed reads of a fetch with a connection

ReadStep == [reg : Nat, count : Nat, local : STRING, checked : BOOLEAN, field : STRING]

ASSUME PlanAssumption ==
  /\ Plan \in Seq(ReadStep)
  /\ \A i, j \in 1..Len(Plan) : Plan[i].field = Plan[j].field => i = j
  /\ MaxFetches \in Nat /\ MaxFailures \in Nat

Steps  == 1..Len(Plan)
Fields == {Plan[i].field : i \in Steps}
Locals == {Plan[i].local : i \in Steps}

VARIABLES
  impl,        \* impl_ # nullptr
  connected,   \* impl_->is_connected()
  step,        \* the read that comes next, or 0 outside a fetch
  locals,      \* the locals of the four reading functions
  snap,        \* the members of the snapshot
  valid,       \* snap.valid
  fetch,       \* number of the fetch in progress or last made
  failures     \* reads of this fetch that failed

vars == <<impl, connected, step, locals, snap, valid, fetch, failures>>

Default == [kind |-> "default", reg |-> 0, fetch |-> 0]
Garbage == [kind |-> "garbage", reg |-> 0, fetch |-> 0]
Reading(r, n) == [kind |-> "reading", reg |-> r, fetch |-> n]
Value == [kind : {"default", "garbage", "reading"}, reg : Nat, fetch : Nat]

TypeOK ==
  /\ impl \in BOOLEAN /\ connected \in BOOLEAN /\ valid \in BOOLEAN
  /\ step \in 0..(Len(Plan) + 1)
  /\ locals \in [Locals -> Value]
  /\ snap \in [Fields -> Value]
  /\ fetch \in Nat /\ failures \in Nat

\* Mutant: no local has an initializer.
FreshLocalsUnassigned == [l \in Locals |-> Garbage]

\* Mutant: the locals without an initializer do not exist.
FreshLocalsInitialised == [l \in Locals \ Uninitialised |-> Default]

FreshLocals == [l \in Locals |-> IF l \in Uninitialised THEN Garbage ELSE Default]
FreshSnap   == [f \in Fields |-> Default]

Init ==
  /\ impl = FALSE /\ connected = FALSE
  /\ step = 0 /\ locals = FreshLocals
  /\ snap = FreshSnap /\ valid = FALSE
  /\ fetch = 0 /\ failures = 0

\* connect(): the Impl is made once and stays, connected or not.
Connect(ok) ==
  /\ step = 0
  /\ impl' = TRUE
  /\ connected' = ok
  /\ UNCHANGED <<step, locals, snap, valid, fetch, failures>>

\* disconnect()
Disconnect ==
  /\ step = 0 /\ impl
  /\ connected' = FALSE
  /\ UNCHANGED <<impl, step, locals, snap, valid, fetch, failures>>

\* fetch_snapshot() before any connect(): a default-constructed snapshot.
FetchUnconnected ==
  /\ step = 0 /\ ~impl
  /\ snap' = FreshSnap /\ valid' = FALSE
  /\ UNCHANGED <<impl, connected, step, locals, fetch, failures>>

\* Mutant: the snapshot and the locals live on from one fetch to the next.
BeginFetchKeeping ==
  /\ step = 0 /\ impl
  /\ fetch < MaxFetches
  /\ fetch' = fetch + 1 /\ step' = 1 /\ failures' = 0
  /\ valid' = FALSE
  /\ UNCHANGED <<impl, connected, locals, snap>>

\* fetch_snapshot(): a new snapshot, new locals.
BeginFetch ==
  /\ step = 0 /\ impl
  /\ fetch < MaxFetches
  /\ fetch' = fetch + 1 /\ step' = 1 /\ failures' = 0
  /\ snap' = FreshSnap /\ valid' = FALSE
  /\ locals' = FreshLocals
  /\ UNCHANGED <<impl, connected>>

Now == Plan[step]

\* Mutant: the value goes into the member of the read before.
ReadOffByOne ==
  /\ step \in Steps /\ connected
  /\ locals' = [locals EXCEPT ![Now.local] = Reading(Now.reg, fetch)]
  /\ snap' = [snap EXCEPT ![Plan[IF step = 1 THEN 1 ELSE step - 1].field]
                = Reading(Now.reg, fetch)]
  /\ step' = step + 1
  /\ UNCHANGED <<impl, connected, valid, fetch, failures>>

\* A read returns v, which reaches the member, through the local.
ReadGives(v) ==
  /\ step \in Steps /\ connected
  /\ locals' = [locals EXCEPT ![Now.local] = v]
  /\ snap' = [snap EXCEPT ![Now.field] = v]
  /\ step' = step + 1
  /\ UNCHANGED <<impl, connected, valid, fetch, failures>>

\* A read succeeds: it returns the register that was asked for.
ReadOk == ReadGives(Reading(Now.reg, fetch))

\* Mutant: the error code is never looked at.
AfterFailureUnchecked == locals[Now.local]

\* What the member holds after a failed read: a checked one keeps its default,
\* an unchecked one is assigned whatever the local holds.
AfterFailure == IF Now.checked THEN snap[Now.field] ELSE locals[Now.local]

\* A read fails; without a connection every read does (EBADF).
ReadFails ==
  /\ step \in Steps
  /\ connected => failures < MaxFailures
  /\ failures' = failures + 1
  /\ snap' = [snap EXCEPT ![Now.field] = AfterFailure]
  /\ step' = step + 1
  /\ UNCHANGED <<impl, connected, locals, valid, fetch>>

\* Mutant: the last read is forgotten.
EndFetchEarly ==
  /\ step = Len(Plan)
  /\ valid' = TRUE
  /\ step' = 0
  /\ UNCHANGED <<impl, connected, locals, snap, fetch, failures>>

\* The snapshot is returned, and valid whatever happened to the reads.
EndFetch ==
  /\ step = Len(Plan) + 1
  /\ valid' = TRUE
  /\ step' = 0
  /\ UNCHANGED <<impl, connected, locals, snap, fetch, failures>>

Next ==
  \/ \E ok \in BOOLEAN : Connect(ok)
  \/ Disconnect \/ FetchUnconnected
  \/ BeginFetch \/ ReadOk \/ ReadFails \/ EndFetch

Spec == Init /\ [][Next]_vars

-----------------------------------------------------------------------------
(* Properties *)

Own(i) == Reading(Plan[i].reg, fetch)

\* A member whose read is checked never shows another register: it holds its
\* own reading of this fetch or its default.
\* (the `if (!client_.read_...)` tests, src/solakon_device.cpp:46)
CheckedFieldsAreOwn ==
  \A i \in Steps : Plan[i].checked => snap[Plan[i].field] \in {Default, Own(i)}

\* Nothing in a snapshot dates from an earlier fetch.
\* (snap and the locals are constructed anew, src/solakon_device.cpp:29)
NoCarryOver == \A f \in Fields : snap[f].kind = "reading" => snap[f].fetch = fetch

\* A stale value can only come from an earlier read through the same local: a
\* failed battery read never shows meter data.  (src/solakon_device.cpp:161)
StaleWithinLocal ==
  \A i \in Steps :
    snap[Plan[i].field].kind = "reading" /\ snap[Plan[i].field] # Own(i) =>
      \E j \in 1..(i - 1) : /\ Plan[j].local = Plan[i].local
                            /\ snap[Plan[i].field] = Own(j)

\* If no read failed, every member of a valid snapshot is its own reading.
\* (fetch_snapshot, src/solakon_device.cpp:28)
CompleteWhenAllSucceed ==
  valid /\ failures = 0 => \A i \in Steps : snap[Plan[i].field] = Own(i)

\* Only a member whose read is unchecked and whose local has no initializer can
\* ever show the contents of an unassigned variable.
\* (s3 in read_inverter_info, src/solakon_device.cpp:84)
GarbageIsUnassigned ==
  \A i \in Steps : snap[Plan[i].field] = Garbage =>
    ~Plan[i].checked /\ Plan[i].local \in Uninitialised

\* A valid snapshot is a complete one: every member shows its own register.
\* (snap.valid = true, src/solakon_device.cpp:38)
ValidIsComplete == valid => \A i \in Steps : snap[Plan[i].field] = Own(i)
===============================================================================
