------------------------- MODULE SnapshotFetch_proofs --------------------------
(***************************************************************************)
(* Proofs about SnapshotFetch, for every plan in which no member is        *)
(* written twice.  The invariant follows the values through the locals:    *)
(* what a local holds during a fetch is the reading of an earlier step of  *)
(* that fetch through the same local.                                      *)
(***************************************************************************)
EXTENDS SnapshotFetch, TLAPS

LocalsFromEarlier ==
  step # 0 => \A l \in Locals : locals[l].kind = "reading" =>
    \E j \in 1..(step - 1) : Plan[j].local = l /\ locals[l] = Own(j)

CompleteSoFar ==
  step # 0 /\ failures = 0 => \A i \in 1..(step - 1) : snap[Plan[i].field] = Own(i)

ValidOutsideFetch == valid => step = 0

IInv ==
  /\ TypeOK
  /\ CheckedFieldsAreOwn
  /\ StaleWithinLocal
  /\ LocalsFromEarlier
  /\ CompleteSoFar
  /\ ValidOutsideFetch
  /\ CompleteWhenAllSucceed

-----------------------------------------------------------------------------
(* Lemmas about plans and values *)

LEMMA PlanSteps ==
  /\ Len(Plan) \in Nat
  /\ \A i \in Steps : /\ Plan[i].reg \in Nat /\ Plan[i].checked \in BOOLEAN
                      /\ Plan[i].field \in Fields /\ Plan[i].local \in Locals
  /\ \A i, j \in Steps : Plan[i].field = Plan[j].field => i = j
<1>1. Plan \in Seq(ReadStep) /\ \A i, j \in Steps : Plan[i].field = Plan[j].field => i = j
  BY PlanAssumption DEF PlanAssumption, Steps
<1>2. Len(Plan) \in Nat /\ \A i \in Steps : Plan[i] \in ReadStep
  BY <1>1 DEF Steps
<1>3. \A i \in Steps : Plan[i].reg \in Nat /\ Plan[i].checked \in BOOLEAN
  BY <1>2 DEF ReadStep
<1>4. \A i \in Steps : Plan[i].field \in Fields /\ Plan[i].local \in Locals
  BY DEF Fields, Locals
<1> QED  BY <1>1, <1>2, <1>3, <1>4

LEMMA ValueTypes ==
  /\ Default \in Value /\ Garbage \in Value
  /\ \A r, n \in Nat : Reading(r, n) \in Value
BY DEF Default, Garbage, Reading, Value

LEMMA Kinds ==
  /\ Default.kind = "default" /\ Garbage.kind = "garbage"
  /\ \A r, n : Reading(r, n).kind = "reading" /\ Reading(r, n).fetch = n
BY DEF Default, Garbage, Reading

LEMMA FreshTypes ==
  FreshLocals \in [Locals -> Value] /\ FreshSnap \in [Fields -> Value]
BY ValueTypes DEF FreshLocals, FreshSnap

\* A snapshot of defaults satisfies everything.
LEMMA FreshIInv ==
  ASSUME snap = FreshSnap, valid = FALSE, step \in {0, 1}, locals = FreshLocals \/ step = 0
  PROVE  /\ CheckedFieldsAreOwn /\ StaleWithinLocal /\ LocalsFromEarlier
         /\ CompleteSoFar /\ ValidOutsideFetch /\ CompleteWhenAllSucceed
<1>1. \A i \in Steps : snap[Plan[i].field] = Default
  BY PlanSteps DEF FreshSnap
<1>2. CheckedFieldsAreOwn /\ StaleWithinLocal
  BY <1>1, Kinds DEF CheckedFieldsAreOwn, StaleWithinLocal
<1>3. LocalsFromEarlier
  <2>1. \A l \in Locals : FreshLocals[l].kind # "reading"
    BY Kinds DEF FreshLocals
  <2> QED  BY <2>1 DEF LocalsFromEarlier
<1>4. CompleteSoFar /\ ValidOutsideFetch /\ CompleteWhenAllSucceed
  BY DEF CompleteSoFar, ValidOutsideFetch, CompleteWhenAllSucceed
<1> QED  BY <1>2, <1>3, <1>4

-----------------------------------------------------------------------------
(* Init and the steps *)

LEMMA InitIInv == Init => IInv
<1> SUFFICES ASSUME Init PROVE IInv
  OBVIOUS
<1>1. TypeOK
  <2>1. step \in 0..(Len(Plan) + 1)
    BY PlanSteps DEF Init
  <2> QED  BY <2>1, FreshTypes DEF Init, TypeOK
<1> QED  BY <1>1, FreshIInv DEF Init, IInv

LEMMA BetweenFetchesIInv ==
  ASSUME IInv, step = 0, UNCHANGED <<step, locals, snap, valid, fetch, failures>>,
         impl' \in BOOLEAN, connected' \in BOOLEAN
  PROVE  IInv'
BY DEF IInv, TypeOK, CheckedFieldsAreOwn, StaleWithinLocal, LocalsFromEarlier,
       CompleteSoFar, ValidOutsideFetch, CompleteWhenAllSucceed, Own

LEMMA FetchUnconnectedIInv ==
  ASSUME IInv, FetchUnconnected
  PROVE  IInv'
<1>1. TypeOK'
  BY FreshTypes DEF FetchUnconnected, IInv, TypeOK
<1>2. /\ CheckedFieldsAreOwn' /\ StaleWithinLocal' /\ LocalsFromEarlier'
      /\ CompleteSoFar' /\ ValidOutsideFetch' /\ CompleteWhenAllSucceed'
  <2>1. snap' = FreshSnap /\ valid' = FALSE /\ step' = 0
    BY DEF FetchUnconnected
  <2>2. \A i \in Steps : snap'[Plan[i].field] = Default
    BY <2>1, PlanSteps DEF FreshSnap
  <2>3. CheckedFieldsAreOwn' /\ StaleWithinLocal'
    BY <2>2, Kinds DEF CheckedFieldsAreOwn, StaleWithinLocal
  <2> QED
    BY <2>1, <2>3
    DEF LocalsFromEarlier, CompleteSoFar, ValidOutsideFetch, CompleteWhenAllSucceed
<1> QED  BY <1>1, <1>2 DEF IInv

\* A fetch starts anew: whatever snapshot and locals were, the invariant holds.
LEMMA BeginFetchIInv ==
  ASSUME impl \in BOOLEAN, connected \in BOOLEAN, fetch \in Nat, BeginFetch
  PROVE  IInv'
<1>1. snap' = FreshSnap /\ locals' = FreshLocals /\ step' = 1 /\ valid' = FALSE
      /\ fetch' = fetch + 1 /\ failures' = 0
  BY DEF BeginFetch
<1>2. TypeOK'
  <2>1. step' \in 0..(Len(Plan) + 1)
    BY <1>1, PlanSteps
  <2>2. impl' \in BOOLEAN /\ connected' \in BOOLEAN /\ fetch' \in Nat /\ failures' \in Nat
    BY DEF BeginFetch
  <2> QED  BY <1>1, <2>1, <2>2, FreshTypes DEF TypeOK
<1>3. \A i \in Steps : snap'[Plan[i].field] = Default
  BY <1>1, PlanSteps DEF FreshSnap
<1>4. CheckedFieldsAreOwn' /\ StaleWithinLocal'
  BY <1>3, Kinds DEF CheckedFieldsAreOwn, StaleWithinLocal
<1>5. LocalsFromEarlier'
  <2>1. \A l \in Locals : locals'[l].kind # "reading"
    BY <1>1, Kinds DEF FreshLocals
  <2> QED  BY <2>1 DEF LocalsFromEarlier
<1>6. CompleteSoFar' /\ ValidOutsideFetch' /\ CompleteWhenAllSucceed'
  BY <1>1 DEF CompleteSoFar, ValidOutsideFetch, CompleteWhenAllSucceed
<1> QED  BY <1>2, <1>4, <1>5, <1>6 DEF IInv

LEMMA ReadOkIInv ==
  ASSUME IInv, ReadOk
  PROVE  IInv'
<1> DEFINE v == Reading(Plan[step].reg, fetch)
<1>1. /\ step \in Steps /\ step' = step + 1 /\ v = Own(step)
      /\ UNCHANGED <<impl, connected, valid, fetch, failures>>
      /\ locals' = [locals EXCEPT ![Plan[step].local] = v]
      /\ snap' = [snap EXCEPT ![Plan[step].field] = v]
  BY DEF ReadOk, ReadGives, Now, Own
<1>2. v \in Value /\ step \in Nat /\ step # 0 /\ step + 1 \in 0..(Len(Plan) + 1)
  BY <1>1, PlanSteps, ValueTypes DEF IInv, TypeOK, Steps
<1> HIDE DEF v
<1>3. TypeOK'
  BY <1>1, <1>2 DEF IInv, TypeOK
<1>4. \A i \in Steps : snap'[Plan[i].field] = IF i = step THEN v ELSE snap[Plan[i].field]
  BY <1>1, PlanSteps DEF IInv, TypeOK
<1>5. \A i : Own(i)' = Own(i)
  BY <1>1 DEF Own
<1>6. CheckedFieldsAreOwn'
  BY <1>1, <1>4, <1>5 DEF IInv, CheckedFieldsAreOwn
<1>7. StaleWithinLocal'
  BY <1>1, <1>4, <1>5 DEF IInv, StaleWithinLocal
<1>8. LocalsFromEarlier'
  <2>1. SUFFICES ASSUME NEW l \in Locals, locals'[l].kind = "reading"
                 PROVE  \E j \in 1..step : Plan[j].local = l /\ locals'[l] = Own(j)
    BY <1>1, <1>2, <1>5 DEF LocalsFromEarlier
  <2>2. CASE l = Plan[step].local
    <3>1. locals'[l] = Own(step) /\ step \in 1..step
      BY <1>1, <1>2, <2>2 DEF IInv, TypeOK
    <3> QED  BY <2>2, <3>1
  <2>3. CASE l # Plan[step].local
    <3>1. locals'[l] = locals[l]
      BY <1>1, <2>3 DEF IInv, TypeOK
    <3>2. PICK j \in 1..(step - 1) : Plan[j].local = l /\ locals[l] = Own(j)
      BY <1>2, <2>1, <3>1 DEF IInv, LocalsFromEarlier
    <3>3. j \in 1..step
      BY <1>2
    <3> QED  BY <3>1, <3>2, <3>3
  <2> QED  BY <2>2, <2>3
<1>9. CompleteSoFar'
  <2>1. \A i \in 1..step : i \in Steps /\ (i = step \/ i \in 1..(step - 1))
    BY <1>1, <1>2, PlanSteps DEF Steps
  <2>2. failures = 0 => \A i \in 1..step : snap'[Plan[i].field] = Own(i)
    BY <1>1, <1>2, <1>4, <2>1 DEF IInv, CompleteSoFar
  <2>3. step' - 1 = step
    BY <1>1, <1>2
  <2> QED  BY <1>1, <1>5, <2>2, <2>3 DEF CompleteSoFar
<1>10. ValidOutsideFetch' /\ CompleteWhenAllSucceed'
  BY <1>1, <1>2 DEF IInv, ValidOutsideFetch, CompleteWhenAllSucceed
<1> QED  BY <1>3, <1>6, <1>7, <1>8, <1>9, <1>10 DEF IInv

LEMMA ReadFailsIInv ==
  ASSUME IInv, ReadFails
  PROVE  IInv'
<1>1. /\ step \in Steps /\ step' = step + 1 /\ failures' = failures + 1
      /\ UNCHANGED <<impl, connected, locals, valid, fetch>>
      /\ snap' = [snap EXCEPT ![Plan[step].field] = AfterFailure]
  BY DEF ReadFails, Now
<1>2. step \in Nat /\ step # 0 /\ step + 1 \in 0..(Len(Plan) + 1)
      /\ failures' \in Nat /\ failures' # 0
  BY <1>1, PlanSteps DEF IInv, TypeOK, Steps
<1>3. AfterFailure = IF Plan[step].checked THEN snap[Plan[step].field]
                     ELSE locals[Plan[step].local]
  BY DEF AfterFailure, Now
<1>4. AfterFailure \in Value
  BY <1>1, <1>3, PlanSteps DEF IInv, TypeOK
<1>5. TypeOK'
  BY <1>1, <1>2, <1>4 DEF IInv, TypeOK
<1>6. \A i \in Steps : snap'[Plan[i].field]
                        = IF i = step THEN AfterFailure ELSE snap[Plan[i].field]
  BY <1>1, PlanSteps DEF IInv, TypeOK
<1>7. \A i : Own(i)' = Own(i)
  BY <1>1 DEF Own
<1>8. CheckedFieldsAreOwn'
  BY <1>1, <1>3, <1>6, <1>7 DEF IInv, CheckedFieldsAreOwn
<1>9. StaleWithinLocal'
  <2>1. SUFFICES ASSUME NEW i \in Steps, snap'[Plan[i].field].kind = "reading",
                        snap'[Plan[i].field] # Own(i)
                 PROVE  \E j \in 1..(i - 1) : /\ Plan[j].local = Plan[i].local
                                             /\ snap'[Plan[i].field] = Own(j)
    BY <1>7 DEF StaleWithinLocal
  <2>2. CASE i # step \/ Plan[step].checked
    <3>1. snap'[Plan[i].field] = snap[Plan[i].field]
      BY <1>3, <1>6, <2>2
    <3> QED  BY <2>1, <3>1 DEF IInv, StaleWithinLocal
  <2>3. CASE i = step /\ ~Plan[step].checked
    <3>1. snap'[Plan[i].field] = locals[Plan[step].local]
      BY <1>3, <1>6, <2>3
    <3>2. \E j \in 1..(step - 1) : /\ Plan[j].local = Plan[step].local
                                  /\ locals[Plan[step].local] = Own(j)
      BY <1>1, <1>2, <2>1, <3>1, PlanSteps DEF IInv, LocalsFromEarlier
    <3> QED  BY <2>3, <3>1, <3>2
  <2> QED  BY <2>2, <2>3
<1>10. LocalsFromEarlier'
  <2>1. SUFFICES ASSUME NEW l \in Locals, locals[l].kind = "reading"
                 PROVE  \E j \in 1..step : Plan[j].local = l /\ locals[l] = Own(j)
    BY <1>1, <1>2, <1>7 DEF LocalsFromEarlier
  <2>2. PICK j \in 1..(step - 1) : Plan[j].local = l /\ locals[l] = Own(j)
    BY <1>2, <2>1 DEF IInv, LocalsFromEarlier
  <2>3. j \in 1..step
    BY <1>2
  <2> QED  BY <2>2, <2>3
<1>11. CompleteSoFar' /\ ValidOutsideFetch' /\ CompleteWhenAllSucceed'
  BY <1>1, <1>2 DEF IInv, CompleteSoFar, ValidOutsideFetch, CompleteWhenAllSucceed
<1> QED  BY <1>5, <1>8, <1>9, <1>10, <1>11 DEF IInv

LEMMA EndFetchIInv ==
  ASSUME IInv, EndFetch
  PROVE  IInv'
<1>1. step = Len(Plan) + 1 /\ step' = 0 /\ step # 0
      /\ UNCHANGED <<impl, connected, locals, snap, fetch, failures>>
  BY PlanSteps DEF EndFetch
<1>2. TypeOK'
  BY <1>1, PlanSteps DEF EndFetch, IInv, TypeOK
<1>3. CheckedFieldsAreOwn' /\ StaleWithinLocal'
  BY <1>1 DEF IInv, CheckedFieldsAreOwn, StaleWithinLocal, Own
<1>4. CompleteWhenAllSucceed'
  <2>1. 1..(step - 1) = Steps
    BY <1>1, PlanSteps DEF Steps
  <2> QED  BY <1>1, <2>1 DEF IInv, CompleteSoFar, CompleteWhenAllSucceed, Own
<1>5. LocalsFromEarlier' /\ CompleteSoFar' /\ ValidOutsideFetch'
  BY <1>1 DEF LocalsFromEarlier, CompleteSoFar, ValidOutsideFetch
<1> QED  BY <1>2, <1>3, <1>4, <1>5 DEF IInv

LEMMA NextIInv == IInv /\ [Next]_vars => IInv'
<1> SUFFICES ASSUME IInv, [Next]_vars PROVE IInv'
  OBVIOUS
<1>1. ASSUME NEW ok \in BOOLEAN, Connect(ok) PROVE IInv'
  BY <1>1, BetweenFetchesIInv DEF Connect
<1>2. CASE Disconnect
  BY <1>2, BetweenFetchesIInv DEF Disconnect, IInv, TypeOK
<1>3. CASE FetchUnconnected
  BY <1>3, FetchUnconnectedIInv
<1>4. CASE BeginFetch
  BY <1>4, BeginFetchIInv DEF IInv, TypeOK
<1>5. CASE ReadOk
  BY <1>5, ReadOkIInv
<1>6. CASE ReadFails
  BY <1>6, ReadFailsIInv
<1>7. CASE EndFetch
  BY <1>7, EndFetchIInv
<1>8. CASE UNCHANGED vars
  BY <1>8 DEF vars, IInv, TypeOK, CheckedFieldsAreOwn, StaleWithinLocal,
     LocalsFromEarlier, CompleteSoFar, ValidOutsideFetch, CompleteWhenAllSucceed, Own
<1> QED  BY <1>1, <1>2, <1>3, <1>4, <1>5, <1>6, <1>7, <1>8 DEF Next

-----------------------------------------------------------------------------
(* Unassigned variables: what a local without an initializer may hand on *)

GarbageLocals == \A l \in Locals : locals[l] = Garbage => l \in Uninitialised

LEMMA ReadingIsNoGarbage == \A r, n : Reading(r, n) # Garbage
BY Kinds DEF Reading, Garbage

LEMMA InitGarbage == Init => GarbageLocals /\ GarbageIsUnassigned
<1>1. Default # Garbage
  BY DEF Default, Garbage
<1>2. Init => GarbageLocals
  BY <1>1 DEF Init, GarbageLocals, FreshLocals
<1>3. Init => GarbageIsUnassigned
  BY <1>1, PlanSteps DEF Init, GarbageIsUnassigned, FreshSnap
<1> QED  BY <1>2, <1>3

LEMMA NextGarbage ==
  ASSUME IInv, GarbageLocals, GarbageIsUnassigned, [Next]_vars
  PROVE  GarbageLocals' /\ GarbageIsUnassigned'
<1>1. Default # Garbage
  BY DEF Default, Garbage
<1>2. CASE UNCHANGED <<locals, snap>>
  BY <1>2 DEF GarbageLocals, GarbageIsUnassigned
<1>3. CASE FetchUnconnected
  <2>1. locals' = locals /\ \A i \in Steps : snap'[Plan[i].field] = Default
    BY <1>3, PlanSteps DEF FetchUnconnected, FreshSnap
  <2> QED  BY <1>1, <2>1 DEF GarbageLocals, GarbageIsUnassigned
<1>4. CASE BeginFetch
  <2>1. \A i \in Steps : snap'[Plan[i].field] = Default
    BY <1>4, PlanSteps DEF BeginFetch, FreshSnap
  <2>2. \A l \in Locals : locals'[l] = Garbage => l \in Uninitialised
    BY <1>1, <1>4 DEF BeginFetch, FreshLocals
  <2> QED  BY <1>1, <2>1, <2>2 DEF GarbageLocals, GarbageIsUnassigned
<1>5. CASE ReadOk
  <2> DEFINE v == Reading(Plan[step].reg, fetch)
  <2>1. v # Garbage
    BY ReadingIsNoGarbage
  <2>2. /\ step \in Steps
        /\ locals' = [locals EXCEPT ![Plan[step].local] = v]
        /\ snap' = [snap EXCEPT ![Plan[step].field] = v]
    BY <1>5 DEF ReadOk, ReadGives, Now
  <2> HIDE DEF v
  <2>3. \A l \in Locals : locals'[l] = v \/ locals'[l] = locals[l]
    BY <2>2, PlanSteps DEF IInv, TypeOK
  <2>4. \A i \in Steps : snap'[Plan[i].field] \in {v, snap[Plan[i].field]}
    BY <2>2, PlanSteps DEF IInv, TypeOK
  <2> QED  BY <2>1, <2>3, <2>4 DEF GarbageLocals, GarbageIsUnassigned
<1>6. CASE ReadFails
  <2>1. /\ step \in Steps /\ locals' = locals
        /\ snap' = [snap EXCEPT ![Plan[step].field] = AfterFailure]
    BY <1>6 DEF ReadFails, Now
  <2>2. AfterFailure = IF Plan[step].checked THEN snap[Plan[step].field]
                       ELSE locals[Plan[step].local]
    BY DEF AfterFailure, Now
  <2>3. \A i \in Steps : snap'[Plan[i].field]
                          = IF i = step THEN AfterFailure ELSE snap[Plan[i].field]
    BY <2>1, PlanSteps DEF IInv, TypeOK
  <2>4. Plan[step].local \in Locals
    BY <2>1, PlanSteps
  <2> QED  BY <2>1, <2>2, <2>3, <2>4 DEF GarbageLocals, GarbageIsUnassigned
<1>7. ASSUME NEW ok \in BOOLEAN, Connect(ok) PROVE UNCHANGED <<locals, snap>>
  BY <1>7 DEF Connect
<1>8. CASE Disconnect \/ EndFetch \/ UNCHANGED vars
  BY <1>2, <1>8 DEF Disconnect, EndFetch, vars
<1> QED  BY <1>2, <1>3, <1>4, <1>5, <1>6, <1>7, <1>8 DEF Next

-----------------------------------------------------------------------------
(* The theorems *)

THEOREM Invariance == Spec => []IInv
BY InitIInv, NextIInv, PTL DEF Spec

\* The types of the state of a fetch, for every plan.
THEOREM TypeCorrect == Spec => []TypeOK
<1>1. IInv => TypeOK
  BY DEF IInv
<1> QED  BY <1>1, Invariance, PTL

\* A member whose read is checked shows its own reading or its default; see
\* CheckedFieldsAreOwn.
THEOREM ChecksProtect == Spec => []CheckedFieldsAreOwn
<1>1. IInv => CheckedFieldsAreOwn
  BY DEF IInv
<1> QED  BY <1>1, Invariance, PTL

\* A member without a check shows its own reading or an earlier one of the same
\* fetch through the same local; see StaleWithinLocal.
THEOREM StalenessIsLocal == Spec => []StaleWithinLocal
<1>1. IInv => StaleWithinLocal
  BY DEF IInv
<1> QED  BY <1>1, Invariance, PTL

\* No reading outlives its fetch; see NoCarryOver.
THEOREM FetchesAreSeparate == Spec => []NoCarryOver
<1>1. IInv => NoCarryOver
  <2> SUFFICES ASSUME IInv, NEW f \in Fields, snap[f].kind = "reading"
               PROVE  snap[f].fetch = fetch
    BY DEF NoCarryOver
  <2>1. PICK i \in Steps : f = Plan[i].field
    BY DEF Fields
  <2>2. \E j : snap[f] = Own(j)
    BY <2>1 DEF IInv, StaleWithinLocal
  <2> QED  BY <2>2, Kinds DEF Own
<1> QED  BY <1>1, Invariance, PTL

\* A snapshot without failed reads is complete; see CompleteWhenAllSucceed.
THEOREM AllReadsArrive == Spec => []CompleteWhenAllSucceed
<1>1. IInv => CompleteWhenAllSucceed
  BY DEF IInv
<1> QED  BY <1>1, Invariance, PTL

\* Only an unchecked member whose local has no initializer shows the contents of
\* an unassigned variable; see GarbageIsUnassigned.
THEOREM GarbageIsLocal == Spec => []GarbageIsUnassigned
<1>1. Init => GarbageLocals /\ GarbageIsUnassigned
  BY InitGarbage
<1>2. IInv /\ GarbageLocals /\ GarbageIsUnassigned /\ [Next]_vars
        => GarbageLocals' /\ GarbageIsUnassigned'
  BY NextGarbage
<1> QED  BY <1>1, <1>2, Invariance, PTL DEF Spec
===============================================================================
