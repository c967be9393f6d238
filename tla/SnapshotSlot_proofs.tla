-------------------------- MODULE SnapshotSlot_proofs --------------------------
(***************************************************************************)
(* Proofs about SnapshotSlot, for any set of members and any number of     *)
(* readers.  The invariant says what the slot and the buffers hold while   *)
(* each thread has the mutex.                                              *)
(***************************************************************************)
EXTENDS SnapshotSlot, TLAPS

\* Only the holder of the mutex is copying.
Exclusive == \A t \in Threads : left[t] # {} => holder = t

\* The slot is whole unless an update is in progress; then it holds the old
\* members that are left and the new ones.
SlotContents ==
  /\ holder # Writer => \A f \in Fields : slot[f] = update
  /\ holder = Writer =>
       /\ update >= 1
       /\ \A f \in Fields :
            slot[f] = IF f \in left[Writer] THEN update - 1 ELSE update

\* What a reader has copied under the mutex is from the latest update.
BufferContents ==
  \A r \in Readers : holder = r => \A f \in Fields \ left[r] : buffer[r][f] = update

IInv == TypeOK /\ Exclusive /\ SlotContents /\ BufferContents /\ NoTornSnapshot

LEMMA InitIInv == Init => IInv
<1> SUFFICES ASSUME Init PROVE IInv
  OBVIOUS
<1>1. TypeOK
  BY DEF Init, TypeOK, Whole
<1>2. Exclusive /\ SlotContents /\ BufferContents
  BY SlotAssumption DEF Init, Exclusive, SlotContents, BufferContents, Whole,
     SlotAssumption, Threads
<1>3. NoTornSnapshot
  <2>1. 0 \in 0..update
    BY DEF Init
  <2> QED  BY <2>1 DEF Init, NoTornSnapshot
<1> QED  BY <1>1, <1>2, <1>3 DEF IInv

\* What is torn or not does not change as long as nothing is returned.
LEMMA StillWhole ==
  ASSUME IInv, UNCHANGED returned, update' \in Nat, update' >= update
  PROVE  NoTornSnapshot'
<1>1. \A n \in 0..update : n \in 0..update'
  BY DEF IInv, TypeOK
<1> QED  BY <1>1 DEF IInv, NoTornSnapshot, Whole

LEMMA BeginUpdateIInv ==
  ASSUME IInv, BeginUpdate
  PROVE  IInv'
<1>1. TypeOK'
  BY DEF BeginUpdate, Lock, IInv, TypeOK, Threads
<1>2. Exclusive'
  BY SlotAssumption DEF BeginUpdate, Lock, IInv, TypeOK, Exclusive, Threads, SlotAssumption
<1>3. holder # Writer /\ update \in Nat /\ update' = update + 1 /\ holder' = Writer
      /\ left'[Writer] = Fields /\ slot' = slot
  BY SlotAssumption DEF BeginUpdate, Lock, IInv, TypeOK, Threads, SlotAssumption
<1>4. SlotContents'
  BY <1>3 DEF IInv, SlotContents
<1>5. BufferContents'
  BY <1>3, SlotAssumption DEF BufferContents, SlotAssumption
<1>6. NoTornSnapshot'
  BY <1>3, StillWhole DEF BeginUpdate
<1> QED  BY <1>1, <1>2, <1>4, <1>5, <1>6 DEF IInv

LEMMA UpdateFieldIInv ==
  ASSUME IInv, NEW f \in Fields, UpdateField(f)
  PROVE  IInv'
<1>1. TypeOK'
  BY DEF UpdateField, IInv, TypeOK, Threads
<1>2. Exclusive'
  BY DEF UpdateField, IInv, TypeOK, Exclusive, Threads
<1>3. holder = Writer /\ UNCHANGED <<holder, update, buffer, returned>>
  BY DEF UpdateField, IInv, Exclusive, Threads
<1>4. \A g \in Fields : /\ slot'[g] = IF g = f THEN update ELSE slot[g]
                        /\ g \in left'[Writer] <=> g \in left[Writer] /\ g # f
  BY DEF UpdateField, IInv, TypeOK, Threads
<1>5. SlotContents'
  BY <1>3, <1>4 DEF IInv, SlotContents
<1>6. BufferContents'
  BY <1>3, SlotAssumption DEF BufferContents, SlotAssumption
<1>7. NoTornSnapshot'
  BY <1>3, StillWhole DEF IInv, TypeOK
<1> QED  BY <1>1, <1>2, <1>5, <1>6, <1>7 DEF IInv

LEMMA EndUpdateIInv ==
  ASSUME IInv, EndUpdate
  PROVE  IInv'
<1>1. TypeOK' /\ Exclusive'
  BY DEF EndUpdate, IInv, TypeOK, Exclusive, Threads
<1>2. SlotContents' /\ BufferContents'
  BY SlotAssumption DEF EndUpdate, IInv, SlotContents, BufferContents, SlotAssumption
<1>3. NoTornSnapshot'
  BY StillWhole DEF EndUpdate, IInv, TypeOK
<1> QED  BY <1>1, <1>2, <1>3 DEF IInv

LEMMA BeginGetIInv ==
  ASSUME IInv, NEW r \in Readers, BeginGet(r)
  PROVE  IInv'
<1>1. TypeOK'
  BY DEF BeginGet, Lock, IInv, TypeOK, Threads
<1>2. Exclusive'
  BY SlotAssumption DEF BeginGet, Lock, IInv, TypeOK, Exclusive, Threads, SlotAssumption
<1>3. holder # Writer /\ holder' = r /\ r # Writer /\ left'[r] = Fields
      /\ UNCHANGED <<slot, update, buffer, returned>>
  BY SlotAssumption DEF BeginGet, Lock, IInv, TypeOK, Threads, SlotAssumption
<1>4. SlotContents' /\ BufferContents'
  BY <1>3 DEF IInv, SlotContents, BufferContents
<1>5. NoTornSnapshot'
  BY <1>3, StillWhole DEF IInv, TypeOK
<1> QED  BY <1>1, <1>2, <1>4, <1>5 DEF IInv

LEMMA GetFieldIInv ==
  ASSUME IInv, NEW r \in Readers, NEW f \in Fields, GetField(r, f)
  PROVE  IInv'
<1>1. TypeOK'
  BY DEF GetField, IInv, TypeOK, Threads
<1>2. Exclusive'
  BY DEF GetField, IInv, TypeOK, Exclusive, Threads
<1>3. holder = r /\ r # Writer /\ UNCHANGED <<holder, slot, update, returned>>
  BY SlotAssumption DEF GetField, IInv, Exclusive, Threads, SlotAssumption
<1>4. \A g \in Fields : /\ buffer'[r][g] = IF g = f THEN slot[f] ELSE buffer[r][g]
                        /\ g \in left'[r] <=> g \in left[r] /\ g # f
  BY DEF GetField, IInv, TypeOK, Threads
<1>5. SlotContents'
  BY <1>3 DEF IInv, SlotContents
<1>6. BufferContents'
  <2>1. slot[f] = update
    BY <1>3 DEF IInv, SlotContents
  <2> QED  BY <1>3, <1>4, <2>1 DEF IInv, BufferContents
<1>7. NoTornSnapshot'
  BY <1>3, StillWhole DEF IInv, TypeOK
<1> QED  BY <1>1, <1>2, <1>5, <1>6, <1>7 DEF IInv

LEMMA EndGetIInv ==
  ASSUME IInv, NEW r \in Readers, EndGet(r)
  PROVE  IInv'
<1>1. TypeOK' /\ Exclusive'
  BY DEF EndGet, IInv, TypeOK, Exclusive, Threads
<1>2. holder = r /\ holder' = Nobody /\ r # Writer
      /\ UNCHANGED <<slot, update, left, buffer>>
  BY SlotAssumption DEF EndGet, SlotAssumption
<1>3. SlotContents' /\ BufferContents'
  BY <1>2, SlotAssumption DEF IInv, SlotContents, BufferContents, SlotAssumption
<1>4. NoTornSnapshot'
  <2>1. \A f \in Fields : buffer[r][f] = update
    BY DEF EndGet, IInv, BufferContents
  <2>2. buffer[r] = Whole(update)
    BY <2>1 DEF IInv, TypeOK, Whole
  <2>3. returned'[r] = Whole(update) /\ update \in 0..update
    BY <2>2 DEF EndGet, IInv, TypeOK
  <2>4. \A s \in Readers : s # r => returned'[s] = returned[s]
    BY DEF EndGet, IInv, TypeOK
  <2>5. \A s \in Readers : \E n \in 0..update : returned'[s] = Whole(n)
    <3>1. TAKE s \in Readers
    <3>2. CASE s = r
      BY <2>3, <3>2
    <3>3. CASE s # r
      BY <2>4, <3>3 DEF IInv, NoTornSnapshot
    <3> QED  BY <3>2, <3>3
  <2> QED  BY <1>2, <2>5 DEF NoTornSnapshot, Whole
<1> QED  BY <1>1, <1>3, <1>4 DEF IInv

LEMMA NextIInv == IInv /\ [Next]_vars => IInv'
<1> SUFFICES ASSUME IInv, [Next]_vars PROVE IInv'
  OBVIOUS
<1>1. CASE BeginUpdate
  BY <1>1, BeginUpdateIInv
<1>2. ASSUME NEW f \in Fields, UpdateField(f) PROVE IInv'
  BY <1>2, UpdateFieldIInv
<1>3. CASE EndUpdate
  BY <1>3, EndUpdateIInv
<1>4. ASSUME NEW r \in Readers, BeginGet(r) PROVE IInv'
  BY <1>4, BeginGetIInv
<1>5. ASSUME NEW r \in Readers, EndGet(r) PROVE IInv'
  BY <1>5, EndGetIInv
<1>6. ASSUME NEW r \in Readers, NEW f \in Fields, GetField(r, f) PROVE IInv'
  BY <1>6, GetFieldIInv
<1>7. CASE UNCHANGED vars
  BY <1>7 DEF vars, IInv, TypeOK, Exclusive, SlotContents, BufferContents,
     NoTornSnapshot, Whole
<1> QED  BY <1>1, <1>2, <1>3, <1>4, <1>5, <1>6, <1>7 DEF Next

THEOREM Invariance == Spec => []IInv
BY InitIInv, NextIInv, PTL DEF Spec

\* The types of the slot's variables, whatever the members and readers.
THEOREM TypeCorrect == Spec => []TypeOK
<1>1. IInv => TypeOK
  BY DEF IInv
<1> QED  BY <1>1, Invariance, PTL

\* No caller of get_snapshot sees a mixture of two updates; see NoTornSnapshot.
THEOREM SnapshotsAreWhole == Spec => []NoTornSnapshot
<1>1. IInv => NoTornSnapshot
  BY DEF IInv
<1> QED  BY <1>1, Invariance, PTL

-----------------------------------------------------------------------------
(* Refinement *)

GotSoFar == [r \in Readers |-> returned[r][Some]]

LEMMA SomeField == Some \in Fields
BY SlotAssumption DEF Some, SlotAssumption

LEMMA RefinesInit == Init => Atomic!Init
BY SlotAssumption, SomeField DEF Init, Atomic!Init, Latest, Whole, SlotAssumption

LEMMA RefinesNext ==
  ASSUME IInv, [Next]_vars
  PROVE  [Atomic!Next]_(Atomic!vars)
<1>1. CASE EndUpdate
  <2>1. Latest = update - 1 /\ Latest' = update /\ UNCHANGED returned /\ update \in Nat
    BY <1>1, SlotAssumption DEF EndUpdate, Latest, SlotAssumption, IInv, TypeOK
  <2>2. Atomic!Publish
    BY <2>1 DEF Atomic!Publish
  <2> QED  BY <2>2 DEF Atomic!Next
<1>2. ASSUME NEW r \in Readers, EndGet(r) PROVE Atomic!Next
  <2>1. Latest = update /\ Latest' = update
    BY <1>2, SlotAssumption DEF EndGet, Latest, SlotAssumption
  <2>2. buffer[r][Some] = update
    BY <1>2, SomeField DEF EndGet, IInv, BufferContents
  <2>3. returned' = [returned EXCEPT ![r] = buffer[r]]
    BY <1>2 DEF EndGet
  <2>4. GotSoFar' = [GotSoFar EXCEPT ![r] = Latest]
    BY <2>1, <2>2, <2>3 DEF GotSoFar, IInv, TypeOK
  <2>5. Atomic!Get(r)
    BY <2>1, <2>4 DEF Atomic!Get, GotSoFar
  <2> QED  BY <2>5 DEF Atomic!Next
<1>3. ASSUME UNCHANGED returned, Latest' = Latest PROVE UNCHANGED Atomic!vars
  BY <1>3 DEF Atomic!vars
<1>4. CASE BeginUpdate
  <2>1. Latest = update /\ Latest' = update /\ UNCHANGED returned
    BY <1>4, SlotAssumption
    DEF BeginUpdate, Lock, Latest, SlotAssumption, IInv, TypeOK
  <2> QED  BY <2>1, <1>3
<1>5. ASSUME NEW r \in Readers, BeginGet(r) PROVE UNCHANGED Atomic!vars
  <2>1. Latest = update /\ Latest' = update /\ UNCHANGED returned
    BY <1>5, SlotAssumption DEF BeginGet, Lock, Latest, SlotAssumption
  <2> QED  BY <2>1, <1>3
<1>6. ASSUME UNCHANGED <<returned, holder, update>> PROVE UNCHANGED Atomic!vars
  BY <1>3, <1>6 DEF Latest
<1>7. CASE \/ \E f \in Fields : UpdateField(f)
           \/ \E r \in Readers, f \in Fields : GetField(r, f)
           \/ UNCHANGED vars
  BY <1>6, <1>7 DEF UpdateField, GetField, vars
<1> QED  BY <1>1, <1>2, <1>4, <1>5, <1>7 DEF Next

\* The mutex makes the member-by-member copies atomic: the slot implements
\* AtomicSnapshot, whatever the members and however many readers there are.
THEOREM Refinement == Spec => ImplementsAtomicSnapshot
<1>1. IInv /\ [Next]_vars => [Atomic!Next]_(Atomic!vars)
  BY RefinesNext
<1> QED
  BY <1>1, RefinesInit, Invariance, PTL DEF Spec, ImplementsAtomicSnapshot, Atomic!Spec
===============================================================================
