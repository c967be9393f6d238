---------------------------- MODULE Pipeline_proofs ----------------------------
(***************************************************************************)
(* Proofs about Pipeline, for every plan: the connection in it is one of   *)
(* ModbusLink, so the theorems about the client hold of it, and with them  *)
(* a fetch on a connection that was never late is a fetch of single steps, *)
(* to which the invariant of SnapshotFetch applies.                        *)
(***************************************************************************)
EXTENDS Pipeline, TLAPS

\* The client with its proofs; Link and Client are the same definitions.
Proven == INSTANCE ModbusLink_proofs
            WITH Requests <- {Registers(Plan[i]) : i \in 1..Len(Plan)},
                 MaxReads <- MaxFetches * Len(Plan)

\* The fetch with its proofs; Reads and Device are the same definitions.
Reads == INSTANCE SnapshotFetch_proofs
           WITH connected <- fd = "open", MaxFailures <- Len(Plan)

\* A call in progress is the read of the plan the fetch stands at, with the last
\* transaction id, and it receives on an open connection.
InStep ==
  /\ pc # "idle" =>
       /\ step \in Device!Steps
       /\ tid = (IF req.tid = 65535 THEN 0 ELSE req.tid + 1)
       /\ req.addr = Plan[step].reg
  /\ pc = "recv" => fd = "open"

-----------------------------------------------------------------------------
(* Every step of the composition is one of the client, or none *)

LEMMA PlanIsRequests == Proven!LinkAssumption
<1>1. {Registers(Plan[i]) : i \in 1..Len(Plan)}
        \subseteq [addr : Proven!Word16, count : Proven!Counts]
  BY PipelineAssumption
     DEF PipelineAssumption, Proven!Word16, Proven!Counts, Link!Word16, Link!Counts
<1>2. MaxFetches * Len(Plan) \in Nat
  BY PipelineAssumption DEF PipelineAssumption
<1> QED  BY <1>1, <1>2, PipelineAssumption DEF Proven!LinkAssumption, PipelineAssumption

LEMMA SameVars == UNCHANGED link <=> UNCHANGED Proven!vars
BY DEF Proven!vars, Proven!net, link

LEMMA SameInit == Link!Init <=> Proven!Init
BY DEF Link!Init, Proven!Init, Link!AnyLocal, Proven!AnyLocal, Link!NoCall, Proven!NoCall,
       Link!Garbled, Proven!Garbled

LEMMA SameConnect == \A h : Link!Connect(h) <=> Proven!Connect(h)
BY DEF Link!Connect, Proven!Connect, Link!NoConnection, Proven!NoConnection,
       Link!Dialled, Proven!Dialled, Link!AnyLocal, Proven!AnyLocal,
       Link!NoCall, Proven!NoCall, Link!Garbled, Proven!Garbled

LEMMA SameDisconnect == Link!Disconnect <=> Proven!Disconnect
BY DEF Link!Disconnect, Proven!Disconnect, Link!NoConnection, Proven!NoConnection,
       Link!NoCall, Proven!NoCall, Link!Garbled, Proven!Garbled

LEMMA SameStartRead == \A r : Link!StartRead(r) <=> Proven!StartRead(r)
BY DEF Link!StartRead, Proven!StartRead, Link!NoCall, Proven!NoCall,
       Link!Garbled, Proven!Garbled

LEMMA SameSend == Link!Send <=> Proven!Send
BY DEF Link!Send, Proven!Send

LEMMA SameReturnError == Link!ReturnError <=> Proven!ReturnError
BY DEF Link!ReturnError, Proven!ReturnError, Link!Failed, Proven!Failed,
       Link!Garbled, Proven!Garbled

LEMMA SameErrors ==
  /\ Link!SendFails <=> Proven!SendFails
  /\ Link!Timeout <=> Proven!Timeout
  /\ Link!ReceiveGone <=> Proven!ReceiveGone
BY SameReturnError
   DEF Link!SendFails, Proven!SendFails, Link!Timeout, Proven!Timeout,
       Link!ReceiveGone, Proven!ReceiveGone, Link!TimeoutSet, Proven!TimeoutSet,
       Link!ReplyOutstanding, Proven!ReplyOutstanding, Link!Outstanding, Proven!Outstanding

LEMMA SameReceive ==
  /\ \A n : Link!ReceiveSome(n) <=> Proven!ReceiveSome(n)
  /\ Link!ReceiveRest <=> Proven!ReceiveRest
BY DEF Link!ReceiveSome, Proven!ReceiveSome, Link!ReceiveRest, Proven!ReceiveRest,
       Link!Accepts, Proven!Accepts, Link!FunctionCodeOk, Proven!FunctionCodeOk,
       Link!Header, Proven!Header, Link!MayBe3, Proven!MayBe3, Link!RespLen, Proven!RespLen,
       Link!FrameLen, Proven!FrameLen, Link!Outstanding, Proven!Outstanding,
       Link!Failed, Proven!Failed, Link!Garbled, Proven!Garbled

LEMMA SameEnvironment ==
  /\ \A ok : Link!Answer(ok) <=> Proven!Answer(ok)
  /\ Link!Ignore <=> Proven!Ignore
  /\ \A p : Link!PeerGone(p) <=> Proven!PeerGone(p)
BY DEF Link!Answer, Proven!Answer, Link!Ignore, Proven!Ignore, Link!PeerGone, Proven!PeerGone,
       Link!Reply, Proven!Reply, Link!FrameLen, Proven!FrameLen

LEMMA ChunkIsReceive ==
  ASSUME Proven!IInv, NEW n \in Chunks, Proven!ReceiveSome(n) PROVE Proven!Receive
<1>1. n \in Nat \ {0} /\ n <= Proven!Outstanding
  BY PipelineAssumption DEF PipelineAssumption, Proven!ReceiveSome
<1>2. Proven!Outstanding \in Int
  BY DEF Proven!IInv, Proven!TypeOK, Proven!Outstanding
<1>3. n \in 1..Proven!Outstanding
  BY <1>1, <1>2
<1> QED  BY <1>3 DEF Proven!Receive

LEMMA StepIsLink ==
  ASSUME Proven!IInv, Next PROVE [Proven!Next]_(Proven!vars)
<1>1. CASE \E h \in Hosts : Connect(h)
  BY <1>1, SameConnect DEF Connect, Proven!Next
<1>2. CASE Disconnect
  BY <1>2, SameDisconnect DEF Disconnect, Proven!Next
<1>3. CASE BeginFetch \/ EndFetch
  BY <1>3, SameVars DEF BeginFetch, EndFetch
<1>4. CASE Call
  <2>1. Registers(Plan[step]) \in {Registers(Plan[i]) : i \in 1..Len(Plan)}
    BY <1>4 DEF Call, Device!Steps
  <2> QED  BY <1>4, <2>1, SameStartRead DEF Call, Proven!Next
<1>5. CASE Client
  <2>1. CASE \E n \in Chunks : Link!ReceiveSome(n)
    BY <2>1, SameReceive, ChunkIsReceive DEF Proven!Client, Proven!Next
  <2> QED  BY <1>5, <2>1, SameSend, SameErrors, SameReceive
           DEF Client, Proven!Receive, Proven!Client, Proven!Next
<1>6. CASE Environment
  BY <1>6, SameEnvironment DEF Environment, Proven!Next
<1> QED  BY <1>1, <1>2, <1>3, <1>4, <1>5, <1>6 DEF Next, Fetch

-----------------------------------------------------------------------------
(* The fetch and the call in progress *)

LEMMA InStepNext == ASSUME InStep, [Next]_vars PROVE InStep'
<1> DEFINE Id(t) == IF t = 65535 THEN 0 ELSE t + 1
<1>1. ASSUME UNCHANGED <<pc, tid, req, fd, step>> PROVE InStep'
  BY <1>1 DEF InStep, Device!Steps
<1>2. CASE UNCHANGED vars
  BY <1>1, <1>2 DEF vars, link, device
<1>3. ASSUME NEW h \in Hosts, Connect(h) PROVE InStep'
  BY <1>3 DEF Connect, Link!Connect, InStep
<1>4. CASE Disconnect
  BY <1>4 DEF Disconnect, Link!Disconnect, InStep
<1>5. CASE BeginFetch \/ EndFetch
  <2>1. pc' = pc /\ step \notin Device!Steps
    BY <1>5, PipelineAssumption
       DEF BeginFetch, EndFetch, Device!BeginFetch, Device!EndFetch, link, Device!Steps,
           PipelineAssumption
  <2> QED  BY <2>1 DEF InStep
<1>6. CASE Call
  BY <1>6 DEF Call, Link!StartRead, Registers, InStep, device, Device!Steps
<1>7. CASE Client /\ pc' = "idle"
  BY <1>7 DEF InStep
<1>8. CASE Client /\ pc' # "idle"
  <2>1. step' = step
    BY <1>8 DEF Client, device
  <2>2. Link!Send \/ \E n \in Chunks : Link!ReceiveSome(n)
    BY <1>8 DEF Client, Link!SendFails, Link!Timeout, Link!ReceiveGone, Link!ReceiveRest,
                Link!ReturnError
  <2>3. UNCHANGED <<tid, req, fd>> /\ pc # "idle" /\ (pc' = "recv" => fd = "open")
    BY <2>2 DEF InStep, Link!Send, Link!ReceiveSome
  <2> QED  BY <2>1, <2>3 DEF InStep, Device!Steps
<1>9. CASE Environment
  BY <1>1, <1>9 DEF Environment, device, Link!Answer, Link!Ignore, Link!PeerGone
<1> QED  BY <1>2, <1>3, <1>4, <1>5, <1>6, <1>7, <1>8, <1>9 DEF Next, Fetch

LEMMA Invariance == Spec => [](Proven!IInv /\ InStep)
<1>1. Init => Proven!IInv /\ InStep
  BY SameInit, PlanIsRequests, Proven!InitIInv DEF Init, InStep, Link!Init
<1>2. ASSUME Proven!IInv, InStep, [Next]_vars PROVE Proven!IInv' /\ InStep'
  <2>1. [Proven!Next]_(Proven!vars)
    BY <1>2, StepIsLink, SameVars DEF vars
  <2> QED  BY <1>2, <2>1, InStepNext, PlanIsRequests, Proven!NextIInv
<1> QED  BY <1>1, <1>2, PTL DEF Spec

\* What the composition does with its connection, the client alone can do: all
\* that is proved of ModbusLink holds within a fetch.
\* (SolakonDevice's client_, src/solakon_device.cpp:10)
THEOREM UsesTheLink == Spec => Proven!Spec
<1>1. Init => Proven!Init
  BY SameInit DEF Init
<1>2. ASSUME Proven!IInv, [Next]_vars PROVE [Proven!Next]_(Proven!vars)
  BY <1>2, StepIsLink, SameVars DEF vars
<1> QED  BY <1>1, <1>2, Invariance, PTL DEF Spec, Proven!Spec

-----------------------------------------------------------------------------
(* The fetch *)

LEMMA WrapsAround ==
  ASSUME NEW x \in Int, 0 <= x + 65536, x < 0 PROVE x % 65536 = x + 65536
OBVIOUS

\* A call that has not been late returns the registers of its own read.
LEMMA OwnRead ==
  ASSUME Proven!IInv, Proven!IInv', InStep, ~late', pc = "recv",
         UNCHANGED <<req, tid>>, last'.status = "ok"
  PROVE  Delivered(last'.got) = Device!Reading(Plan[step].reg, fetch)
<1>1. last'.got.tid = req.tid /\ last'.got.addr = req.addr
  BY DEF Proven!IInv, Proven!OnlyLateReplies, Proven!AnswersItsRequest, Proven!OwnReply
<1>2. req.tid \in Nat /\ req.tid < 65536
  BY DEF Proven!IInv, Proven!TypeOK, Proven!Word16
<1>3. (tid - req.tid) % 65536 = 1
  <2>1. CASE req.tid = 65535
    <3>1. tid = 0
      BY <2>1 DEF InStep
    <3>2. tid - req.tid \in Int /\ tid - req.tid = 1 - 65536
      BY <2>1, <3>1
    <3> QED  BY <3>2, WrapsAround
  <2>2. CASE req.tid # 65535
    BY <1>2, <2>2 DEF InStep
  <2> QED  BY <2>1, <2>2
<1>4. 1 <= step /\ req.addr = Plan[step].reg
  BY DEF InStep, Device!Steps
<1> QED  BY <1>1, <1>3, <1>4 DEF Delivered, FetchOf

LEMMA StepIsFetch ==
  ASSUME Proven!IInv, Proven!IInv', InStep, Next, ~late, ~late'
  PROVE  [Device!Next]_(Device!vars)
<1>1. ASSUME UNCHANGED device, UNCHANGED fd PROVE UNCHANGED Device!vars
  BY <1>1 DEF device, Device!vars
<1>2. ASSUME NEW h \in Hosts, Connect(h) PROVE Device!Next
  BY <1>2 DEF Connect, Device!Next, Device!Connect
<1>3. CASE Disconnect \/ BeginFetch \/ EndFetch
  BY <1>3 DEF Disconnect, BeginFetch, EndFetch, Device!Next
<1>4. CASE Call
  BY <1>1, <1>4 DEF Call, Link!StartRead
<1>5. CASE Client
  <2>1. UNCHANGED <<fd, req, tid>>
    BY <1>5 DEF Client, Link!Send, Link!SendFails, Link!Timeout, Link!ReceiveGone,
                Link!ReceiveSome, Link!ReceiveRest, Link!ReturnError
  <2>2. CASE pc' # "idle"
    BY <1>1, <1>5, <2>1, <2>2 DEF Client
  <2>3. CASE pc' = "idle" /\ last'.status = "fail"
    BY <1>5, <2>3 DEF Client, Device!Next
  <2>4. CASE pc' = "idle" /\ last'.status = "ok"
    <3>1. pc = "recv"
      <4>1. CASE Link!Send
        BY <2>4, <4>1 DEF Link!Send
      <4>2. CASE Link!SendFails
        BY <2>4, <4>2 DEF Link!SendFails, Link!ReturnError, Link!Failed
      <4> QED  BY <1>5, <4>1, <4>2 DEF Client, Link!Timeout, Link!ReceiveGone,
                                       Link!ReceiveSome, Link!ReceiveRest
    <3>2. Device!ReadGives(Delivered(last'.got))
      BY <1>5, <2>4 DEF Client
    <3>3. Delivered(last'.got) = Device!Reading(Plan[step].reg, fetch)
      BY <2>1, <2>4, <3>1, OwnRead
    <3> QED  BY <3>2, <3>3 DEF Device!Next, Device!ReadOk, Device!Now
  <2> QED  BY <1>5, <2>2, <2>3, <2>4 DEF Client
<1>6. CASE Environment
  BY <1>1, <1>6 DEF Environment, Link!Answer, Link!Ignore, Link!PeerGone
<1> QED  BY <1>2, <1>3, <1>4, <1>5, <1>6 DEF Next, Fetch

\* A fetch on a connection that was not late is one of SnapshotFetch.
\* (fetch_snapshot on the kept connection, src/solakon_device.cpp:28)
THEOREM TrustedFetches == Spec => TrustedFetch
<1> DEFINE P == ~late /\ ~late' => [Device!Next]_(Device!vars)
<1>1. ASSUME Proven!IInv, Proven!IInv', InStep, [Next]_vars PROVE UNCHANGED vars \/ P
  BY <1>1, StepIsFetch
<1> QED  BY <1>1, Invariance, PTL DEF Spec, TrustedFetch

-----------------------------------------------------------------------------
(* The snapshot *)

\* A fetch begins with a snapshot of its own, so what the invariant of SnapshotFetch
\* needs of the time before is only that its counter counts.
InFetch ==
  /\ impl \in BOOLEAN /\ fetch \in Nat
  /\ step # 0 /\ ~late => Reads!IInv

LEMMA PlanIsReads == Reads!PlanAssumption
<1>1. Plan \in Seq(Reads!ReadStep) /\ Len(Plan) \in Nat
  BY PipelineAssumption DEF PipelineAssumption, Device!ReadStep, Reads!ReadStep
<1> QED  BY <1>1, PipelineAssumption DEF Reads!PlanAssumption, PipelineAssumption

LEMMA SameReads ==
  /\ Device!BeginFetch <=> Reads!BeginFetch
  /\ [Device!Next]_(Device!vars) <=> [Reads!Next]_(Reads!vars)
<1>1. Device!BeginFetch <=> Reads!BeginFetch
  BY DEF Device!BeginFetch, Reads!BeginFetch, Device!FreshSnap, Reads!FreshSnap,
         Device!FreshLocals, Reads!FreshLocals, Device!Fields, Reads!Fields,
         Device!Locals, Reads!Locals, Device!Steps, Reads!Steps,
         Device!Default, Reads!Default, Device!Garbage, Reads!Garbage
<1>2. Device!FetchUnconnected <=> Reads!FetchUnconnected
  BY DEF Device!FetchUnconnected, Reads!FetchUnconnected, Device!FreshSnap, Reads!FreshSnap,
         Device!Fields, Reads!Fields, Device!Steps, Reads!Steps,
         Device!Default, Reads!Default
<1>3. /\ \A ok : Device!Connect(ok) <=> Reads!Connect(ok)
      /\ Device!Disconnect <=> Reads!Disconnect
      /\ Device!EndFetch <=> Reads!EndFetch
  BY DEF Device!Connect, Reads!Connect, Device!Disconnect, Reads!Disconnect,
         Device!EndFetch, Reads!EndFetch
<1>4. Device!ReadOk <=> Reads!ReadOk
  BY DEF Device!ReadOk, Reads!ReadOk, Device!ReadGives, Reads!ReadGives, Device!Now, Reads!Now,
         Device!Steps, Reads!Steps, Device!Reading, Reads!Reading
<1>5. Device!ReadFails <=> Reads!ReadFails
  BY DEF Device!ReadFails, Reads!ReadFails, Device!AfterFailure, Reads!AfterFailure,
         Device!Now, Reads!Now, Device!Steps, Reads!Steps
<1>6. Device!Next <=> Reads!Next
  BY <1>1, <1>2, <1>3, <1>4, <1>5 DEF Device!Next, Reads!Next
<1>7. UNCHANGED Device!vars <=> UNCHANGED Reads!vars
  BY DEF Device!vars, Reads!vars
<1> QED  BY <1>1, <1>6, <1>7

LEMMA InFetchInit == Init => InFetch
<1>1. Init => step = 0 /\ fetch = 0 /\ impl = FALSE
  BY DEF Init, Device!Init
<1>2. Init => fetch \in Nat /\ ~(step # 0)
  BY <1>1, SMT
<1>3. Init => impl \in BOOLEAN
  BY <1>1, Zenon
<1> QED  BY <1>2, <1>3, Zenon DEF InFetch

LEMMA InFetchNext ==
  ASSUME Proven!IInv, Proven!IInv', InStep, InFetch, [Next]_vars PROVE InFetch'
<1>1. impl' \in BOOLEAN /\ fetch' \in Nat
  <2>1. fetch' = fetch \/ fetch' = fetch + 1
    BY DEF Next, Fetch, Connect, Disconnect, BeginFetch, Call, Client, EndFetch, Environment,
           Device!Connect, Device!Disconnect, Device!BeginFetch, Device!EndFetch,
           Device!ReadGives, Device!ReadFails, device, vars
  <2>2. impl' = impl \/ impl' = TRUE
    BY DEF Next, Fetch, Connect, Disconnect, BeginFetch, Call, Client, EndFetch, Environment,
           Device!Connect, Device!Disconnect, Device!BeginFetch, Device!EndFetch,
           Device!ReadGives, Device!ReadFails, device, vars
  <2>3. fetch' \in Nat
    BY <2>1, SMT DEF InFetch
  <2>4. impl' \in BOOLEAN
    BY <2>2, Zenon DEF InFetch
  <2> QED  BY <2>3, <2>4
<1>2. ASSUME step' # 0, ~late' PROVE Reads!IInv'
  <2>1. CASE UNCHANGED vars
    <3>1. step # 0 /\ ~late /\ UNCHANGED Reads!vars
      BY <1>2, <2>1 DEF vars, link, device, Reads!vars
    <3> QED  BY <3>1, PlanIsReads, Reads!NextIInv DEF InFetch
  <2>2. CASE Next /\ step = 0
    <3>1. BeginFetch
      BY <1>2, <2>2, PipelineAssumption
         DEF Next, Fetch, Connect, Disconnect, Call, Client, EndFetch, Environment,
             Device!Connect, Device!Disconnect, Device!EndFetch, Device!ReadGives,
             Device!ReadFails, Device!Steps, device, PipelineAssumption
    <3>2. Reads!BeginFetch
      BY <3>1, SameReads DEF BeginFetch
    <3>3. impl \in BOOLEAN /\ (fd = "open") \in BOOLEAN /\ fetch \in Nat
      BY Zenon DEF InFetch
    <3> QED  BY <3>2, <3>3, PlanIsReads, Reads!BeginFetchIInv, Zenon
  <2>3. CASE Next /\ step # 0
    <3>1. Call \/ Client \/ EndFetch \/ Environment
      BY <2>3 DEF Next, Fetch, Connect, Disconnect, BeginFetch, Device!Connect,
                  Device!Disconnect, Device!BeginFetch
    <3>2. ASSUME Call \/ EndFetch \/ Environment PROVE ~late
      <4>1. late' = late
        BY <3>2 DEF Call, EndFetch, Environment, link, Link!StartRead, Link!Answer,
                    Link!Ignore, Link!PeerGone
      <4> QED  BY <1>2, <4>1
    <3>3. ASSUME Client PROVE ~late
      <4>1. late => late'
        BY <3>3 DEF Client, Link!Send, Link!SendFails, Link!Timeout, Link!ReceiveGone,
                    Link!ReceiveSome, Link!ReceiveRest, Link!ReturnError
      <4> QED  BY <1>2, <4>1
    <3>4. ~late
      BY <3>1, <3>2, <3>3
    <3>5. [Reads!Next]_(Reads!vars)
      BY <1>2, <2>3, <3>4, StepIsFetch, SameReads
    <3> QED  BY <2>3, <3>4, <3>5, PlanIsReads, Reads!NextIInv DEF InFetch
  <2> QED  BY <2>1, <2>2, <2>3
<1> QED  BY <1>1, <1>2 DEF InFetch

\* For every plan: the snapshot of a fetch on a connection that was not late shows
\* what was read, whatever the connections and fetches before it left behind.
\* (the 65 reads through client_, src/solakon_device.cpp:33)
THEOREM TrustedSnapshots == Spec => []TrustedSnapshot
<1>1. Spec => []InFetch
  BY InFetchInit, InFetchNext, Invariance, PTL DEF Spec
<1>2. ASSUME InFetch PROVE TrustedSnapshot
  <2>1. SUFFICES ASSUME step # 0, ~late
                 PROVE  /\ Device!CheckedFieldsAreOwn /\ Device!StaleWithinLocal
                        /\ failures = 0 => \A i \in 1..(step - 1) :
                                              snap[Plan[i].field] = Device!Own(i)
    BY DEF TrustedSnapshot
  <2>2. Reads!IInv
    BY <1>2, <2>1 DEF InFetch
  <2>3. \A i : Device!Own(i) = Reads!Own(i)
    BY DEF Device!Own, Reads!Own, Device!Reading, Reads!Reading
  <2>4. Device!Default = Reads!Default /\ Device!Steps = Reads!Steps
    BY DEF Device!Default, Reads!Default, Device!Steps, Reads!Steps
  <2>5. Device!CheckedFieldsAreOwn
    BY <2>2, <2>3, <2>4 DEF Reads!IInv, Device!CheckedFieldsAreOwn, Reads!CheckedFieldsAreOwn
  <2>6. Device!StaleWithinLocal
    BY <2>2, <2>3, <2>4 DEF Reads!IInv, Device!StaleWithinLocal, Reads!StaleWithinLocal
  <2>7. failures = 0 => \A i \in 1..(step - 1) : snap[Plan[i].field] = Device!Own(i)
    BY <2>1, <2>2, <2>3 DEF Reads!IInv, Reads!CompleteSoFar
  <2> QED  BY <2>5, <2>6, <2>7
<1> QED  BY <1>1, <1>2, PTL

-----------------------------------------------------------------------------
(* The bound on the failures *)

FailuresCounted ==
  step \in Nat /\ failures \in Nat /\ (step # 0 => failures < step)

\* A read can fail at every place of a fetch: MaxFailures, which is the number of the
\* reads here, cuts no behaviour off.  (the reads, src/solakon_device.cpp:33)
THEOREM EveryReadMayFail ==
  Spec => [](step \in Device!Steps => failures < Len(Plan))
<1>1. Init => FailuresCounted
  BY DEF Init, Device!Init, FailuresCounted
<1>2. ASSUME FailuresCounted, [Next]_vars PROVE FailuresCounted'
  <2>1. \/ UNCHANGED <<step, failures>>
        \/ step' = 1 /\ failures' = 0
        \/ step' = 0 /\ failures' = failures
        \/ step \in Device!Steps /\ step' = step + 1
           /\ (failures' = failures \/ failures' = failures + 1)
    BY <1>2 DEF Next, Fetch, Connect, Disconnect, BeginFetch, Call, Client, EndFetch,
                Environment, Device!Connect, Device!Disconnect, Device!BeginFetch,
                Device!EndFetch, Device!ReadGives, Device!ReadFails, device, vars
  <2>2. step \in Device!Steps => step # 0
    BY DEF Device!Steps
  <2> QED  BY <1>2, <2>1, <2>2 DEF FailuresCounted
<1>3. FailuresCounted => (step \in Device!Steps => failures < Len(Plan))
  BY PipelineAssumption DEF FailuresCounted, Device!Steps, PipelineAssumption
<1> QED  BY <1>1, <1>2, <1>3, PTL DEF Spec
===============================================================================
