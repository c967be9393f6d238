------------------------------- MODULE Pipeline -------------------------------
(***************************************************************************)
(* SolakonDevice on its Modbus client: every read of a fetch is a call of  *)
(* ModbusLink on the one connection the program keeps, and what that call  *)
(* returns is what the member gets.  The reads of SnapshotFetch are no     *)
(* longer single steps: requests, replies, timeouts and resets come        *)
(* between them.                                                           *)
(***************************************************************************)
EXTENDS Integers, Sequences

CONSTANTS Plan, Uninitialised, MaxFetches,       \* as in SnapshotFetch
          Hosts, Addresses,                      \* as in ModbusLink
          Chunks    \* numbers of bytes a recv may return of an unfinished response

VARIABLES
  impl, step, locals, snap, valid, fetch, failures,         \* SnapshotFetch
  fd, host, dest, tid, pc, req, owed, replies, sent, base,  \* ModbusLink
  total, peer, last, late

\* A read of the plan asks for a range; all reads of all fetches may fail.
Registers(s) == [addr |-> s.reg, count |-> s.count]

Link == INSTANCE ModbusLink
          WITH Requests <- {Registers(Plan[i]) : i \in 1..Len(Plan)},
               MaxReads <- MaxFetches * Len(Plan)

Device == INSTANCE SnapshotFetch
            WITH connected <- fd = "open", MaxFailures <- Len(Plan)

ASSUME PipelineAssumption ==
  /\ Plan \in Seq(Device!ReadStep)
  /\ \A i, j \in 1..Len(Plan) : Plan[i].field = Plan[j].field => i = j
  /\ \A i \in 1..Len(Plan) : Registers(Plan[i]) \in [addr : Link!Word16, count : Link!Counts]
  /\ MaxFetches \in Nat
  /\ Addresses \subseteq Hosts
  /\ Chunks \subseteq Nat \ {0}

link   == <<fd, host, dest, tid, pc, req, owed, replies, sent, base, total, peer,
            last, late>>
device == <<impl, step, locals, snap, valid, fetch, failures>>
vars   == <<link, device>>

-----------------------------------------------------------------------------
\* The fetch in which a transaction id was used: the reads of this one took the
\* last `step` ids; 0 stands for any fetch before.
FetchOf(id) == IF (tid - id) % 65536 <= step THEN fetch ELSE 0

\* What the parsed response holds: a register read in some fetch.  (A response
\* that begins in the middle of a reply holds no register's contents at all.)
Delivered(got) == Device!Reading(got.addr, FetchOf(got.tid))

\* connect() and disconnect() of the device are those of its client.
Connect(h) == Link!Connect(h) /\ Device!Connect(fd' = "open")

Disconnect == Link!Disconnect /\ Device!Disconnect

BeginFetch == UNCHANGED link /\ Device!BeginFetch

\* The next read of the fetch calls the client.
Call ==
  /\ step \in Device!Steps
  /\ Link!StartRead(Registers(Plan[step]))
  /\ UNCHANGED device

\* The client goes on, and when it returns the member gets what it returned.
Client ==
  /\ \/ Link!Send \/ Link!SendFails \/ Link!Timeout \/ Link!ReceiveGone
     \/ (\E n \in Chunks : Link!ReceiveSome(n)) \/ Link!ReceiveRest
  /\ \/ pc' # "idle" /\ UNCHANGED device
     \/ pc' = "idle" /\ last'.status = "ok" /\ Device!ReadGives(Delivered(last'.got))
     \/ pc' = "idle" /\ last'.status = "fail" /\ Device!ReadFails

EndFetch == UNCHANGED link /\ Device!EndFetch

\* The inverter and the network.
Environment ==
  /\ \/ \E ok \in BOOLEAN : Link!Answer(ok)
     \/ Link!Ignore
     \/ \E p \in {"fin", "reset"} : Link!PeerGone(p)
  /\ UNCHANGED device

Init == Link!Init /\ Device!Init

Fetch == BeginFetch \/ Call \/ Client \/ EndFetch

Next ==
  \/ \E h \in Hosts : Connect(h)
  \/ Disconnect
  \/ Fetch
  \/ Environment

Spec == Init /\ [][Next]_vars

\* The thread that fetches runs on.
FairSpec == Spec /\ WF_vars(Call \/ Client \/ EndFetch)
-----------------------------------------------------------------------------
(* Properties *)

\* On a connection on which no call has given up, a fetch over the network is one
\* whose reads are single steps, each returning its own register or an error,
\* whatever happened on the connections before it.
\* (fetch_snapshot on the kept connection, src/solakon_device.cpp:28)
TrustedFetch == [][~late /\ ~late' => [Device!Next]_(Device!vars)]_vars

\* On such a connection the snapshot can be trusted at every point of the fetch,
\* whatever its locals, the socket and earlier snapshots held: a checked member
\* shows its own register or nothing, a stale value comes from this fetch and from
\* the same local, and while no read has failed every member read so far is its own.
\* (the 65 reads through client_, src/solakon_device.cpp:33)
TrustedSnapshot ==
  step # 0 /\ ~late =>
    /\ Device!CheckedFieldsAreOwn /\ Device!StaleWithinLocal
    /\ failures = 0 => \A i \in 1..(step - 1) : snap[Plan[i].field] = Device!Own(i)

\* A fetch returns, whatever the inverter does.
\* (the 65 reads of fetch_snapshot, src/solakon_device.cpp:33)
FetchReturns == step # 0 ~> step = 0

\* If all its reads succeed, a snapshot holds the registers read in its own fetch.
\* (DeviceSnapshot, include/solakon_device.h:260)
AllOfOneFetch == Device!CompleteWhenAllSucceed
===============================================================================
