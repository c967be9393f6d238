------------------------------ MODULE ModbusLink ------------------------------
(***************************************************************************)
(* The Modbus TCP client (src/modbus_client.cpp) on one TCP connection to  *)
(* the inverter.  A read sends a 12-byte request and then receives exactly *)
(* as many bytes as a successful reply has; TCP delivers the replies as    *)
(* one byte stream, in any chunks, at any time before or after the 5 s     *)
(* receive timeout.  The stream is kept as positions: a reply is a record  *)
(* of the request it answers and of where its first byte stands in the     *)
(* stream, and base + total is the number of bytes received so far.        *)
(***************************************************************************)
EXTENDS Integers, Sequences

CONSTANTS
  Requests,     \* register ranges [addr, count] the callers read
  Hosts,        \* host strings connect() is called with
  Addresses,    \* those that inet_pton accepts
  MaxReads      \* bound on the reads of a behaviour (through transaction_id_)

\* uint16_t, and the counts for which byte_count fits its uint8_t.  (Written as
\* comprehensions: the provers enumerate a constant interval.)
Word16   == {n \in Nat : n < 65536}
Counts   == {n \in Nat : 1 <= n /\ n <= 125}
AnyLocal == "0.0.0.0"

ASSUME LinkAssumption ==
  /\ Requests \subseteq [addr : Word16, count : Counts]
  /\ Addresses \subseteq Hosts
  /\ MaxReads \in Nat

VARIABLES
  fd,        \* socket_fd_: "open", or "none" for -1
  host,      \* the host connect() was last called with
  dest,      \* the address the socket was connected to
  tid,       \* transaction_id_
  pc,        \* "idle" between calls, "send" or "recv" inside send_receive
  req,       \* the request of the current or last call
  owed,      \* requests the device has not dealt with yet, oldest first
  replies,   \* the replies the device has written on this connection
  sent,      \* how many bytes those are
  base,      \* bytes received by the earlier calls on this connection
  total,     \* bytes received by this call
  peer,      \* "up", "fin" (device closed its side) or "reset"
  last,      \* outcome of the last call on this connection
  late       \* history: has a read given up with its reply outstanding?

net  == <<owed, replies, sent, base, total, peer, last, late>>
vars == <<fd, host, dest, tid, pc, req, net>>

Garbled == [tid |-> 0, addr |-> 0, count |-> 0, ok |-> FALSE]
NoCall  == [status |-> "none", got |-> Garbled]
Failed  == [status |-> "fail", got |-> Garbled]
Frame   == [tid : Word16, addr : Word16, count : Counts \cup {0}, ok : BOOLEAN]

TypeOK ==
  /\ fd \in {"open", "none"}
  /\ host \in Hosts /\ dest \in Addresses \cup {AnyLocal}
  /\ tid \in Word16
  /\ pc \in {"idle", "send", "recv"}
  /\ req \in [tid : Word16, addr : Word16, count : Counts \cup {0}]
  /\ owed \in Seq([tid : Word16, addr : Word16, count : Counts])
  /\ replies \subseteq
       [tid : Word16, addr : Word16, count : Counts, ok : BOOLEAN, from : Nat]
  /\ sent \in Nat /\ base \in Nat /\ total \in Nat
  /\ peer \in {"up", "fin", "reset"}
  /\ last \in [status : {"none", "ok", "fail"}, got : Frame]
  /\ late \in BOOLEAN

-----------------------------------------------------------------------------
(* Frames *)

\* Mutant: the size of the MBAP header alone, without function code and count.
RespLenShort(count) == 7 + ((count * 2) % 256)

\* resp_len = 9 + byte_count, where byte_count is a uint8_t.
RespLen(count) == 9 + ((count * 2) % 256)

\* Length of a reply on the wire: a 9-byte header and the registers, or an
\* exception reply (MBAP header, function code with bit 7, exception code).
FrameLen(r) == IF r.ok THEN 9 + 2 * r.count ELSE 9

Outstanding == sent - (base + total)

\* Can the byte at offset off (from 1) of reply r equal 0x03?  Offsets 1-2 are
\* the transaction id, 3-4 zero, 5-6 the length, 7 the unit id, 8 the function
\* code, 9 the byte count or exception code, the rest register contents.
MayBe3(r, off) ==
  CASE off = 1 -> {r.tid \div 256 = 3}
    [] off = 2 -> {r.tid % 256 = 3}
    [] off = 6 -> {~r.ok}
    [] off = 8 -> {r.ok}
    [] off = 9 -> IF r.ok THEN {FALSE} ELSE BOOLEAN
    [] off \in {3, 4, 5, 7} -> {FALSE}
    [] OTHER -> BOOLEAN

\* rsp->function_code == 0x03, for a response buffer filled from position base.
FunctionCodeOk ==
  UNION {MayBe3(r, base + 8 - r.from) :
           r \in {s \in replies : base + 8 - s.from \in 1..FrameLen(s)}}

\* The reply whose first byte is the first byte of the response buffer.
Header ==
  IF \E r \in replies : r.from = base
  THEN LET r == CHOOSE s \in replies : s.from = base
       IN  [tid |-> r.tid, addr |-> r.addr, count |-> r.count, ok |-> r.ok]
  ELSE Garbled

-----------------------------------------------------------------------------
(* Calls made by the program *)

\* Mutant: disconnect() forgets to close the socket, so its stream lives on.
ConnectionKept ==
  /\ last' = NoCall /\ late' = FALSE
  /\ UNCHANGED <<owed, replies, sent, base, total, peer>>

\* No connection has outlived the close() of its socket, or carried a byte yet.
NoConnection ==
  /\ owed' = <<>> /\ replies' = {}
  /\ sent' = 0 /\ base' = 0 /\ total' = 0
  /\ peer' = "up" /\ last' = NoCall /\ late' = FALSE

\* Mutant: the string itself is taken for an address.
DialledAsGiven(h) == h

\* inet_pton leaves sin_addr zero for a string that is no dotted address, and
\* its result is not looked at.
Dialled(h) == IF h \in Addresses THEN h ELSE AnyLocal

\* connect(): an open socket is closed first; on failure it stays closed.
Connect(h) ==
  /\ pc = "idle"
  /\ host' = h
  /\ \/ fd' = "open" /\ dest' = Dialled(h)
     \/ fd' = "none" /\ UNCHANGED dest
  /\ NoConnection
  /\ UNCHANGED <<tid, pc, req>>

\* disconnect()
Disconnect ==
  /\ pc = "idle" /\ fd = "open"
  /\ fd' = "none"
  /\ NoConnection
  /\ UNCHANGED <<host, dest, tid, pc, req>>

\* read_holding_registers builds the request and takes a transaction id.  Its early
\* return for an empty range is out of reach: Requests have a count of 1 to 125.
StartRead(r) ==
  /\ pc = "idle"
  /\ tid <= MaxReads
  /\ req' = [tid |-> tid, addr |-> r.addr, count |-> r.count]
  /\ tid' = IF tid = 65535 THEN 0 ELSE tid + 1    \* uint16_t wraps
  /\ pc' = "send"
  /\ last' = NoCall
  /\ UNCHANGED <<fd, host, dest, owed, replies, sent, base, total, peer, late>>

\* ::send succeeds.
Send ==
  /\ pc = "send" /\ fd = "open" /\ peer # "reset"
  /\ owed' = Append(owed, req)
  /\ pc' = "recv"
  /\ UNCHANGED <<fd, host, dest, tid, req, replies, sent, base, total, peer,
                 last, late>>

\* The call returns -1.  The socket stays open and what the device still has to
\* say stays in the stream.
ReturnError ==
  /\ pc' = "idle"
  /\ last' = Failed
  /\ base' = base + total
  /\ total' = 0
  /\ UNCHANGED <<fd, host, dest, tid, req, owed, replies, sent, peer>>

\* ::send fails: no socket (EBADF) or a reset connection (EPIPE).
SendFails ==
  /\ pc = "send" /\ (fd = "none" \/ peer = "reset")
  /\ ReturnError
  /\ UNCHANGED late

\* ::recv returns n bytes and the response is not complete yet.
ReceiveSome(n) ==
  /\ pc = "recv"
  /\ n <= Outstanding
  /\ total + n < RespLen(req.count)
  /\ total' = total + n
  /\ UNCHANGED <<fd, host, dest, tid, pc, req, owed, replies, sent, base, peer,
                 last, late>>

\* Mutant: the function code of the reply is not looked at.
AcceptsAll == {TRUE}

\* Which outcomes the parsed header allows: only the function code is checked,
\* never the transaction id.
Accepts == FunctionCodeOk

\* ::recv returns the rest of the response, which is parsed and copied out.
ReceiveRest ==
  /\ pc = "recv"
  /\ RespLen(req.count) - total <= Outstanding
  /\ \/ TRUE \in Accepts /\ last' = [status |-> "ok", got |-> Header]
     \/ FALSE \in Accepts /\ last' = Failed
  /\ base' = base + RespLen(req.count)
  /\ total' = 0
  /\ pc' = "idle"
  /\ UNCHANGED <<fd, host, dest, tid, req, owed, replies, sent, peer, late>>

\* Is anything of a reply still to come on this connection?
ReplyOutstanding ==
  \/ peer = "up" /\ owed # <<>>
  \/ peer # "reset" /\ Outstanding > 0

\* Mutant: set_socket_options forgets SO_RCVTIMEO.
TimeoutForgotten == FALSE

\* SO_RCVTIMEO is set on the socket: recv does not block for ever.
TimeoutSet == TRUE

\* ::recv fails at any point of the response: EAGAIN after SO_RCVTIMEO, or EINTR
\* when a signal arrives (SA_RESTART does not restart a recv with a timeout).
Timeout ==
  /\ TimeoutSet
  /\ pc = "recv"
  /\ late' = (late \/ ReplyOutstanding)
  /\ ReturnError

\* ::recv returns 0 (device closed, nothing left) or fails: a reset connection
\* may lose what was still under way.
ReceiveGone ==
  /\ pc = "recv"
  /\ peer = "reset" \/ (peer = "fin" /\ Outstanding = 0)
  /\ ReturnError
  /\ UNCHANGED late

-----------------------------------------------------------------------------
(* The device and the network *)

Reply(r, ok) ==
  [tid |-> r.tid, addr |-> r.addr, count |-> r.count, ok |-> ok, from |-> sent]

\* The device answers its oldest request, with data or with an exception.
Answer(ok) ==
  /\ fd = "open" /\ peer = "up" /\ owed # <<>>
  /\ replies' = replies \cup {Reply(Head(owed), ok)}
  /\ sent' = sent + FrameLen(Reply(Head(owed), ok))
  /\ owed' = Tail(owed)
  /\ UNCHANGED <<fd, host, dest, tid, pc, req, base, total, peer, last, late>>

\* The device ignores its oldest request.
Ignore ==
  /\ fd = "open" /\ peer = "up" /\ owed # <<>>
  /\ owed' = Tail(owed)
  /\ UNCHANGED <<fd, host, dest, tid, pc, req, replies, sent, base, total, peer,
                 last, late>>

\* The device closes the connection, or the connection is reset.
PeerGone(p) ==
  /\ fd = "open" /\ peer # "reset" /\ p # peer
  /\ peer' = p
  /\ UNCHANGED <<fd, host, dest, tid, pc, req, owed, replies, sent, base, total,
                 last, late>>

-----------------------------------------------------------------------------
Init ==
  /\ fd = "none"
  /\ host \in Hosts /\ dest = AnyLocal
  /\ tid = 1 /\ pc = "idle"
  /\ req = [tid |-> 0, addr |-> 0, count |-> 0]
  /\ owed = <<>> /\ replies = {} /\ sent = 0 /\ base = 0 /\ total = 0
  /\ peer = "up" /\ last = NoCall /\ late = FALSE

\* A receive step takes at most a whole response.
Receive == (\E n \in 1..Outstanding : ReceiveSome(n)) \/ ReceiveRest

Client == Send \/ SendFails \/ Receive \/ Timeout \/ ReceiveGone

Next ==
  \/ \E h \in Hosts : Connect(h)
  \/ Disconnect
  \/ \E r \in Requests : StartRead(r)
  \/ Client
  \/ \E ok \in BOOLEAN : Answer(ok)
  \/ Ignore
  \/ \E p \in {"fin", "reset"} : PeerGone(p)

Spec == Init /\ [][Next]_vars

\* The thread that called read_* runs on, and recv returns at the latest when
\* its timeout expires.
FairSpec == Spec /\ WF_vars(Client)
-----------------------------------------------------------------------------
(* Properties *)

OwnReply == last.got = [tid |-> req.tid, addr |-> req.addr,
                        count |-> req.count, ok |-> TRUE]

\* A read that succeeds returns the registers its own request asked for, with
\* whatever chunks, exceptions, ignored requests, disconnects and resets came
\* before it.  (read_holding_registers, src/modbus_client.cpp:147)
AnswersItsRequest == last.status = "ok" => OwnReply

\* A foreign reply is only ever accepted on a connection on which an earlier
\* read gave up while its reply was outstanding; a reconnect starts afresh.
\* (send_receive leaves the socket open, src/modbus_client.cpp:74)
OnlyLateReplies == ~late => AnswersItsRequest

\* A response that begins with an exception reply is never taken for register
\* contents, even when the reply comes late.
\* (function code check, src/modbus_client.cpp:177)
NoExceptionAsData ==
  last.status = "ok" /\ last.got # Garbled => last.got.ok

\* Every read returns: the 5 s timeout ends a recv that nothing answers.
\* (set_socket_options, src/modbus_client.cpp:213)
ReadReturns == pc # "idle" ~> pc = "idle"

\* The client implements the abstract register read: what the caller asked for
\* is the range in req while the call lasts, what it got is the range whose
\* reply was parsed, and a connection is trusted until a call has given up on it
\* with its reply outstanding.  (read_holding_registers, src/modbus_client.cpp:147)
Asked == IF pc = "idle" THEN [status |-> "nothing"]
         ELSE [addr |-> req.addr, count |-> req.count]

Got == CASE last.status = "none" -> [status |-> "nothing"]
         [] last.status = "fail" -> [status |-> "error"]
         [] OTHER -> [status |-> "data",
                      of |-> [addr |-> last.got.addr, count |-> last.got.count]]

Register == INSTANCE RegisterRead
              WITH asked <- Asked, result <- Got, trusted <- ~late

ImplementsRegisterRead == Register!Spec
===============================================================================
