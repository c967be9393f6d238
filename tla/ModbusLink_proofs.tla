--------------------------- MODULE ModbusLink_proofs ---------------------------
(***************************************************************************)
(* Proofs about ModbusLink, for every set of requests and hosts and every  *)
(* bound.  The invariant IInv says where the read position of the client   *)
(* stands in the stream of replies: as long as no read has given up with   *)
(* its reply outstanding, the position between two reads is the end of the *)
(* stream, and within a read the only bytes beyond it are the reply to the *)
(* request in progress.                                                    *)
(***************************************************************************)
EXTENDS ModbusLink, TLAPS

-----------------------------------------------------------------------------
(* The inductive invariant *)

\* A call in progress reads at least one register.
ReadsSomething == pc # "idle" => req.count \in Counts

\* The client has not received more than the device has written.
Received == base + total <= sent /\ (pc # "recv" => total = 0)

\* The replies lie in the stream one after the other.
Before(r, s) == r.from + FrameLen(r) <= s.from

Framed ==
  /\ \A r \in replies : r.from + FrameLen(r) <= sent
  /\ \A r, s \in replies : r = s \/ Before(r, s) \/ Before(s, r)

\* No reply to the request in progress has been written yet.
Waiting ==
  /\ sent = base /\ total = 0
  /\ peer = "up" => owed \in {<<>>, <<req>>}

\* What lies beyond the read position is one reply, to the request in progress.
Replied ==
  /\ \E r \in replies :
       /\ r.from = base /\ sent = base + FrameLen(r)
       /\ r.tid = req.tid /\ r.addr = req.addr /\ r.count = req.count
  /\ peer = "up" => owed = <<>>

Quiet == sent = base /\ (peer = "up" => owed = <<>>)

InSync ==
  /\ pc = "recv" => Waiting \/ Replied
  /\ pc # "recv" /\ peer # "reset" => Quiet

IInv ==
  /\ TypeOK
  /\ ReadsSomething
  /\ Received
  /\ Framed
  /\ ~late => InSync
  /\ OnlyLateReplies

-----------------------------------------------------------------------------
(* Lemmas on the operators *)

\* The uint8_t byte count loses nothing for the ranges the callers read.
LEMMA RespLenExact == \A c \in Counts : RespLen(c) = 9 + 2 * c
<1>1. \A c \in Counts : (c * 2) % 256 = c * 2
  BY Z3 DEF Counts
<1> QED  BY <1>1 DEF RespLen, Counts

LEMMA HeadTail ==
  ASSUME NEW T, NEW s \in Seq(T), s # <<>>
  PROVE  Head(s) \in T /\ Tail(s) \in Seq(T)
OBVIOUS

\* A reply has a length; it is the expected one only if it carries data.
LEMMA FrameLenBounds ==
  ASSUME NEW r \in [tid : Word16, addr : Word16, count : Counts, ok : BOOLEAN,
                    from : Nat]
  PROVE  /\ FrameLen(r) \in Nat /\ FrameLen(r) >= 9
         /\ FrameLen(r) <= RespLen(r.count)
         /\ FrameLen(r) >= RespLen(r.count) => r.ok
         /\ r.ok => FrameLen(r) = RespLen(r.count)
BY RespLenExact DEF FrameLen, Counts

\* The reply written next, of the type the replies have.
LEMMA ReplyType ==
  ASSUME NEW q \in [tid : Word16, addr : Word16, count : Counts],
         NEW ok \in BOOLEAN, sent \in Nat
  PROVE  Reply(q, ok) \in [tid : Word16, addr : Word16, count : Counts,
                           ok : BOOLEAN, from : Nat]
BY DEF Reply

-----------------------------------------------------------------------------
(* Init and the steps *)

Outcome == [status : {"none", "ok", "fail"}, got : Frame]

LEMMA OutcomeTypes ==
  Garbled \in Frame /\ NoCall \in Outcome /\ Failed \in Outcome
<1>1. Garbled \in Frame
  BY DEF Garbled, Frame, Word16
<1> QED  BY <1>1 DEF NoCall, Failed, Outcome

\* The read position and the stream are numbers.
LEMMA Positions ==
  ASSUME IInv
  PROVE  sent \in Nat /\ base \in Nat /\ total \in Nat
BY DEF IInv, TypeOK

\* A fresh connection is in sync.
LEMMA NoConnectionIInv ==
  ASSUME NoConnection, pc' = "idle", ReadsSomething'
  PROVE  Received' /\ Framed' /\ (~late => InSync)' /\ OnlyLateReplies'
BY DEF NoConnection, Received, Framed, InSync, Quiet, OnlyLateReplies,
       AnswersItsRequest, NoCall

LEMMA InitIInv == Init => IInv
<1> SUFFICES ASSUME Init PROVE IInv
  OBVIOUS
<1>1. last \in Outcome
  BY OutcomeTypes DEF Init
<1>2. owed \in Seq([tid : Word16, addr : Word16, count : Counts])
  BY DEF Init
<1>3. req \in [tid : Word16, addr : Word16, count : Counts \cup {0}]
  BY DEF Init, Word16
<1>4. TypeOK
  <2>1. tid \in Word16 /\ dest \in Addresses \cup {AnyLocal}
    BY DEF Init, Word16
  <2>2. replies \subseteq [tid : Word16, addr : Word16, count : Counts,
                           ok : BOOLEAN, from : Nat]
    BY DEF Init
  <2> QED  BY <1>1, <1>2, <1>3, <2>1, <2>2 DEF Init, TypeOK, Outcome
<1>5. ReadsSomething /\ Received /\ Framed /\ InSync
  BY DEF Init, ReadsSomething, Received, Framed, InSync, Quiet
<1>6. OnlyLateReplies /\ ~late
  BY DEF Init, OnlyLateReplies, AnswersItsRequest, NoCall
<1> QED  BY <1>4, <1>5, <1>6 DEF IInv

LEMMA ConnectIInv ==
  ASSUME IInv, NEW h \in Hosts, Connect(h)
  PROVE  IInv'
<1>1. last' \in Outcome /\ owed' \in Seq([tid : Word16, addr : Word16, count : Counts])
  BY OutcomeTypes DEF Connect, NoConnection
<1>2. dest' \in Addresses \cup {AnyLocal}
  BY DEF Connect, Dialled, IInv, TypeOK
<1>3. TypeOK'
  BY <1>1, <1>2 DEF Connect, NoConnection, IInv, TypeOK, Outcome
<1>4. ReadsSomething' /\ NoConnection /\ pc' = "idle" /\ late' = FALSE
  BY DEF Connect, NoConnection, ReadsSomething
<1> QED  BY <1>3, <1>4, NoConnectionIInv DEF IInv

LEMMA DisconnectIInv ==
  ASSUME IInv, Disconnect
  PROVE  IInv'
<1>1. last' \in Outcome /\ owed' \in Seq([tid : Word16, addr : Word16, count : Counts])
  BY OutcomeTypes DEF Disconnect, NoConnection
<1>2. TypeOK'
  BY <1>1 DEF Disconnect, NoConnection, IInv, TypeOK, Outcome
<1>3. ReadsSomething' /\ NoConnection /\ pc' = "idle" /\ late' = FALSE
  BY DEF Disconnect, NoConnection, ReadsSomething
<1> QED  BY <1>2, <1>3, NoConnectionIInv DEF IInv

LEMMA StartReadIInv ==
  ASSUME IInv, NEW r \in Requests, StartRead(r)
  PROVE  IInv'
<1>1. r \in [addr : Word16, count : Counts]
  BY LinkAssumption DEF LinkAssumption
<1>2. req' \in [tid : Word16, addr : Word16, count : Counts] /\ tid' \in Word16
  <2>1. tid \in Word16
    BY DEF IInv, TypeOK
  <2>2. tid' \in Word16
    <3>1. tid' = IF tid = 65535 THEN 0 ELSE tid + 1
      BY DEF StartRead
    <3> QED  BY <2>1, <3>1 DEF Word16
  <2> QED  BY <1>1, <2>1, <2>2 DEF StartRead
<1>5. last' \in Outcome
  BY OutcomeTypes DEF StartRead
<1>6. TypeOK' /\ ReadsSomething'
  BY <1>2, <1>5 DEF StartRead, IInv, TypeOK, ReadsSomething, Outcome
<1>3. Received' /\ Framed' /\ (~late => InSync)'
  BY DEF StartRead, IInv, Received, Framed, Before, FrameLen, InSync, Quiet
<1>4. OnlyLateReplies'
  BY DEF StartRead, IInv, OnlyLateReplies, AnswersItsRequest, NoCall
<1> QED  BY <1>6, <1>3, <1>4 DEF IInv

LEMMA SendIInv ==
  ASSUME IInv, Send
  PROVE  IInv'
<1>1. req \in [tid : Word16, addr : Word16, count : Counts]
  BY DEF Send, IInv, TypeOK, ReadsSomething
<1>2. TypeOK' /\ ReadsSomething' /\ Received' /\ Framed'
  BY <1>1 DEF Send, IInv, TypeOK, ReadsSomething, Received, Framed, Before, FrameLen
<1>3. ASSUME ~late' PROVE InSync'
  <2>1. Quiet /\ total = 0
    BY <1>3 DEF Send, IInv, InSync, Received
  <2>2. owed = <<>> => owed' = <<req>>
    BY DEF Send
  <2>3. Waiting'
    BY <2>1, <2>2 DEF Send, Quiet, Waiting
  <2> QED  BY <2>3 DEF Send, InSync
<1>4. OnlyLateReplies'
  BY DEF Send, IInv, OnlyLateReplies, AnswersItsRequest, OwnReply
<1> QED  BY <1>2, <1>3, <1>4 DEF IInv

\* Whatever makes a call return -1 keeps the invariant if it leaves nothing
\* outstanding on a live connection, or is recorded as having done so.
LEMMA ReturnErrorIInv ==
  ASSUME IInv, ReturnError, pc # "idle", late' \in BOOLEAN,
         late => late',
         ~late' /\ peer # "reset" => sent = base + total /\ (peer = "up" => owed = <<>>)
  PROVE  IInv'
<1>5. last' \in Outcome
  BY OutcomeTypes DEF ReturnError
<1>1. TypeOK' /\ ReadsSomething'
  BY <1>5 DEF ReturnError, IInv, TypeOK, ReadsSomething, Outcome
<1>2. Received' /\ Framed'
  BY DEF ReturnError, IInv, TypeOK, Received, Framed, Before, FrameLen
<1>3. (~late => InSync)'
  BY DEF ReturnError, IInv, TypeOK, InSync, Quiet
<1>4. OnlyLateReplies'
  BY DEF ReturnError, OnlyLateReplies, AnswersItsRequest, Failed
<1> QED  BY <1>1, <1>2, <1>3, <1>4 DEF IInv

LEMMA SendFailsIInv ==
  ASSUME IInv, SendFails
  PROVE  IInv'
<1>1. ~late /\ peer # "reset" => sent = base + total /\ (peer = "up" => owed = <<>>)
  BY DEF SendFails, IInv, TypeOK, InSync, Quiet, Received
<1> QED
  BY <1>1, ReturnErrorIInv DEF SendFails, IInv, TypeOK

LEMMA TimeoutIInv ==
  ASSUME IInv, Timeout
  PROVE  IInv'
<1>1. ~late' /\ peer # "reset" => sent = base + total /\ (peer = "up" => owed = <<>>)
  <2>1. SUFFICES ASSUME ~late', peer # "reset"
                 PROVE  sent = base + total /\ (peer = "up" => owed = <<>>)
    OBVIOUS
  <2>2. ~ReplyOutstanding
    BY <2>1 DEF Timeout
  <2>3. ~(sent - (base + total) > 0) /\ (peer = "up" => owed = <<>>)
    BY <2>1, <2>2 DEF ReplyOutstanding, Outstanding
  <2> QED  BY <2>3, Positions DEF IInv, Received
<1>2. late' \in BOOLEAN /\ (late => late')
  BY DEF Timeout, IInv, TypeOK
<1> QED
  BY <1>1, <1>2, ReturnErrorIInv DEF Timeout

LEMMA ReceiveGoneIInv ==
  ASSUME IInv, ReceiveGone
  PROVE  IInv'
<1>1. ~late /\ peer # "reset" => sent = base + total /\ (peer = "up" => owed = <<>>)
  BY DEF ReceiveGone, Outstanding, IInv, TypeOK
<1> QED
  BY <1>1, ReturnErrorIInv DEF ReceiveGone, IInv, TypeOK

LEMMA ReceiveSomeIInv ==
  ASSUME IInv, NEW n \in 1..Outstanding, ReceiveSome(n)
  PROVE  IInv'
<1>1. n \in Nat /\ n >= 1 /\ base + total + n <= sent
  BY DEF Outstanding, IInv, TypeOK
<1>2. TypeOK' /\ ReadsSomething'
  BY <1>1 DEF ReceiveSome, IInv, TypeOK, ReadsSomething
<1>3. Received' /\ Framed'
  BY <1>1 DEF ReceiveSome, IInv, TypeOK, Received, Framed, Before, FrameLen
<1>4. ASSUME ~late' PROVE InSync'
  <2>1. Waiting \/ Replied
    BY <1>4 DEF ReceiveSome, IInv, InSync
  <2>2. Replied
    BY <2>1, <1>1 DEF Waiting, IInv, TypeOK
  <2>3. Replied'
    BY <2>2 DEF ReceiveSome, Replied, FrameLen
  <2> QED  BY <2>3 DEF ReceiveSome, InSync
<1>5. OnlyLateReplies'
  BY DEF ReceiveSome, IInv, OnlyLateReplies, AnswersItsRequest, OwnReply
<1> QED  BY <1>2, <1>3, <1>4, <1>5 DEF IInv

\* The two outcomes of a complete response.
LEMMA Outcomes ==
  ASSUME ReceiveRest
  PROVE  \/ /\ TRUE \in FunctionCodeOk
            /\ last'.status = "ok" /\ last'.got = Header
            /\ last' = [status |-> "ok", got |-> Header]
         \/ last' = Failed /\ last'.status = "fail"
<1>1. Failed.status = "fail"
  BY DEF Failed
<1>2. \/ TRUE \in Accepts /\ last' = [status |-> "ok", got |-> Header]
      \/ last' = Failed
  BY Zenon DEF ReceiveRest
<1>3. CASE TRUE \in Accepts /\ last' = [status |-> "ok", got |-> Header]
  <2>1. last'.status = "ok" /\ last'.got = Header
    BY <1>3
  <2>2. TRUE \in FunctionCodeOk
    BY <1>3, Zenon DEF Accepts
  <2> QED  BY <2>1, <2>2, <1>3
<1>4. CASE last' = Failed
  BY <1>1, <1>4
<1> QED  BY <1>2, <1>3, <1>4

\* On a connection in sync, a complete response is the reply to the request in
\* progress, and it ends the stream.
LEMMA WholeResponse ==
  ASSUME IInv, ~late, ReceiveRest
  PROVE  /\ Replied
         /\ sent = base + RespLen(req.count)
         /\ Header = [tid |-> req.tid, addr |-> req.addr, count |-> req.count,
                      ok |-> TRUE]
<1>1. req.count \in Counts /\ RespLen(req.count) = 9 + 2 * req.count
  BY RespLenExact DEF ReceiveRest, IInv, ReadsSomething
<1>2. Replied
  <2>1. Waiting \/ Replied
    BY DEF ReceiveRest, IInv, InSync
  <2>2. ~Waiting
    <3>1. RespLen(req.count) - total <= sent - (base + total)
      BY DEF ReceiveRest, Outstanding
    <3>2. Waiting => sent = base /\ total = 0
      BY DEF Waiting
    <3>3. RespLen(req.count) \in Nat /\ RespLen(req.count) > 0
      BY <1>1 DEF Counts
    <3> QED  BY <3>1, <3>2, <3>3, Positions
  <2> QED  BY <2>1, <2>2
<1>3. PICK r \in replies :
        /\ r.from = base /\ sent = base + FrameLen(r)
        /\ r.tid = req.tid /\ r.addr = req.addr /\ r.count = req.count
  BY <1>2 DEF Replied
<1>4. r \in [tid : Word16, addr : Word16, count : Counts, ok : BOOLEAN, from : Nat]
  BY DEF IInv, TypeOK
<1>5. FrameLen(r) >= RespLen(r.count)
  <2>1. FrameLen(r) \in Nat
    BY <1>4, FrameLenBounds
  <2>2. RespLen(req.count) - total <= sent - (base + total)
    BY DEF ReceiveRest, Outstanding
  <2> QED  BY <2>1, <2>2, <1>1, <1>3, Positions DEF Counts
<1>6. r.ok = TRUE /\ FrameLen(r) = RespLen(r.count)
  BY <1>4, <1>5, FrameLenBounds
<1>7. \A s \in replies : s.from = base => s = r
  <2> SUFFICES ASSUME NEW s \in replies, s.from = base PROVE s = r
    OBVIOUS
  <2>1. s \in [tid : Word16, addr : Word16, count : Counts, ok : BOOLEAN, from : Nat]
    BY DEF IInv, TypeOK
  <2>2. FrameLen(s) \in Nat /\ FrameLen(s) >= 9 /\ FrameLen(r) \in Nat /\ FrameLen(r) >= 9
    BY <2>1, <1>4, FrameLenBounds
  <2> QED  BY <1>3, <2>1, <2>2, <1>4 DEF IInv, Framed, Before
<1>8. (CHOOSE s \in replies : s.from = base) = r
  BY <1>3, <1>7
<1>9. Header = [tid |-> r.tid, addr |-> r.addr, count |-> r.count, ok |-> r.ok]
  BY <1>3, <1>8 DEF Header
<1> QED  BY <1>2, <1>3, <1>6, <1>9

LEMMA HeaderType ==
  ASSUME TypeOK
  PROVE  Header \in Frame
<1>1. CASE \E r \in replies : r.from = base
  <2> DEFINE h == CHOOSE s \in replies : s.from = base
  <2>1. h \in replies
    BY <1>1
  <2>2. h \in [tid : Word16, addr : Word16, count : Counts, ok : BOOLEAN, from : Nat]
    BY <2>1 DEF TypeOK
  <2>3. Header = [tid |-> h.tid, addr |-> h.addr, count |-> h.count, ok |-> h.ok]
    BY <1>1 DEF Header
  <2> HIDE DEF h
  <2> QED  BY <2>2, <2>3 DEF Frame
<1>2. CASE ~ \E r \in replies : r.from = base
  BY <1>2, OutcomeTypes DEF Header
<1> QED  BY <1>1, <1>2

LEMMA ReceiveRestIInv ==
  ASSUME IInv, ReceiveRest
  PROVE  IInv'
<1>1. req.count \in Counts /\ RespLen(req.count) = 9 + 2 * req.count
  BY RespLenExact DEF ReceiveRest, IInv, ReadsSomething
<1>2. last' \in Outcome
  <2>1. Header \in Frame
    BY HeaderType DEF IInv
  <2>2. [status |-> "ok", got |-> Header] \in Outcome
    BY <2>1 DEF Outcome
  <2> QED  BY <2>2, OutcomeTypes, Outcomes
<1>3. base' \in Nat /\ base' <= sent
  BY <1>1, Positions DEF ReceiveRest, Outstanding, Counts
<1>4. TypeOK' /\ ReadsSomething' /\ Received'
  BY <1>2, <1>3 DEF ReceiveRest, IInv, TypeOK, ReadsSomething, Received, Outcome
<1>5. Framed'
  BY DEF ReceiveRest, IInv, Framed, Before, FrameLen
<1>6. ASSUME ~late' PROVE InSync'
  <2>1. Replied /\ sent = base + RespLen(req.count)
    BY <1>6, WholeResponse DEF ReceiveRest
  <2> QED  BY <2>1 DEF ReceiveRest, Replied, InSync, Quiet
<1>7. ASSUME ~late', last'.status = "ok" PROVE OwnReply'
  <2>1. Header = [tid |-> req.tid, addr |-> req.addr, count |-> req.count, ok |-> TRUE]
    BY <1>7, WholeResponse DEF ReceiveRest
  <2>2. last'.got = Header
    BY <1>7, Outcomes
  <2> QED  BY <2>1, <2>2 DEF ReceiveRest, OwnReply
<1> QED  BY <1>4, <1>5, <1>6, <1>7 DEF IInv, OnlyLateReplies, AnswersItsRequest

LEMMA AnswerIInv ==
  ASSUME IInv, NEW ok \in BOOLEAN, Answer(ok)
  PROVE  IInv'
<1> DEFINE r == Reply(Head(owed), ok)
<1>1. Head(owed) \in [tid : Word16, addr : Word16, count : Counts]
      /\ Tail(owed) \in Seq([tid : Word16, addr : Word16, count : Counts])
  <2>1. owed \in Seq([tid : Word16, addr : Word16, count : Counts]) /\ owed # <<>>
    BY DEF Answer, IInv, TypeOK
  <2> QED  BY <2>1, HeadTail
<1>2. r \in [tid : Word16, addr : Word16, count : Counts, ok : BOOLEAN, from : Nat]
  BY <1>1, ReplyType DEF IInv, TypeOK
<1>3. FrameLen(r) \in Nat /\ FrameLen(r) >= 9 /\ r.from = sent
  BY <1>2, FrameLenBounds DEF Reply
<1>4. replies' = replies \cup {r} /\ sent' = sent + FrameLen(r) /\ owed' = Tail(owed)
      /\ UNCHANGED <<fd, host, dest, tid, pc, req, base, total, peer, last, late>>
  BY DEF Answer
<1>5. r.tid = Head(owed).tid /\ r.addr = Head(owed).addr /\ r.count = Head(owed).count
  BY DEF Reply
<1> HIDE DEF r
<1>6. TypeOK' /\ ReadsSomething' /\ Received'
  BY <1>1, <1>2, <1>3, <1>4 DEF IInv, TypeOK, ReadsSomething, Received
<1>7. Framed'
  <2>1. \A s \in replies : s.from + FrameLen(s) <= sent
    BY DEF IInv, Framed
  <2>2. \A s \in replies : Before(s, r)
    BY <2>1, <1>3 DEF Before
  <2>3. \A s \in replies : FrameLen(s) \in Nat /\ s.from \in Nat
    BY FrameLenBounds DEF IInv, TypeOK
  <2>4. \A s \in replies' : s.from + FrameLen(s) <= sent'
    BY <2>1, <2>3, <1>3, <1>4 DEF IInv, TypeOK
  <2>5. \A s, t \in replies' : s = t \/ Before(s, t) \/ Before(t, s)
    BY <2>2, <1>4 DEF IInv, Framed
  <2> QED  BY <2>4, <2>5 DEF Framed, Before, FrameLen
<1>8. ASSUME ~late' PROVE InSync'
  <2>1. pc = "recv" /\ Waiting /\ owed = <<req>>
    <3>1. owed # <<>> /\ peer = "up" /\ ~late
      BY <1>8, <1>4 DEF Answer
    <3> QED  BY <3>1 DEF IInv, InSync, Quiet, Waiting, Replied
  <2>2. Head(owed) = req /\ Tail(owed) = <<>>
    BY <2>1
  <2>3. r \in replies'
    BY <1>4
  <2>4. Replied'
    BY <2>1, <2>2, <2>3, <1>3, <1>4, <1>5 DEF Waiting, Replied, FrameLen
  <2> QED  BY <2>1, <2>4, <1>4 DEF InSync
<1>9. OnlyLateReplies'
  BY <1>4 DEF IInv, OnlyLateReplies, AnswersItsRequest, OwnReply
<1> QED  BY <1>6, <1>7, <1>8, <1>9 DEF IInv

LEMMA IgnoreIInv ==
  ASSUME IInv, Ignore
  PROVE  IInv'
<1>1. Tail(owed) \in Seq([tid : Word16, addr : Word16, count : Counts])
  BY DEF Ignore, IInv, TypeOK
<1>2. TypeOK' /\ ReadsSomething' /\ Received' /\ Framed'
  BY <1>1 DEF Ignore, IInv, TypeOK, ReadsSomething, Received, Framed, Before, FrameLen
<1>3. ASSUME ~late' PROVE InSync'
  <2>1. pc = "recv" /\ Waiting /\ owed = <<req>>
    BY <1>3 DEF Ignore, IInv, InSync, Quiet, Waiting, Replied
  <2>2. Tail(owed) = <<>>
    BY <2>1
  <2>3. Waiting'
    BY <2>1, <2>2 DEF Ignore, Waiting
  <2> QED  BY <2>1, <2>3 DEF Ignore, InSync
<1>4. OnlyLateReplies'
  BY DEF Ignore, IInv, OnlyLateReplies, AnswersItsRequest, OwnReply
<1> QED  BY <1>2, <1>3, <1>4 DEF IInv

LEMMA PeerGoneIInv ==
  ASSUME IInv, NEW p \in {"fin", "reset"}, PeerGone(p)
  PROVE  IInv'
<1>1. TypeOK' /\ ReadsSomething' /\ Received' /\ Framed'
  BY DEF PeerGone, IInv, TypeOK, ReadsSomething, Received, Framed, Before, FrameLen
<1>2. (~late => InSync)'
  BY DEF PeerGone, IInv, InSync, Quiet, Waiting, Replied, FrameLen
<1>3. OnlyLateReplies'
  BY DEF PeerGone, IInv, OnlyLateReplies, AnswersItsRequest, OwnReply
<1> QED  BY <1>1, <1>2, <1>3 DEF IInv

LEMMA StutterIInv ==
  ASSUME IInv, UNCHANGED vars
  PROVE  IInv'
BY DEF vars, net, IInv, TypeOK, ReadsSomething, Received, Framed, Before, FrameLen,
       InSync, Quiet, Waiting, Replied, OnlyLateReplies, AnswersItsRequest, OwnReply

LEMMA NextIInv == IInv /\ [Next]_vars => IInv'
<1> SUFFICES ASSUME IInv, [Next]_vars PROVE IInv'
  OBVIOUS
<1>1. ASSUME NEW h \in Hosts, Connect(h) PROVE IInv'
  BY <1>1, ConnectIInv
<1>2. CASE Disconnect
  BY <1>2, DisconnectIInv
<1>3. ASSUME NEW r \in Requests, StartRead(r) PROVE IInv'
  BY <1>3, StartReadIInv
<1>4. CASE Send
  BY <1>4, SendIInv
<1>5. CASE SendFails
  BY <1>5, SendFailsIInv
<1>6. ASSUME NEW n \in 1..Outstanding, ReceiveSome(n) PROVE IInv'
  BY <1>6, ReceiveSomeIInv
<1>7. CASE ReceiveRest
  BY <1>7, ReceiveRestIInv
<1>8. CASE Timeout
  BY <1>8, TimeoutIInv
<1>9. CASE ReceiveGone
  BY <1>9, ReceiveGoneIInv
<1>10. ASSUME NEW ok \in BOOLEAN, Answer(ok) PROVE IInv'
  BY <1>10, AnswerIInv
<1>11. CASE Ignore
  BY <1>11, IgnoreIInv
<1>12. ASSUME NEW p \in {"fin", "reset"}, PeerGone(p) PROVE IInv'
  BY <1>12, PeerGoneIInv
<1>13. CASE UNCHANGED vars
  BY <1>13, StutterIInv
<1> QED
  BY <1>1, <1>2, <1>3, <1>4, <1>5, <1>6, <1>7, <1>8, <1>9, <1>10, <1>11, <1>12, <1>13
  DEF Next, Client, Receive

-----------------------------------------------------------------------------
(* The theorems *)

\* The inductive invariant holds in every reachable state.
THEOREM Invariance == Spec => []IInv
BY InitIInv, NextIInv, PTL DEF Spec

\* Every variable of the client and of the connection keeps its type.
THEOREM TypeCorrect == Spec => []TypeOK
<1>1. IInv => TypeOK
  BY DEF IInv
<1> QED  BY <1>1, Invariance, PTL

\* Only a reply that outlived its own read can be taken for another's; see
\* OnlyLateReplies.
THEOREM ForeignReplyIsLate == Spec => []OnlyLateReplies
<1>1. IInv => OnlyLateReplies
  BY DEF IInv
<1> QED  BY <1>1, Invariance, PTL

-----------------------------------------------------------------------------
(* Exception replies *)

\* If the response buffer begins with a whole reply, the byte that is taken for
\* the function code is that reply's, and it is 0x03 only in a data reply.
LEMMA FunctionCodeOfHeader ==
  ASSUME IInv, Header # Garbled, TRUE \in FunctionCodeOk
  PROVE  Header.ok = TRUE
<1>1. \E r \in replies : r.from = base
  BY DEF Header
<1> DEFINE h == CHOOSE s \in replies : s.from = base
<1>2. h \in replies /\ h.from = base
  BY <1>1
<1>3. Header = [tid |-> h.tid, addr |-> h.addr, count |-> h.count, ok |-> h.ok]
  BY <1>1 DEF Header
<1> HIDE DEF h
<1>4. PICK s \in replies : /\ base + 8 - s.from \in 1..FrameLen(s)
                           /\ TRUE \in MayBe3(s, base + 8 - s.from)
  BY DEF FunctionCodeOk
<1>5. /\ s \in [tid : Word16, addr : Word16, count : Counts, ok : BOOLEAN, from : Nat]
      /\ h \in [tid : Word16, addr : Word16, count : Counts, ok : BOOLEAN, from : Nat]
  BY <1>2 DEF IInv, TypeOK
<1>6. s = h
  <2>1. FrameLen(s) \in Nat /\ FrameLen(h) \in Nat /\ FrameLen(h) >= 9
    BY <1>5, FrameLenBounds
  <2>2. s.from < base + 8 /\ base + 8 <= s.from + FrameLen(s)
    BY <1>4, <1>5, <2>1, Positions
  <2>3. s = h \/ Before(s, h) \/ Before(h, s)
    BY <1>2 DEF IInv, Framed
  <2>4. ~Before(s, h) /\ ~Before(h, s)
    BY <1>2, <1>5, <2>1, <2>2, Positions DEF Before
  <2> QED  BY <2>3, <2>4
<1>7. base + 8 - s.from = 8
  BY <1>2, <1>6, Positions
<1>8. MayBe3(h, 8) = {h.ok}
  BY DEF MayBe3
<1> QED  BY <1>3, <1>4, <1>6, <1>7, <1>8

LEMMA NextNoException ==
  ASSUME IInv, NoExceptionAsData, [Next]_vars
  PROVE  NoExceptionAsData'
<1>1. ASSUME last' \in {last, NoCall, Failed} PROVE NoExceptionAsData'
  BY <1>1 DEF NoExceptionAsData, NoCall, Failed
<1>2. CASE ReceiveRest
  <2>1. SUFFICES ASSUME last'.status = "ok", last'.got # Garbled PROVE last'.got.ok
    BY DEF NoExceptionAsData
  <2>2. last'.got = Header /\ TRUE \in FunctionCodeOk
    BY <1>2, <2>1, Outcomes
  <2> QED  BY <2>1, <2>2, FunctionCodeOfHeader
<1>3. CASE ~ReceiveRest
  <2>1. last' \in {last, NoCall, Failed}
    BY <1>3 DEF Next, vars, net, Connect, Disconnect, NoConnection, StartRead, Client,
         Send, SendFails, Receive, ReceiveSome, Timeout, ReceiveGone, ReturnError,
         Answer, Ignore, PeerGone
  <2> QED  BY <1>1, <2>1
<1> QED  BY <1>2, <1>3

\* Whatever is late, lost or out of step, a response that begins with an exception
\* reply is an error; see NoExceptionAsData.
THEOREM ExceptionsAreErrors == Spec => []NoExceptionAsData
<1>1. Init => NoExceptionAsData
  BY DEF Init, NoExceptionAsData, NoCall
<1>2. IInv /\ NoExceptionAsData /\ [Next]_vars => NoExceptionAsData'
  BY NextNoException
<1> QED  BY <1>1, <1>2, Invariance, PTL DEF Spec

-----------------------------------------------------------------------------
(* Refinement *)

LEMMA RefinesInit == Init => Register!Init
BY DEF Init, Register!Init, Register!Nothing, Asked, Got, NoCall

LEMMA RefinesNext ==
  ASSUME IInv, IInv', [Next]_vars
  PROVE  [Register!Next]_(Register!vars)
<1> USE DEF Register!vars, Asked, Got
<1>0. late \in BOOLEAN /\ late' \in BOOLEAN
  BY DEF IInv, TypeOK
<1>1. ASSUME NEW r \in Requests, StartRead(r) PROVE Register!Next
  <2>1. r = [addr |-> r.addr, count |-> r.count]
    BY LinkAssumption DEF LinkAssumption
  <2>2. Asked = Register!Nothing /\ Asked' = r /\ Got' = Register!Nothing
    BY <1>1, <2>1 DEF StartRead, Register!Nothing, NoCall
  <2>3. Register!Ask(r)
    BY <1>1, <2>2 DEF Register!Ask, StartRead
  <2> QED  BY <2>3 DEF Register!Next
<1>2. ASSUME ReturnError, pc # "idle", late' \in {late, TRUE} PROVE Register!Next
  <2>1. Asked # Register!Nothing /\ Asked' = Register!Nothing /\ Got' = Register!Error
    BY <1>2 DEF ReturnError, Failed, Register!Nothing, Register!Error
  <2>2. (~late') \in {~late, FALSE}
    BY <1>0, <1>2
  <2>3. Register!Fail
    BY <2>1, <2>2 DEF Register!Fail
  <2> QED  BY <2>3 DEF Register!Next
<1>3. CASE SendFails \/ Timeout \/ ReceiveGone
  <2>1. ReturnError /\ pc # "idle"
    BY <1>3 DEF SendFails, Timeout, ReceiveGone
  <2>2. late' = late \/ late' = (late \/ ReplyOutstanding)
    BY <1>3 DEF SendFails, Timeout, ReceiveGone
  <2>3. late' \in {late, TRUE}
    BY <1>0, <2>2
  <2> QED  BY <1>2, <2>1, <2>3
<1>4. CASE ReceiveRest
  <2>1. pc = "recv" /\ pc' = "idle" /\ UNCHANGED <<req, late>>
    BY <1>4 DEF ReceiveRest
  <2>2. Asked # Register!Nothing /\ Asked' = Register!Nothing
    BY <2>1 DEF Register!Nothing
  <2>3. CASE last'.status = "ok" /\ ~late
    <3>1. OwnReply'
      BY <2>1, <2>3 DEF IInv, OnlyLateReplies, AnswersItsRequest
    <3>2. Got' = Register!Data(Asked)
      BY <2>1, <2>3, <3>1 DEF OwnReply, Register!Data
    <3>3. Register!Give
      BY <2>1, <2>2, <3>2 DEF Register!Give
    <3> QED  BY <3>3 DEF Register!Next
  <2>4. CASE last'.status = "ok" /\ late
    <3>1. Got'.status = "data"
      BY <2>4
    <3>2. Register!GiveSome
      BY <2>1, <2>2, <2>4, <3>1 DEF Register!GiveSome
    <3> QED  BY <3>2 DEF Register!Next
  <2>5. CASE last' = Failed
    <3>1. Got' = Register!Error
      BY <2>5 DEF Failed, Register!Error
    <3>2. Register!Fail
      BY <2>1, <2>2, <3>1 DEF Register!Fail
    <3> QED  BY <3>2 DEF Register!Next
  <2> QED  BY <1>4, <2>3, <2>4, <2>5, Outcomes
<1>5. ASSUME pc = "idle", pc' = "idle", last' = NoCall, ~late' PROVE Register!Next
  <2>1. Asked = Register!Nothing /\ Asked' = Asked /\ Got' = Register!Nothing
    BY <1>5 DEF NoCall, Register!Nothing
  <2>2. Register!Renew
    BY <1>5, <2>1 DEF Register!Renew
  <2> QED  BY <2>2 DEF Register!Next
<1>6. CASE Disconnect \/ \E h \in Hosts : Connect(h)
  BY <1>5, <1>6 DEF Disconnect, Connect, NoConnection
<1>7. ASSUME UNCHANGED <<req, last, late>>, (pc' = "idle") = (pc = "idle")
      PROVE  UNCHANGED Register!vars
  BY <1>7
<1>8. CASE Send \/ Ignore \/ \E n \in 1..Outstanding : ReceiveSome(n)
  BY <1>7, <1>8 DEF Send, Ignore, ReceiveSome
<1>9. CASE (\E ok \in BOOLEAN : Answer(ok)) \/ \E p \in {"fin", "reset"} : PeerGone(p)
  BY <1>7, <1>9 DEF Answer, PeerGone
<1>10. CASE UNCHANGED vars
  BY <1>7, <1>10 DEF vars, net
<1> QED
  BY <1>1, <1>3, <1>4, <1>6, <1>8, <1>9, <1>10 DEF Next, Client, Receive

\* The client implements the abstract register read, with whatever is late, lost
\* or closed: see ImplementsRegisterRead.
THEOREM Refinement == Spec => ImplementsRegisterRead
<1>1. IInv /\ IInv' /\ [Next]_vars => [Register!Next]_(Register!vars)
  BY RefinesNext
<1> QED
  BY <1>1, RefinesInit, Invariance, PTL DEF Spec, ImplementsRegisterRead, Register!Spec
===============================================================================
