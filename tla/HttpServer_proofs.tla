--------------------------- MODULE HttpServer_proofs ---------------------------
(***************************************************************************)
(* Proofs about HttpServer, for any number of clients, snapshots, starts   *)
(* and any backlog.  The invariant ties the two program counters together  *)
(* (Places), says which clients are open and where they wait (Queue), and  *)
(* what the response in progress and those received were made from         *)
(* (Answers).                                                              *)
(***************************************************************************)
EXTENDS HttpServer, TLAPS

Handling == thread \in {"read", "reply", "write"}

\* What is up while the main loop stands where.
Places ==
  /\ main = "down" <=> thread = "none"
  /\ fdOpen <=> main \in {"up", "fetching", "closing"}
  /\ running <=> main \in {"up", "fetching"}
  /\ cur \in Clients <=> Handling
  /\ latest = published

Waiting(c) == \E i \in DOMAIN backlog : backlog[i] = c

\* An open client is being handled or waits, at one place of one queue, and a queue
\* has a listening socket.
Queue ==
  /\ \A i, j \in DOMAIN backlog : backlog[i] = backlog[j] => i = j
  /\ \A i \in DOMAIN backlog : backlog[i] # cur /\ phase[backlog[i]] \in {"open", "left"}
  /\ cur \in Clients => phase[cur] \in {"open", "left"}
  /\ \A c \in Clients : phase[c] = "open" => c = cur \/ Waiting(c)
  /\ backlog # <<>> => Listening

Fresh(c, r) == r.what = "data" => asof[c] <= r.no /\ r.no <= published

\* Of a request that has not arrived up to its path, nothing is known.
Unheard(c) == asked[c] = "none" <=> arrived[c] \in {"nothing", "part"}

\* The response r is one to the request of c.
Matches(c, r) ==
  /\ r.what \in Whole
  /\ r.what \in {"data", "health"} => asked[c] = r.what
  /\ r.what = "notfound" => asked[c] = "other" \/ arrived[c] # "whole"

\* What read() took is what the client handled has sent, or a first segment of it, and
\* the response in progress is to that.
InProgress ==
  /\ thread = "reply" =>
       /\ arrived[cur] # "nothing"
       /\ \/ request = "cut" /\ arrived[cur] # "whole"
          \/ request = asked[cur] /\ request \in Paths
  /\ thread = "write" =>
       Fresh(cur, out) /\ Matches(cur, out) /\ arrived[cur] # "nothing"
  /\ thread = "write" /\ written = 2 => resp[cur] = out

\* A client that has a whole response got it for its request, and is closed after it.
Received(c) ==
  /\ asof[c] <= published
  /\ Unheard(c)
  /\ phase[c] = "away" => resp[c] = NoReply
  /\ Fresh(c, resp[c])
  /\ resp[c].what \in Whole =>
       /\ Matches(c, resp[c])
       /\ phase[c] # "open" \/ (c = cur /\ thread = "write")

Answers == InProgress /\ \A c \in Clients : Received(c)

IInv == TypeOK /\ Places /\ Queue /\ Answers

-----------------------------------------------------------------------------
(* Lemmas *)

LEMMA PathType == \A a : Path(a) \in Whole
BY DEF Path, Whole

LEMMA Dropped ==
  ASSUME NEW q, DropQueue(q), phase \in [Clients -> {"away", "open", "left", "closed"}]
  PROVE  /\ backlog' = <<>>
         /\ phase' \in [Clients -> {"away", "open", "left", "closed"}]
         /\ \A c \in Clients :
              /\ phase'[c] = phase[c] \/ (phase[c] = "open" /\ phase'[c] = "closed")
              /\ (\E i \in DOMAIN q : q[i] = c) => phase'[c] # "open"
              /\ ~(\E i \in DOMAIN q : q[i] = c) => phase'[c] = phase[c]
<1> DEFINE In(c) == \E i \in DOMAIN q : q[i] = c
           Kinds == {"away", "open", "left", "closed"}
<1>1. /\ backlog' = <<>>
      /\ phase' = [c \in Clients |-> IF In(c) /\ phase[c] = "open" THEN "closed" ELSE phase[c]]
  BY DEF DropQueue
<1> HIDE DEF In
<1>2. phase' \in [Clients -> Kinds]
  BY <1>1
<1>3. ASSUME NEW c \in Clients
      PROVE  /\ phase'[c] = phase[c] \/ (phase[c] = "open" /\ phase'[c] = "closed")
             /\ In(c) => phase'[c] # "open"
             /\ ~In(c) => phase'[c] = phase[c]
  <2>1. phase'[c] = IF In(c) /\ phase[c] = "open" THEN "closed" ELSE phase[c]
    BY <1>1, <1>3
  <2> QED  BY <2>1
<1> QED  BY <1>1, <1>2, <1>3 DEF In

LEMMA HeadTail ==
  ASSUME NEW q \in Seq(Clients), q # <<>>
  PROVE  /\ Head(q) = q[1] /\ 1 \in DOMAIN q /\ Head(q) \in Clients
         /\ Tail(q) \in Seq(Clients)
         /\ \A i \in DOMAIN Tail(q) : i + 1 \in DOMAIN q /\ Tail(q)[i] = q[i + 1] /\ i + 1 # 1
         /\ \A i \in DOMAIN q : i # 1 => i - 1 \in DOMAIN Tail(q) /\ Tail(q)[i - 1] = q[i]
         /\ DOMAIN q \subseteq Int /\ DOMAIN Tail(q) \subseteq Int
<1>1. /\ Len(q) \in Nat \ {0} /\ DOMAIN q = 1..Len(q) /\ Head(q) = q[1]
      /\ \A i \in 1..Len(q) : q[i] \in Clients
  OBVIOUS
<1>2. /\ Tail(q) \in Seq(Clients) /\ DOMAIN Tail(q) = 1..(Len(q) - 1)
      /\ \A i \in 1..(Len(q) - 1) : Tail(q)[i] = q[i + 1]
  OBVIOUS
<1>3. \A i \in 1..(Len(q) - 1) : i + 1 \in 1..Len(q) /\ i + 1 # 1
  BY <1>1
<1>4. \A i \in 1..Len(q) : i # 1 => i - 1 \in 1..(Len(q) - 1) /\ (i - 1) + 1 = i
  BY <1>1
<1>5. 1 \in 1..Len(q)
  BY <1>1
<1> QED  BY <1>1, <1>2, <1>3, <1>4, <1>5

LEMMA Appended ==
  ASSUME NEW q \in Seq(Clients), NEW c \in Clients
  PROVE  /\ Append(q, c) \in Seq(Clients) /\ Append(q, c) # <<>>
         /\ Len(q) + 1 \in DOMAIN Append(q, c) /\ Append(q, c)[Len(q) + 1] = c
         /\ \A i \in DOMAIN q : i \in DOMAIN Append(q, c) /\ Append(q, c)[i] = q[i]
         /\ \A i \in DOMAIN Append(q, c) : i = Len(q) + 1 \/ i \in DOMAIN q
OBVIOUS

LEMMA InitIInv == Init => IInv
<1> SUFFICES ASSUME Init PROVE IInv
  OBVIOUS
<1>1. TypeOK
  <2>1. out \in [what : {"none", "data", "health", "notfound"}, no : Nat]
    BY DEF Init, NoReply
  <2>2. resp \in [Clients -> [what : {"none", "cut", "data", "health", "notfound"}, no : Nat]]
    BY DEF Init, NoReply
  <2>3. /\ phase \in [Clients -> {"away", "open", "left", "closed"}]
        /\ asked \in [Clients -> Paths \cup {"none"}]
        /\ arrived \in [Clients -> {"nothing", "part", "rest", "whole"}]
        /\ asof \in [Clients -> Nat]
    BY DEF Init
  <2>4. written \in 0..2 /\ backlog \in Seq(Clients)
    BY DEF Init
  <2> QED  BY <2>1, <2>2, <2>3, <2>4 DEF Init, TypeOK
<1>2. Places /\ Queue
  BY ServerAssumption DEF Init, Places, Queue, Handling, Waiting
<1>3. Answers
  BY DEF Init, Answers, InProgress, Received, Unheard, Fresh, NoReply, Whole
<1> QED  BY <1>1, <1>2, <1>3 DEF IInv

-----------------------------------------------------------------------------
(* Types *)

LEMMA LeaveTypes ==
  ASSUME TypeOK, LeaveAccept
  PROVE  /\ Head(backlog) \in Clients /\ backlog' \in Seq(Clients)
         /\ phase' \in [Clients -> {"away", "open", "left", "closed"}]
<1>1. Head(backlog) \in Clients /\ Tail(backlog) \in Seq(Clients)
  BY HeadTail DEF TypeOK, LeaveAccept
<1>2. CASE fdOpen
  BY <1>1, <1>2 DEF LeaveAccept, TypeOK
<1>3. CASE ~fdOpen
  <2>1. DropQueue(Tail(backlog))
    BY <1>3 DEF LeaveAccept
  <2>2. <<>> \in Seq(Clients) /\ phase \in [Clients -> {"away", "open", "left", "closed"}]
    BY DEF TypeOK
  <2>3. backlog' = <<>> /\ phase' \in [Clients -> {"away", "open", "left", "closed"}]
    BY <2>1, <2>2, Dropped
  <2> QED  BY <1>1, <2>2, <2>3
<1> QED  BY <1>2, <1>3

LEMMA CloseTypes == ASSUME TypeOK, CloseClient, UNCHANGED resp PROVE TypeOK'
<1>1. phase' \in [Clients -> {"away", "open", "left", "closed"}]
  BY DEF TypeOK, CloseClient
<1>2. NoReply \in [what : {"none", "data", "health", "notfound"}, no : Nat]
  BY DEF NoReply
<1> QED  BY <1>1, <1>2 DEF TypeOK, CloseClient, mainVars, sharedVars

LEMMA NextTypes == ASSUME TypeOK, Places, [Next]_vars PROVE TypeOK'
<1> USE DEF mainVars, sharedVars, threadVars, clientVars
<1>1. CASE UNCHANGED vars
  BY <1>1 DEF TypeOK, vars
<1>2. CASE Start \/ BeginFetch \/ Publish \/ Quit
  <2>1. CASE Start
    BY <2>1 DEF TypeOK, Start
  <2>2. CASE BeginFetch \/ Quit
    BY <2>2 DEF TypeOK, BeginFetch, Quit
  <2>3. CASE Publish
    BY <2>3 DEF TypeOK, Publish
  <2> QED  BY <1>2, <2>1, <2>2, <2>3
<1>3. CASE CloseFd
  <2>1. backlog' \in Seq(Clients) /\ phase' \in [Clients -> {"away", "open", "left", "closed"}]
    <3>1. CASE thread = "accept"
      BY <1>3, <3>1 DEF CloseFd, TypeOK
    <3>2. CASE thread # "accept"
      <4>1. DropQueue(backlog) /\ <<>> \in Seq(Clients)
        BY <1>3, <3>2 DEF CloseFd
      <4> QED  BY <4>1, Dropped DEF TypeOK
    <3> QED  BY <3>1, <3>2
  <2> QED  BY <1>3, <2>1 DEF TypeOK, CloseFd
<1>4. CASE ClearFd \/ Join
  BY <1>4 DEF TypeOK, ClearFd, Join
<1>5. CASE Test \/ Load \/ Call \/ Failed \/ Read
  <2>1. CASE Test \/ Load \/ Call \/ Failed
    BY <2>1 DEF TypeOK, Test, Load, Call, Failed
  <2>2. CASE Read
    <3>1. asked[cur] \in Paths \cup {"none"}
      BY <2>2 DEF TypeOK, Places, Handling, Read
    <3> QED  BY <2>2, <3>1 DEF TypeOK, Read
  <2> QED  BY <1>5, <2>1, <2>2
<1>6. CASE Accept
  <2>1. /\ cur' \in Clients /\ backlog' \in Seq(Clients)
        /\ phase' \in [Clients -> {"away", "open", "left", "closed"}]
    BY <1>6, LeaveTypes DEF Accept
  <2>2. /\ UNCHANGED <<mainVars, sharedVars, arg, request, out, written, asked, arrived, asof, resp>>
        /\ thread' = "read"
    BY <1>6 DEF Accept, LeaveAccept
  <2> QED  BY <2>1, <2>2 DEF TypeOK
<1>7. CASE AcceptAborted
  <2>1. /\ backlog' \in Seq(Clients)
        /\ phase' \in [Clients -> {"away", "open", "left", "closed"}]
    BY <1>7, LeaveTypes DEF AcceptAborted
  <2>2. /\ UNCHANGED <<mainVars, sharedVars, arg, request, out, written, asked, arrived, asof, resp>>
        /\ thread' = "failed" /\ cur' = cur
    BY <1>7 DEF AcceptAborted, LeaveAccept
  <2> QED  BY <2>1, <2>2 DEF TypeOK
<1>8. CASE ReadNothing \/ EndWrite
  BY <1>8, CloseTypes DEF ReadNothing, EndWrite
<1>9. CASE Reply
  <2>1. Path(request) \in Whole /\ latest \in Nat
    BY PathType DEF TypeOK
  <2>2. out' \in [what : {"none", "data", "health", "notfound"}, no : Nat]
    BY <1>9, <2>1 DEF Reply, Whole
  <2> QED  BY <1>9, <2>2 DEF TypeOK, Reply
<1>10. CASE Write
  <2>1. written' \in 0..2
    BY <1>10 DEF Write, TypeOK
  <2>2. /\ out \in [what : {"none", "cut", "data", "health", "notfound"}, no : Nat]
        /\ [NoReply EXCEPT !.what = "cut"]
             \in [what : {"none", "cut", "data", "health", "notfound"}, no : Nat]
    BY DEF TypeOK, NoReply
  <2>3. resp' \in [Clients -> [what : {"none", "cut", "data", "health", "notfound"}, no : Nat]]
    BY <1>10, <2>2 DEF Write, TypeOK
  <2> QED  BY <1>10, <2>1, <2>3 DEF TypeOK, Write
<1>11. ASSUME NEW c \in Clients, ClientConnects(c) PROVE TypeOK'
  <2>1. backlog' \in Seq(Clients)
    BY <1>11 DEF ClientConnects, TypeOK
  <2> QED  BY <1>11, <2>1 DEF TypeOK, ClientConnects
<1>12. ASSUME NEW c \in Clients, ClientLeaves(c) PROVE TypeOK'
  BY <1>12 DEF TypeOK, ClientLeaves
<1>13. ASSUME NEW c \in Clients, PartArrives(c) PROVE TypeOK'
  BY <1>13 DEF TypeOK, PartArrives
<1>14. ASSUME NEW c \in Clients, NEW path \in Paths, RequestArrives(c, path)
       PROVE  TypeOK'
  BY <1>14 DEF TypeOK, RequestArrives
<1> QED  BY <1>1, <1>2, <1>3, <1>4, <1>5, <1>6, <1>7, <1>8, <1>9, <1>10, <1>11, <1>12, <1>13,
            <1>14
         DEF Next, Stop, Serve

-----------------------------------------------------------------------------
(* The two threads *)

LEMMA PlacesNext == ASSUME IInv, [Next]_vars PROVE Places'
<1> USE DEF mainVars, sharedVars, threadVars, clientVars
<1>1. TypeOK /\ Places /\ Queue /\ NoClient \notin Clients
  BY ServerAssumption DEF IInv
<1>2. CASE UNCHANGED vars
  BY <1>1, <1>2 DEF Places, Handling, vars
<1>3. CASE Start
  BY <1>1, <1>3 DEF Places, Handling, Start
<1>4. CASE BeginFetch \/ Publish \/ Quit
  BY <1>1, <1>4 DEF Places, Handling, BeginFetch, Publish, Quit
<1>5. CASE CloseFd \/ ClearFd \/ Join
  BY <1>1, <1>5 DEF Places, Handling, CloseFd, ClearFd, Join
<1>6. CASE Test \/ Load \/ Call \/ Failed \/ Read \/ Reply \/ Write
  BY <1>1, <1>6 DEF Places, Handling, Test, Load, Call, Failed, Read, Reply, Write
<1>7. CASE Accept
  BY <1>1, <1>7, LeaveTypes DEF Places, Handling, Accept, LeaveAccept
<1>8. CASE AcceptAborted
  BY <1>1, <1>8 DEF Places, Handling, AcceptAborted, LeaveAccept
<1>9. CASE ReadNothing \/ EndWrite
  BY <1>1, <1>9 DEF Places, Handling, ReadNothing, EndWrite, CloseClient
<1>10. CASE \E c \in Clients : ClientConnects(c) \/ PartArrives(c) \/ ClientLeaves(c)
  BY <1>1, <1>10 DEF Places, Handling, ClientConnects, PartArrives, ClientLeaves
<1>11. CASE \E c \in Clients, path \in Paths : RequestArrives(c, path)
  BY <1>1, <1>11 DEF Places, Handling, RequestArrives
<1> QED  BY <1>2, <1>3, <1>4, <1>5, <1>6, <1>7, <1>8, <1>9, <1>10, <1>11
         DEF Next, Stop, Serve

-----------------------------------------------------------------------------
(* The queue *)

LEMMA QueueKept ==
  ASSUME Queue, UNCHANGED <<backlog, phase, cur>>, Listening => Listening'
  PROVE  Queue'
BY DEF Queue, Waiting

LEMMA LeaveQueue ==
  ASSUME IInv, LeaveAccept
  PROVE  /\ \A i, j \in DOMAIN backlog' : backlog'[i] = backlog'[j] => i = j
         /\ \A i \in DOMAIN backlog' :
              backlog'[i] # Head(backlog) /\ phase'[backlog'[i]] \in {"open", "left"}
         /\ Head(backlog) \in Clients /\ phase'[Head(backlog)] = phase[Head(backlog)]
         /\ phase[Head(backlog)] \in {"open", "left"}
         /\ \A c \in Clients : phase'[c] = "open" =>
              c = Head(backlog) \/ \E i \in DOMAIN backlog' : backlog'[i] = c
         /\ backlog' # <<>> => fdOpen
<1> DEFINE h == Head(backlog)
           t == Tail(backlog)
<1>1. backlog \in Seq(Clients) /\ backlog # <<>> /\ thread = "accept" /\ cur \notin Clients
  BY DEF IInv, TypeOK, Places, Handling, LeaveAccept
<1>2. /\ \A i, j \in DOMAIN t : t[i] = t[j] => i = j
      /\ \A i \in DOMAIN t : t[i] # h /\ phase[t[i]] \in {"open", "left"}
      /\ h \in Clients /\ phase[h] \in {"open", "left"}
  <2>1. ASSUME NEW i \in DOMAIN t, NEW j \in DOMAIN t, t[i] = t[j] PROVE i = j
    <3>1. i + 1 = j + 1 /\ i \in Int /\ j \in Int
      BY <1>1, <2>1, HeadTail DEF IInv, Queue
    <3> QED  BY <3>1
  <2>2. ASSUME NEW i \in DOMAIN t PROVE t[i] # h /\ phase[t[i]] \in {"open", "left"}
    BY <1>1, HeadTail DEF IInv, Queue
  <2> QED  BY <1>1, <2>1, <2>2, HeadTail DEF IInv, Queue
<1>3. \A c \in Clients : phase[c] = "open" => c = h \/ \E i \in DOMAIN t : t[i] = c
  <2>1. ASSUME NEW c \in Clients, phase[c] = "open", c # h PROVE \E i \in DOMAIN t : t[i] = c
    <3>1. PICK i \in DOMAIN backlog : backlog[i] = c
      BY <1>1, <2>1 DEF IInv, Queue, Waiting
    <3>2. i # 1
      BY <1>1, <2>1, <3>1, HeadTail
    <3> QED  BY <1>1, <3>1, <3>2, HeadTail
  <2> QED  BY <2>1
<1> HIDE DEF h, t
<1>4. CASE fdOpen
  <2>1. backlog' = t /\ phase' = phase
    BY <1>4 DEF LeaveAccept, t
  <2> QED  BY <1>2, <1>3, <1>4, <2>1 DEF h
<1>5. CASE ~fdOpen
  <2>1. DropQueue(t)
    BY <1>5 DEF LeaveAccept, t
  <2>2. phase \in [Clients -> {"away", "open", "left", "closed"}]
    BY DEF IInv, TypeOK
  <2>3. backlog' = <<>> /\ phase'[h] = phase[h]
    BY <1>2, <2>1, <2>2, Dropped
  <2>4. ASSUME NEW c \in Clients, phase'[c] = "open" PROVE c = h
    <3>1. phase[c] = "open" /\ ~\E i \in DOMAIN t : t[i] = c
      BY <2>1, <2>2, <2>4, Dropped
    <3> QED  BY <1>3, <3>1
  <2> QED  BY <1>2, <2>3, <2>4 DEF h
<1> QED  BY <1>4, <1>5

LEMMA CloseQueue == ASSUME IInv, CloseClient, Handling PROVE Queue'
<1>1. cur \in Clients /\ Queue /\ TypeOK /\ NoClient \notin Clients
  BY ServerAssumption DEF IInv, Places
<1>2. backlog' = backlog /\ cur' = NoClient /\ fdOpen' = fdOpen
  BY DEF CloseClient, sharedVars
<1>3. /\ \A c \in Clients : c # cur => phase'[c] = phase[c]
      /\ phase'[cur] # "open"
  BY <1>1 DEF CloseClient, TypeOK
<1>4. \A i \in DOMAIN backlog : backlog[i] \in Clients
  BY <1>1 DEF TypeOK
<1>5. \A i \in DOMAIN backlog : backlog[i] # NoClient /\ phase'[backlog[i]] \in {"open", "left"}
  BY <1>1, <1>3, <1>4 DEF Queue
<1>6. \A c \in Clients : phase'[c] = "open" => \E i \in DOMAIN backlog : backlog[i] = c
  BY <1>1, <1>3 DEF Queue, Waiting
<1>7. backlog # <<>> => fdOpen
  BY <1>1 DEF Queue, Listening, Handling
<1> QED  BY <1>1, <1>2, <1>5, <1>6, <1>7 DEF Queue, Waiting, Listening

LEMMA CloseFdQueue == ASSUME IInv, CloseFd PROVE Queue'
<1>1. TypeOK /\ Queue /\ UNCHANGED <<cur, thread>>
  BY DEF IInv, CloseFd, threadVars
<1>2. CASE thread = "accept"
  BY <1>1, <1>2, QueueKept DEF CloseFd, Listening
<1>3. CASE thread # "accept"
  <2>1. DropQueue(backlog) /\ phase \in [Clients -> {"away", "open", "left", "closed"}]
    BY <1>1, <1>3 DEF CloseFd, TypeOK
  <2>2. backlog' = <<>>
    BY <2>1, Dropped
  <2>3. \A c \in Clients : phase'[c] = "open" => c = cur
    BY <1>1, <2>1, Dropped DEF Queue, Waiting
  <2>4. cur \in Clients => phase'[cur] \in {"open", "left"}
    <3>1. ~\E i \in DOMAIN backlog : backlog[i] = cur
      BY <1>1 DEF Queue
    <3> QED  BY <1>1, <2>1, <3>1, Dropped DEF Queue
  <2> QED  BY <1>1, <2>2, <2>3, <2>4 DEF Queue
<1> QED  BY <1>2, <1>3

LEMMA ConnectQueue ==
  ASSUME IInv, NEW c \in Clients, ClientConnects(c) PROVE Queue'
<1>1. /\ TypeOK /\ Queue /\ UNCHANGED <<cur, thread, fdOpen>> /\ Listening
      /\ phase[c] = "away" /\ backlog' = Append(backlog, c)
  BY DEF IInv, ClientConnects, threadVars, sharedVars
<1>2. /\ \A d \in Clients : d # c => phase'[d] = phase[d]
      /\ phase'[c] = "open"
  BY <1>1 DEF ClientConnects, TypeOK
<1>3. backlog \in Seq(Clients) /\ \A i \in DOMAIN backlog : backlog[i] \in Clients /\ backlog[i] # c
  <2>1. backlog \in Seq(Clients)
    BY <1>1 DEF TypeOK
  <2> QED  BY <1>1, <2>1 DEF Queue
<1>4. cur # c
  BY <1>1 DEF Queue
<1>5. \A i \in DOMAIN backlog' : i = Len(backlog) + 1 \/ i \in DOMAIN backlog
  BY <1>1, <1>3, Appended
<1>6. backlog'[Len(backlog) + 1] = c /\ Len(backlog) + 1 \in DOMAIN backlog'
  BY <1>1, <1>3, Appended
<1>7. \A i \in DOMAIN backlog : i \in DOMAIN backlog' /\ backlog'[i] = backlog[i]
  BY <1>1, <1>3, Appended
<1>8. \A i, j \in DOMAIN backlog' : backlog'[i] = backlog'[j] => i = j
  BY <1>1, <1>3, <1>5, <1>6, <1>7 DEF Queue
<1>9. \A i \in DOMAIN backlog' : backlog'[i] # cur /\ phase'[backlog'[i]] \in {"open", "left"}
  BY <1>1, <1>2, <1>3, <1>4, <1>5, <1>6, <1>7 DEF Queue
<1>10. cur \in Clients => phase'[cur] \in {"open", "left"}
  BY <1>1, <1>2, <1>4 DEF Queue
<1>11. \A d \in Clients : phase'[d] = "open" => d = cur \/ \E i \in DOMAIN backlog' : backlog'[i] = d
  BY <1>1, <1>2, <1>6, <1>7 DEF Queue, Waiting
<1> QED  BY <1>1, <1>8, <1>9, <1>10, <1>11 DEF Queue, Waiting, Listening

LEMMA LeavesQueue ==
  ASSUME IInv, NEW c \in Clients, ClientLeaves(c) PROVE Queue'
<1>1. TypeOK /\ Queue /\ UNCHANGED <<cur, thread, fdOpen, backlog>>
  BY DEF IInv, ClientLeaves, threadVars, sharedVars
<1>2. /\ \A d \in Clients : d # c => phase'[d] = phase[d]
      /\ phase'[c] = "left"
  BY <1>1 DEF ClientLeaves, TypeOK
<1>3. \A i \in DOMAIN backlog : backlog[i] \in Clients
  BY <1>1 DEF TypeOK
<1>4. \A i \in DOMAIN backlog : phase'[backlog[i]] \in {"open", "left"}
  BY <1>1, <1>2, <1>3 DEF Queue
<1>5. cur \in Clients => phase'[cur] \in {"open", "left"}
  BY <1>1, <1>2 DEF Queue
<1>6. \A d \in Clients : phase'[d] = "open" => d = cur \/ Waiting(d)
  BY <1>1, <1>2 DEF Queue
<1> QED  BY <1>1, <1>4, <1>5, <1>6 DEF Queue, Waiting, Listening

LEMMA QueueNext == ASSUME IInv, [Next]_vars PROVE Queue'
<1> USE DEF mainVars, sharedVars, threadVars, clientVars
<1>1. TypeOK /\ Places /\ Queue /\ NoClient \notin Clients
  BY ServerAssumption DEF IInv
<1>2. CASE UNCHANGED vars
  BY <1>1, <1>2, QueueKept DEF vars, Listening
<1>3. CASE Start \/ BeginFetch \/ Publish \/ Quit \/ ClearFd \/ Join
  BY <1>1, <1>3, QueueKept
     DEF Start, BeginFetch, Publish, Quit, ClearFd, Join, Listening, Places
<1>4. CASE CloseFd
  BY <1>4, CloseFdQueue
<1>5. CASE Test \/ Load \/ Call \/ Failed \/ Read \/ Reply \/ Write
  BY <1>1, <1>5, QueueKept DEF Test, Load, Call, Failed, Read, Reply, Write, Listening
<1>6. CASE Accept
  BY <1>6, LeaveQueue DEF Accept, LeaveAccept, Queue, Waiting, Listening
<1>7. CASE AcceptAborted
  <2>1. cur' = cur /\ cur \notin Clients /\ fdOpen' = fdOpen
    BY <1>1, <1>7 DEF AcceptAborted, LeaveAccept, Places, Handling
  <2>2. backlog' \in Seq(Clients)
    BY <1>1, <1>7, LeaveTypes DEF AcceptAborted
  <2>3. \A i \in DOMAIN backlog' : backlog'[i] \in Clients
    BY <2>2
  <2>4. phase'[Head(backlog)] = "left"
    BY <1>7, LeaveQueue DEF AcceptAborted
  <2> QED  BY <1>7, <2>1, <2>3, <2>4, LeaveQueue DEF AcceptAborted, Queue, Waiting, Listening
<1>8. CASE ReadNothing \/ EndWrite
  BY <1>8, CloseQueue DEF ReadNothing, EndWrite, Handling
<1>9. CASE \E c \in Clients : ClientConnects(c) \/ ClientLeaves(c)
  BY <1>9, ConnectQueue, LeavesQueue
<1>10. CASE \E c \in Clients : PartArrives(c) \/ \E path \in Paths : RequestArrives(c, path)
  BY <1>1, <1>10, QueueKept DEF PartArrives, RequestArrives, Listening
<1> QED  BY <1>2, <1>3, <1>4, <1>5, <1>6, <1>7, <1>8, <1>9, <1>10 DEF Next, Stop, Serve

-----------------------------------------------------------------------------
(* The answers *)

\* A step that leaves the response in progress, and what has been received, asked
\* and published, alone, and opens no client.
LEMMA AnswersKept ==
  ASSUME Answers, Queue,
         UNCHANGED <<cur, request, out, written, asked, arrived, asof, resp, published>>,
         thread' = thread \/ {"reply", "write"} \cap {thread, thread'} = {},
         \A c \in Clients :
           phase'[c] = phase[c] \/ (phase[c] # "away" /\ phase'[c] \notin {"away", "open"})
  PROVE  Answers'
<1>1. InProgress'
  BY DEF Answers, InProgress, Fresh, Matches
<1>2. ASSUME NEW c \in Clients PROVE Received(c)'
  BY <1>2 DEF Answers, Received, Unheard, Fresh, Matches
<1> QED  BY <1>1, <1>2 DEF Answers

LEMMA ReadAnswers == ASSUME IInv, Read PROVE Answers'
<1>1. /\ UNCHANGED <<cur, out, written, phase, asked, arrived, asof, resp, published>>
      /\ thread = "read" /\ thread' = "reply" /\ cur \in Clients
      /\ arrived[cur] # "nothing"
      /\ request' = IF arrived[cur] = "part" THEN "cut" ELSE asked[cur]
  BY DEF Read, mainVars, clientVars, IInv, Places, Handling
<1>2. TypeOK /\ Answers /\ Unheard(cur)
  BY <1>1 DEF IInv, Answers, Received
<1>3. InProgress'
  BY <1>1, <1>2 DEF InProgress, Unheard, TypeOK
<1>4. ASSUME NEW c \in Clients PROVE Received(c)'
  BY <1>1, <1>2 DEF Answers, Received, Unheard, Fresh, Matches
<1> QED  BY <1>3, <1>4 DEF Answers

LEMMA AcceptAnswers == ASSUME IInv, Accept \/ AcceptAborted PROVE Answers'
<1>1. /\ UNCHANGED <<out, written, asked, arrived, asof, resp, published>>
      /\ thread' \notin {"reply", "write"} /\ thread = "accept" /\ LeaveAccept
  BY DEF Accept, AcceptAborted, LeaveAccept, mainVars
<1>2. \A c \in Clients : phase'[c] = phase[c] \/ (phase[c] = "open" /\ phase'[c] = "closed")
  <2>1. CASE fdOpen
    BY <1>1, <2>1 DEF LeaveAccept
  <2>2. CASE ~fdOpen
    BY <1>1, <2>2, Dropped DEF LeaveAccept, IInv, TypeOK
  <2> QED  BY <2>1, <2>2
<1>3. ASSUME NEW c \in Clients PROVE Received(c)'
  <2>1. Received(c) /\ (resp[c].what \in Whole => phase[c] # "open")
    BY <1>1 DEF IInv, Answers, Received
  <2> QED  BY <1>1, <1>2, <2>1 DEF Received, Unheard, Fresh, Matches
<1> QED  BY <1>1, <1>3 DEF Answers, InProgress

LEMMA CloseAnswers == ASSUME IInv, CloseClient, Handling, UNCHANGED resp PROVE Answers'
<1>1. /\ UNCHANGED <<asked, arrived, asof, resp, published>> /\ thread' = "test"
      /\ cur \in Clients
  BY DEF CloseClient, mainVars, IInv, Places
<1>2. /\ \A c \in Clients : c # cur => phase'[c] = phase[c]
      /\ phase'[cur] \notin {"away", "open"}
  BY <1>1 DEF CloseClient, IInv, TypeOK, Queue
<1>3. ASSUME NEW c \in Clients PROVE Received(c)'
  <2>1. Received(c)
    BY DEF IInv, Answers
  <2> QED  BY <1>1, <1>2, <2>1 DEF Received, Unheard, Fresh, Matches
<1> QED  BY <1>1, <1>3 DEF Answers, InProgress

LEMMA PublishAnswers == ASSUME IInv, Publish PROVE Answers'
<1>1. /\ UNCHANGED <<thread, cur, request, out, written, phase, asked, arrived, asof, resp>>
      /\ published' = published + 1 /\ published \in Nat
      /\ TypeOK /\ Answers /\ Places
  BY DEF Publish, threadVars, clientVars, IInv, TypeOK
<1>2. \A n \in Nat : n <= published => n <= published'
  BY <1>1
<1>3. out.no \in Nat /\ \A c \in Clients : asof[c] \in Nat /\ resp[c].no \in Nat
  BY <1>1 DEF TypeOK
<1>4. InProgress'
  BY <1>1, <1>2, <1>3 DEF Answers, InProgress, Fresh, Matches
<1>5. ASSUME NEW c \in Clients PROVE Received(c)'
  BY <1>1, <1>2, <1>3 DEF Answers, Received, Unheard, Fresh, Matches
<1> QED  BY <1>4, <1>5 DEF Answers

LEMMA ReplyAnswers == ASSUME IInv, Reply PROVE Answers'
<1>1. /\ UNCHANGED <<cur, phase, asked, arrived, asof, resp, published>>
      /\ thread = "reply" /\ thread' = "write" /\ written' = 0 /\ cur \in Clients
      /\ out'.what = Path(request) /\ (out'.what = "data" => out'.no = latest)
  BY DEF Reply, mainVars, clientVars, IInv, Places, Handling
<1>2. asof[cur] <= published /\ latest = published /\ published <= published
  BY <1>1 DEF IInv, TypeOK, Answers, Received, Places
<1>3. Matches(cur, out)' /\ arrived[cur] # "nothing"
  <2>1. InProgress
    BY DEF IInv, Answers
  <2>2. CASE request = "cut" /\ arrived[cur] # "whole"
    BY <1>1, <2>1, <2>2 DEF Path, InProgress, Matches, Whole
  <2>3. CASE request = asked[cur] /\ request \in Paths
    BY <1>1, <2>1, <2>3 DEF Path, Paths, InProgress, Matches, Whole
  <2> QED  BY <1>1, <2>1, <2>2, <2>3 DEF InProgress
<1>4. InProgress'
  BY <1>1, <1>2, <1>3 DEF InProgress, Fresh
<1>5. ASSUME NEW c \in Clients PROVE Received(c)'
  BY <1>1 DEF IInv, Answers, Received, Unheard, Fresh, Matches
<1> QED  BY <1>4, <1>5 DEF Answers

LEMMA WriteAnswers == ASSUME IInv, Write PROVE Answers'
<1> DEFINE cut == [NoReply EXCEPT !.what = "cut"]
<1>1. /\ UNCHANGED <<thread, cur, request, out, phase, asked, arrived, asof, published>>
      /\ thread = "write" /\ cur \in Clients /\ phase[cur] = "open"
      /\ written \in 0..1 /\ written' = written + 1
  BY DEF Write, mainVars, IInv, Places, Handling, TypeOK
<1>2. /\ resp'[cur] = IF written = 1 THEN out ELSE cut
      /\ \A c \in Clients : c # cur => resp'[c] = resp[c]
  BY <1>1 DEF Write, IInv, TypeOK
<1>3. cut.what = "cut" /\ "cut" \notin Whole
  BY DEF NoReply, Whole
<1> HIDE DEF cut
<1>4. Fresh(cur, out) /\ Matches(cur, out) /\ arrived[cur] # "nothing"
  BY <1>1 DEF IInv, Answers, InProgress
<1>5. InProgress'
  BY <1>1, <1>2, <1>4 DEF InProgress, Fresh, Matches
<1>6. ASSUME NEW c \in Clients, c = cur PROVE Received(c)'
  BY <1>1, <1>2, <1>3, <1>4, <1>6 DEF IInv, Answers, Received, Unheard, Fresh, Matches
<1>7. ASSUME NEW c \in Clients, c # cur PROVE Received(c)'
  BY <1>1, <1>2, <1>7 DEF IInv, Answers, Received, Unheard, Fresh, Matches
<1> QED  BY <1>5, <1>6, <1>7 DEF Answers

LEMMA ConnectAnswers ==
  ASSUME IInv, NEW c \in Clients, ClientConnects(c) PROVE Answers'
<1>1. /\ UNCHANGED <<thread, cur, request, out, written, asked, arrived, resp, published>>
      /\ phase[c] = "away" /\ TypeOK /\ Queue /\ Answers
  BY DEF ClientConnects, mainVars, threadVars, IInv
<1>2. /\ \A d \in Clients : d # c => phase'[d] = phase[d] /\ asof'[d] = asof[d]
      /\ phase'[c] = "open" /\ asof'[c] = published
  BY <1>1 DEF ClientConnects, TypeOK
<1>3. cur # c /\ (thread = "write" => cur \in Clients)
  BY <1>1 DEF Queue, IInv, Places, Handling
<1>4. InProgress'
  BY <1>1, <1>2, <1>3 DEF Answers, InProgress, Fresh, Matches
<1>5. Received(c)'
  <2>1. resp[c] = NoReply /\ published <= published
    BY <1>1 DEF Answers, Received, TypeOK
  <2>2. NoReply.what # "data" /\ NoReply.what \notin Whole
    BY DEF NoReply, Whole
  <2> QED  BY <1>1, <1>2, <2>1, <2>2 DEF Answers, Received, Unheard, Fresh
<1>6. ASSUME NEW d \in Clients, d # c PROVE Received(d)'
  BY <1>1, <1>2, <1>6 DEF Answers, Received, Unheard, Fresh, Matches
<1> QED  BY <1>4, <1>5, <1>6 DEF Answers

\* Once read() has returned, what still arrives of a request can only be its rest.
LEMMA ArrivesAnswers ==
  ASSUME IInv, NEW c \in Clients,
         PartArrives(c) \/ \E path \in Paths : RequestArrives(c, path)
  PROVE  Answers'
<1>1. /\ UNCHANGED <<thread, cur, request, out, written, phase, asof, resp, published>>
      /\ phase[c] = "open" /\ arrived[c] \in {"nothing", "part"} /\ asked[c] = "none"
      /\ TypeOK /\ Answers
  BY DEF PartArrives, RequestArrives, mainVars, threadVars, IInv, Answers, Received, Unheard
<1>2. /\ \A d \in Clients : d # c => arrived'[d] = arrived[d] /\ asked'[d] = asked[d]
      /\ \/ arrived[c] = "nothing" /\ arrived'[c] = "part" /\ asked'[c] = "none"
         \/ arrived[c] = "nothing" /\ arrived'[c] = "whole" /\ asked'[c] \in Paths
         \/ arrived[c] = "part" /\ arrived'[c] = "rest" /\ asked'[c] \in Paths
  BY <1>1 DEF PartArrives, RequestArrives, TypeOK
<1>3. ASSUME NEW r, Matches(c, r), arrived[c] # "nothing" PROVE Matches(c, r)'
  BY <1>1, <1>2, <1>3 DEF Matches
<1>4. \A d \in Clients : \A r : d # c /\ Matches(d, r) => Matches(d, r)'
  BY <1>2 DEF Matches
<1>5. thread \in {"reply", "write"} => cur \in Clients
  BY <1>1 DEF IInv, Places, Handling
<1>6. InProgress'
  <2>1. CASE thread \in {"reply", "write"} /\ cur = c
    <3>1. thread = "reply" => request = "cut" /\ arrived'[c] # "whole" /\ arrived'[c] # "nothing"
      BY <1>1, <1>2, <2>1 DEF Answers, InProgress, Paths
    <3>2. thread = "write" => Matches(cur, out)' /\ arrived'[c] # "nothing"
      BY <1>1, <1>2, <1>3, <2>1 DEF Answers, InProgress
    <3> QED  BY <1>1, <2>1, <3>1, <3>2 DEF Answers, InProgress, Fresh
  <2>2. CASE thread \in {"reply", "write"} /\ cur # c
    <3>1. arrived'[cur] = arrived[cur] /\ asked'[cur] = asked[cur]
      BY <1>2, <1>5, <2>2
    <3>2. thread = "write" => Matches(cur, out)'
      BY <1>1, <1>4, <1>5, <2>2 DEF Answers, InProgress
    <3> QED  BY <1>1, <2>2, <3>1, <3>2 DEF Answers, InProgress, Fresh
  <2> QED  BY <1>1, <2>1, <2>2 DEF InProgress
<1>7. Received(c)'
  <2>1. Unheard(c)'
    BY <1>2 DEF Unheard, Paths
  <2>2. resp[c].what \in Whole => Matches(c, resp[c])'
    BY <1>1, <1>3 DEF Answers, InProgress, Received
  <2> QED  BY <1>1, <2>1, <2>2 DEF Answers, Received, Fresh
<1>8. ASSUME NEW d \in Clients, d # c PROVE Received(d)'
  BY <1>1, <1>2, <1>4, <1>8 DEF Answers, Received, Unheard, Fresh
<1> QED  BY <1>6, <1>7, <1>8 DEF Answers

LEMMA AnswersNext == ASSUME IInv, [Next]_vars PROVE Answers'
<1> USE DEF mainVars, sharedVars, threadVars, clientVars
<1>1. TypeOK /\ Places /\ Queue /\ Answers
  BY DEF IInv
<1>2. CASE UNCHANGED vars
  BY <1>1, <1>2, AnswersKept DEF vars
<1>3. CASE Start \/ BeginFetch \/ Quit \/ ClearFd \/ Join
  BY <1>1, <1>3, AnswersKept DEF Start, BeginFetch, Quit, ClearFd, Join, Places
<1>4. CASE Publish
  BY <1>4, PublishAnswers
<1>5. CASE CloseFd
  <2>1. \A c \in Clients : phase'[c] = phase[c] \/ (phase[c] = "open" /\ phase'[c] = "closed")
    BY <1>1, <1>5, Dropped DEF CloseFd, TypeOK
  <2> QED  BY <1>1, <1>5, <2>1, AnswersKept DEF CloseFd
<1>6. CASE Test \/ Load \/ Call \/ Failed
  BY <1>1, <1>6, AnswersKept DEF Test, Load, Call, Failed
<1>7. CASE Accept \/ AcceptAborted
  BY <1>7, AcceptAnswers
<1>8. CASE ReadNothing \/ EndWrite
  BY <1>8, CloseAnswers DEF ReadNothing, EndWrite, Handling
<1>9. CASE Read \/ Reply \/ Write
  BY <1>9, ReadAnswers, ReplyAnswers, WriteAnswers
<1>10. ASSUME NEW c \in Clients, ClientLeaves(c) PROVE Answers'
  <2>1. \A d \in Clients : phase'[d] = phase[d] \/ (phase[d] = "open" /\ phase'[d] = "left")
    BY <1>1, <1>10 DEF ClientLeaves, TypeOK
  <2> QED  BY <1>1, <1>10, <2>1, AnswersKept DEF ClientLeaves
<1> QED  BY <1>2, <1>3, <1>4, <1>5, <1>6, <1>7, <1>8, <1>9, <1>10, ConnectAnswers, ArrivesAnswers
         DEF Next, Stop, Serve

-----------------------------------------------------------------------------
(* The theorems *)

LEMMA Invariance == Spec => []IInv
<1>1. ASSUME IInv, [Next]_vars PROVE IInv'
  BY <1>1, NextTypes, PlacesNext, QueueNext, AnswersNext DEF IInv
<1> QED  BY <1>1, InitIInv, PTL DEF Spec

\* Types of the server's state.  (HttpServer, include/http_server.h:24)
THEOREM TypeCorrect == Spec => []TypeOK
<1>1. IInv => TypeOK
  BY DEF IInv
<1> QED  BY <1>1, Invariance, PTL

\* A client that gets data gets a snapshot that was the latest one at some time
\* since it connected.  (get_snapshot in handle_client, src/http_server.cpp:154)
THEOREM AnswersAreFresh == Spec => []FreshAnswer
<1>1. IInv => FreshAnswer
  BY DEF IInv, Answers, Received, Fresh, FreshAnswer
<1> QED  BY <1>1, Invariance, PTL

\* Nobody gets data or health who did not ask for it, and "Not Found" goes to nobody who
\* asked for one of them in one segment.  (single read, src/http_server.cpp:130)
THEOREM AnswersMatch == Spec => []AnswersTheQuestion
<1>1. IInv => AnswersTheQuestion
  BY DEF IInv, Answers, Received, Matches, Whole, AnswersTheQuestion
<1> QED  BY <1>1, Invariance, PTL

\* When stop() has returned there is no thread, no socket and no open connection.
\* (stop, src/http_server.cpp:78)
THEOREM StopLeavesNothing == Spec => []NothingLeft
<1>1. ASSUME IInv, main = "down"
      PROVE  /\ thread = "none" /\ cur = NoClient /\ ~fdOpen /\ backlog = <<>>
             /\ \A c \in Clients : phase[c] # "open"
  <2>1. thread = "none" /\ ~fdOpen /\ cur = NoClient
    BY <1>1 DEF IInv, Places, Handling, TypeOK
  <2>2. backlog = <<>>
    BY <1>1, <2>1 DEF IInv, Queue, Listening
  <2>3. DOMAIN backlog = {}
    BY <2>2
  <2>4. ASSUME NEW c \in Clients PROVE phase[c] # "open"
    <3>1. c # cur /\ ~Waiting(c)
      BY <2>1, <2>3, ServerAssumption DEF Waiting, ServerAssumption
    <3> QED  BY <1>1, <3>1 DEF IInv, Queue
  <2> QED  BY <2>1, <2>2, <2>4
<1> QED  BY <1>1, Invariance, PTL DEF NothingLeft

\* Only stop() makes the server close on a client before its whole response is written.
\* (write loop, src/http_server.cpp:169)
THEOREM NobodyIsDismissed == Spec => NobodyDismissed
<1> DEFINE Dismissed(c) ==
      phase[c] = "open" /\ phase'[c] = "closed" /\ running /\ c = cur /\ arrived[c] # "nothing"
<1>1. ASSUME IInv, Next, NEW c \in Clients, Dismissed(c) PROVE resp[c].what \in Whole
  <2> USE DEF mainVars, sharedVars, threadVars, clientVars
  <2>1. TypeOK /\ Places /\ Answers /\ fdOpen
    BY <1>1 DEF IInv, Places
  <2>2. phase' # phase
    BY <1>1
  <2>3. CASE EndWrite
    <3>1. thread = "write" /\ written = 2
      BY <1>1, <2>3 DEF EndWrite
    <3>2. resp[c] = out /\ out.what \in Whole
      BY <1>1, <2>1, <3>1 DEF Answers, InProgress, Matches
    <3> QED  BY <3>2
  <2>4. CASE Start \/ BeginFetch \/ Publish \/ Quit \/ ClearFd \/ Join
    BY <2>2, <2>4 DEF Start, BeginFetch, Publish, Quit, ClearFd, Join
  <2>5. CASE CloseFd
    BY <1>1, <2>1, <2>5 DEF CloseFd, Places
  <2>6. CASE Test \/ Load \/ Call \/ Failed \/ Read \/ Reply \/ Write
    BY <2>2, <2>6 DEF Test, Load, Call, Failed, Read, Reply, Write
  <2>7. CASE Accept \/ AcceptAborted
    BY <2>1, <2>2, <2>7 DEF Accept, AcceptAborted, LeaveAccept
  <2>8. CASE ReadNothing
    BY <1>1, <2>8 DEF ReadNothing
  <2>9. ASSUME NEW d \in Clients, ClientConnects(d) \/ ClientLeaves(d) PROVE FALSE
    <3>1. phase'[c] = phase[c] \/ phase'[c] \in {"open", "left"}
      BY <2>1, <2>9 DEF ClientConnects, ClientLeaves, TypeOK
    <3> QED  BY <1>1, <3>1
  <2>10. ASSUME NEW d \in Clients,
                PartArrives(d) \/ \E path \in Paths : RequestArrives(d, path)
         PROVE  FALSE
    BY <2>2, <2>10 DEF PartArrives, RequestArrives
  <2> QED  BY <1>1, <2>3, <2>4, <2>5, <2>6, <2>7, <2>8, <2>9, <2>10 DEF Next, Stop, Serve
<1>2. ASSUME IInv, [Next]_vars
      PROVE  UNCHANGED vars \/ \A c \in Clients : Dismissed(c) => resp[c].what \in Whole
  BY <1>1, <1>2
<1> QED  BY <1>2, Invariance, PTL DEF Spec, NobodyDismissed
===============================================================================
