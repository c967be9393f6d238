------------------------------ MODULE HttpServer ------------------------------
(***************************************************************************)
(* Server mode: the main loop (src/main.cpp) fetches snapshots, publishes  *)
(* them and at the end stops the server; the server thread                 *)
(* (src/http_server.cpp) accepts one client at a time, reads once, answers *)
(* and closes.  Between them: running_, server_fd_ and the latest          *)
(* snapshot, whose copies are atomic (SnapshotSlot).  The listening socket *)
(* is Linux's: a thread blocked in accept() keeps it alive after another   *)
(* thread has closed the descriptor, and is not woken by that.             *)
(***************************************************************************)
EXTENDS Integers, Sequences, FiniteSets

CONSTANTS
  Clients,      \* HTTP clients, each of which connects at most once
  NoClient,
  Backlog,      \* the argument of listen(), 16 in the program
  MaxUpdates,   \* bound on the fetches of a behaviour
  MaxStarts     \* bound on the calls of start() that succeed

ASSUME ServerAssumption ==
  /\ NoClient \notin Clients
  /\ Backlog \in Nat \ {0} /\ MaxUpdates \in Nat /\ MaxStarts \in Nat

VARIABLES
  main,         \* main loop: "down", "up", "fetching", and inside stop() "closing",
                \* "clearing", "joining"
  starts,       \* calls of start() so far
  running,      \* running_
  serverFd,     \* server_fd_: "socket", or "none" for -1
  fdOpen,       \* is that descriptor open?
  latest,       \* latest_snapshot_: its number, 0 for the default one
  published,    \* history: how many snapshots have been published
  thread,       \* server thread: where in listen_loop and handle_client
  arg,          \* the value of server_fd_ passed to accept()
  cur,          \* the client being handled
  request,      \* what read() put into the buffer: a path, or "cut" before its end
  out,          \* the response to it
  written,      \* halves of it written so far
  backlog,      \* clients waiting to be accepted, oldest first
  phase,        \* client: "away", "open", "left" (hung up) or "closed" (by us)
  arrived,      \* what has arrived of its request: "nothing", "part" and then the
                \* "rest", or the "whole" at once
  asked,        \* the path it asks for, when that has arrived
  asof,         \* history: what was published when it connected
  resp          \* what has been written to it

mainVars   == <<main, starts, published>>
sharedVars == <<running, serverFd, fdOpen, latest>>
threadVars == <<thread, arg, cur, request, out, written>>
clientVars == <<backlog, phase, asked, arrived, asof, resp>>
vars == <<mainVars, sharedVars, threadVars, clientVars>>

Paths == {"data", "health", "other"}

NoReply == [what |-> "none", no |-> 0]

TypeOK ==
  /\ main \in {"down", "up", "fetching", "closing", "clearing", "joining"}
  /\ starts \in Nat /\ published \in Nat /\ latest \in Nat
  /\ running \in BOOLEAN /\ fdOpen \in BOOLEAN
  /\ serverFd \in {"socket", "none"} /\ arg \in {"socket", "none"}
  /\ thread \in {"none", "test", "load", "call", "accept", "failed", "read",
                 "reply", "write", "exit"}
  /\ cur \in Clients \cup {NoClient}
  /\ request \in Paths \cup {"none", "cut"}
  /\ out \in [what : {"none", "data", "health", "notfound"}, no : Nat]
  /\ written \in 0..2
  /\ backlog \in Seq(Clients)
  /\ phase \in [Clients -> {"away", "open", "left", "closed"}]
  /\ asked \in [Clients -> Paths \cup {"none"}]
  /\ arrived \in [Clients -> {"nothing", "part", "rest", "whole"}]
  /\ asof \in [Clients -> Nat]
  /\ resp \in [Clients -> [what : {"none", "cut", "data", "health", "notfound"}, no : Nat]]

-----------------------------------------------------------------------------
(* The main loop *)

\* start(): socket, bind, listen, and the thread.  A start that fails leaves no
\* trace.
Start ==
  /\ main = "down" /\ ~running
  /\ starts < MaxStarts
  /\ starts' = starts + 1
  /\ running' = TRUE /\ serverFd' = "socket" /\ fdOpen' = TRUE
  /\ main' = "up" /\ thread' = "test"
  /\ UNCHANGED <<published, latest, arg, cur, request, out, written, clientVars>>

\* The main loop calls fetch_snapshot().
BeginFetch ==
  /\ main = "up"
  /\ published < MaxUpdates
  /\ main' = "fetching"
  /\ UNCHANGED <<starts, published, sharedVars, threadVars, clientVars>>

\* Mutant: update_snapshot() is called before the fetch, with what the last one gave.
PublishBeforeFetch ==
  /\ main = "fetching"
  /\ main' = "up"
  /\ latest' = published
  /\ published' = published + 1
  /\ UNCHANGED <<starts, running, serverFd, fdOpen, threadVars, clientVars>>

\* fetch_snapshot() returns, possibly minutes later, and update_snapshot() is
\* called.
Publish ==
  /\ main = "fetching"
  /\ main' = "up"
  /\ latest' = published + 1
  /\ published' = published + 1
  /\ UNCHANGED <<starts, running, serverFd, fdOpen, threadVars, clientVars>>

\* The loop ends (q, SIGINT, SIGTERM) and stop() clears running_.
Quit ==
  /\ main = "up"
  /\ running' = FALSE
  /\ main' = "closing"
  /\ UNCHANGED <<starts, published, serverFd, fdOpen, latest,
                 threadVars, clientVars>>

\* The last reference to the listening socket goes: the kernel resets the
\* connections that are still in its queue.
DropQueue(queue) ==
  /\ backlog' = <<>>
  /\ phase' = [c \in Clients |->
       IF (\E i \in DOMAIN queue : queue[i] = c) /\ phase[c] = "open"
       THEN "closed" ELSE phase[c]]

\* Mutant: stop() forgets to close the socket.
CloseFdForgotten ==
  /\ main = "closing"
  /\ main' = "clearing"
  /\ UNCHANGED <<starts, published, running, serverFd, fdOpen, latest,
                 threadVars, clientVars>>

\* stop() closes the descriptor; a blocked accept() still holds the socket.
CloseFd ==
  /\ main = "closing"
  /\ fdOpen' = FALSE
  /\ main' = "clearing"
  /\ IF thread = "accept" THEN UNCHANGED <<backlog, phase>> ELSE DropQueue(backlog)
  /\ UNCHANGED <<starts, published, running, serverFd, latest,
                 threadVars, asked, arrived, asof, resp>>

ClearFd ==
  /\ main = "clearing"
  /\ serverFd' = "none"
  /\ main' = "joining"
  /\ UNCHANGED <<starts, published, running, fdOpen, latest,
                 threadVars, clientVars>>

\* Mutant: the thread is detached, not joined.
JoinDetached ==
  /\ main = "joining"
  /\ main' = "down"
  /\ UNCHANGED <<starts, published, sharedVars, threadVars, clientVars>>

Join ==
  /\ main = "joining" /\ thread = "exit"
  /\ thread' = "none"
  /\ main' = "down"
  /\ UNCHANGED <<starts, published, sharedVars, arg, cur, request, out, written,
                 clientVars>>

-----------------------------------------------------------------------------
(* The server thread *)

\* while (running_)
Test ==
  /\ thread = "test"
  /\ thread' = IF running THEN "load" ELSE "exit"
  /\ UNCHANGED <<mainVars, sharedVars, arg, cur, request, out, written, clientVars>>

\* server_fd_ is read without synchronization: its old value or its new one.
Load ==
  /\ thread = "load"
  /\ arg' = serverFd
  /\ thread' = "call"
  /\ UNCHANGED <<mainVars, sharedVars, cur, request, out, written, clientVars>>

\* accept() is entered; with a descriptor that is no longer open it fails.
Call ==
  /\ thread = "call"
  /\ thread' = IF arg = "socket" /\ fdOpen THEN "accept" ELSE "failed"
  /\ UNCHANGED <<mainVars, sharedVars, arg, cur, request, out, written, clientVars>>

\* if (client_fd < 0) { if (!running_) break; continue; }
Failed ==
  /\ thread = "failed"
  /\ thread' = IF running THEN "test" ELSE "exit"
  /\ UNCHANGED <<mainVars, sharedVars, arg, cur, request, out, written, clientVars>>

\* accept() takes a connection off the queue: it returns its descriptor, or
\* ECONNABORTED for a client that has left.
LeaveAccept ==
  /\ thread = "accept" /\ backlog # <<>>
  /\ IF fdOpen THEN backlog' = Tail(backlog) /\ UNCHANGED phase
               ELSE DropQueue(Tail(backlog))
  /\ UNCHANGED <<mainVars, sharedVars, arg, request, out, written, asked, arrived, asof, resp>>

Accept ==
  /\ LeaveAccept
  /\ cur' = Head(backlog)
  /\ thread' = "read"

AcceptAborted ==
  /\ LeaveAccept
  /\ phase[Head(backlog)] = "left"
  /\ thread' = "failed"
  /\ UNCHANGED cur

\* close(client_fd)
CloseClient ==
  /\ phase' = [phase EXCEPT ![cur] = IF @ = "open" THEN "closed" ELSE @]
  /\ cur' = NoClient /\ out' = NoReply /\ written' = 0
  /\ thread' = "test"
  /\ UNCHANGED <<mainVars, sharedVars, arg, request, backlog, asked, arrived, asof>>

\* The single read() returns what has arrived, and what comes later nobody reads.
Read ==
  /\ thread = "read" /\ arrived[cur] # "nothing"
  /\ request' = IF arrived[cur] = "part" THEN "cut" ELSE asked[cur]
  /\ thread' = "reply"
  /\ UNCHANGED <<mainVars, sharedVars, arg, cur, out, written, clientVars>>

\* Mutant: SO_RCVTIMEO is not set on the client socket.
ReadNothingHangs ==
  /\ thread = "read" /\ arrived[cur] = "nothing" /\ phase[cur] = "left"
  /\ CloseClient
  /\ UNCHANGED resp

\* read() returns 0, or fails after SO_RCVTIMEO.
ReadNothing ==
  /\ thread = "read" /\ arrived[cur] = "nothing"
  /\ CloseClient
  /\ UNCHANGED resp

\* Mutant: a request without a path is taken for one of "/".
PathOrRoot(asking) ==
  IF asking \in {"data", "cut"} THEN "data"
  ELSE IF asking = "health" THEN "health" ELSE "notfound"

\* The path between the two first spaces; a request cut before the second has
\* none.
Path(asking) == IF asking \in {"data", "health"} THEN asking ELSE "notfound"

\* The path decides; "data" copies the latest snapshot.
Reply ==
  /\ thread = "reply"
  /\ LET what == Path(request)
     IN  out' = [what |-> what, no |-> IF what = "data" THEN latest ELSE 0]
  /\ request' = "none"
  /\ thread' = "write" /\ written' = 0
  /\ UNCHANGED <<mainVars, sharedVars, arg, cur, clientVars>>

\* Mutant: the loop looks at running_ alone.
WriteOn ==
  /\ thread = "write" /\ running
  /\ phase[cur] = "open"
  /\ written' = written + 1
  /\ resp' = [resp EXCEPT ![cur] = out]
  /\ UNCHANGED <<mainVars, sharedVars, thread, arg, cur, request, out, backlog,
                 phase, asked, arrived, asof>>

\* while (sent < total && running_): one more write(), of half the response, or
\* the loop ends.
Write ==
  /\ thread = "write" /\ running /\ written < 2
  /\ phase[cur] = "open"
  /\ written' = written + 1
  /\ resp' = [resp EXCEPT ![cur] = IF written = 1 THEN out ELSE [NoReply EXCEPT !.what = "cut"]]
  /\ UNCHANGED <<mainVars, sharedVars, thread, arg, cur, request, out, backlog,
                 phase, asked, arrived, asof>>

\* Mutant: what write() accepts at once is taken for the whole response.
EndWriteEarly ==
  /\ thread = "write" /\ written >= 1
  /\ CloseClient
  /\ UNCHANGED resp

\* The loop is left: everything written, stopped, or write() failed with ECONNRESET.
\* (EPIPE comes with a SIGPIPE that ends the process: not modelled.)
EndWrite ==
  /\ thread = "write"
  /\ written = 2 \/ ~running \/ phase[cur] = "left"
  /\ CloseClient
  /\ UNCHANGED resp

-----------------------------------------------------------------------------
(* The clients and the network *)

Listening == fdOpen \/ thread = "accept"

ClientConnects(c) ==
  /\ phase[c] = "away"
  /\ Listening /\ Len(backlog) < Backlog
  /\ backlog' = Append(backlog, c)
  /\ phase' = [phase EXCEPT ![c] = "open"]
  /\ asof' = [asof EXCEPT ![c] = published]
  /\ UNCHANGED <<mainVars, sharedVars, threadVars, asked, arrived, resp>>

\* A request arrives as a whole, that is with its path and the space after it, or
\* first a segment that ends before.
PartArrives(c) ==
  /\ phase[c] = "open" /\ arrived[c] = "nothing"
  /\ arrived' = [arrived EXCEPT ![c] = "part"]
  /\ UNCHANGED <<mainVars, sharedVars, threadVars, backlog, phase, asked, asof, resp>>

RequestArrives(c, path) ==
  /\ phase[c] = "open" /\ arrived[c] \in {"nothing", "part"}
  /\ arrived' = [arrived EXCEPT ![c] = IF @ = "part" THEN "rest" ELSE "whole"]
  /\ asked' = [asked EXCEPT ![c] = path]
  /\ UNCHANGED <<mainVars, sharedVars, threadVars, backlog, phase, asof, resp>>

ClientLeaves(c) ==
  /\ phase[c] = "open"
  /\ phase' = [phase EXCEPT ![c] = "left"]
  /\ UNCHANGED <<mainVars, sharedVars, threadVars, backlog, asked, arrived, asof, resp>>

-----------------------------------------------------------------------------
Init ==
  /\ main = "down" /\ starts = 0 /\ published = 0
  /\ running = FALSE /\ serverFd = "none" /\ fdOpen = FALSE
  /\ latest = 0
  /\ thread = "none" /\ arg = "none" /\ cur = NoClient
  /\ request = "none" /\ out = NoReply /\ written = 0
  /\ backlog = <<>>
  /\ phase = [c \in Clients |-> "away"]
  /\ asked = [c \in Clients |-> "none"]
  /\ arrived = [c \in Clients |-> "nothing"]
  /\ asof = [c \in Clients |-> 0]
  /\ resp = [c \in Clients |-> NoReply]

Stop == CloseFd \/ ClearFd \/ Join

Serve ==
  \/ Test \/ Load \/ Call \/ Failed \/ Accept \/ AcceptAborted
  \/ Read \/ ReadNothing \/ Reply \/ Write \/ EndWrite

Next ==
  \/ Start \/ BeginFetch \/ Publish \/ Quit \/ Stop
  \/ Serve
  \/ \E c \in Clients : ClientConnects(c) \/ PartArrives(c) \/ ClientLeaves(c)
  \/ \E c \in Clients, path \in Paths : RequestArrives(c, path)

Spec == Init /\ [][Next]_vars

\* Both threads run on when they can; read() returns at the latest when its
\* timeout expires.  Nothing is assumed of clients, fetches or the user.
FairSpec == Spec /\ WF_vars(Stop) /\ WF_vars(Serve)

-----------------------------------------------------------------------------
(* Properties *)

Whole == {"data", "health", "notfound"}

\* A client that gets data gets a snapshot that was the latest one at some time
\* since it connected.  (get_snapshot in handle_client, src/http_server.cpp:154)
FreshAnswer ==
  \A c \in Clients : resp[c].what = "data" =>
    asof[c] <= resp[c].no /\ resp[c].no <= published

\* Nobody gets data or health who did not ask for it, whatever the thread has read
\* from others, and a request that arrived in one segment is never "Not Found" if it
\* asked for one of them.
\* (single read and path comparison, src/http_server.cpp:130 and :153)
AnswersTheQuestion ==
  \A c \in Clients :
    /\ resp[c].what \in {"data", "health"} => asked[c] = resp[c].what
    /\ resp[c].what = "notfound" => asked[c] = "other" \/ arrived[c] # "whole"

\* GET /data gives the full snapshot: a client all of whose request has arrived is
\* not told "Not Found".  (README.md:99; single read, src/http_server.cpp:130)
DataIsServed ==
  \A c \in Clients :
    asked[c] = "data" /\ arrived[c] \in {"rest", "whole"} => resp[c].what # "notfound"

\* When stop() has returned, nothing is left behind: no thread, no socket, no
\* connection open or waiting.  (stop, src/http_server.cpp:78)
NothingLeft ==
  main = "down" =>
    /\ thread = "none" /\ cur = NoClient
    /\ ~fdOpen /\ backlog = <<>>
    /\ \A c \in Clients : phase[c] # "open"

\* The server never closes on a client that has sent something, before the whole
\* response is written, unless it is being stopped.
\* (write loop, src/http_server.cpp:169)
NobodyDismissed ==
  [][\A c \in Clients :
       phase[c] = "open" /\ phase'[c] = "closed" /\ running /\ c = cur
       /\ arrived[c] # "nothing" => resp[c].what \in Whole]_vars

\* Every client is dealt with, whatever the others do or leave undone, and also
\* when the server is stopped meanwhile.
\* (SO_RCVTIMEO on the client, src/http_server.cpp:118)
EveryClientDone ==
  \A c \in Clients : phase[c] = "open" ~> phase[c] # "open"

\* stop() returns unless the thread is blocked in accept() and no client comes.
\* (stop and listen_loop, src/http_server.cpp:82 and :113)
StopReturnsIfBusy ==
  main = "joining" /\ (thread # "accept" \/ backlog # <<>>) ~> main = "down"

\* stop() returns.
StopReturns == main = "closing" ~> main = "down"
===============================================================================
