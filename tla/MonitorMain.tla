------------------------------ MODULE MonitorMain ------------------------------
(***************************************************************************)
(* main() of src/main.cpp from the connection attempt to the exit: the     *)
(* terminal loop and the server loop, the signal handler, the keys, and    *)
(* the state the terminal is left in.  Steps carry their duration in       *)
(* milliseconds, so that the refresh interval is the program's own.  A     *)
(* fetch is one step that takes any of FetchTimes (its reads: ModbusLink   *)
(* and SnapshotFetch); Server::stop() may take for ever (HttpServer).      *)
(***************************************************************************)
EXTENDS Integers, Sequences

CONSTANTS
  RefreshHz,      \* cfg.refresh_hz
  ConnectTimes,   \* how long device.connect() may take
  FetchTimes,     \* how long fetch_snapshot() may take
  MaxFetchTime,   \* the longest of them
  MaxTyped        \* bound on the keys waiting to be read

ASSUME MainAssumption ==
  /\ RefreshHz \in {n \in Nat : 1 <= n /\ n <= 60}    \* clamped by parse_args
  /\ ConnectTimes \subseteq Nat
  /\ MaxFetchTime \in Nat
  /\ FetchTimes \subseteq {d \in Nat : d <= MaxFetchTime}
  /\ MaxTyped \in Nat

VARIABLES
  mode,       \* "monitor", "once" or "server", from the command line
  stdin,      \* "tty", or "eof" when there is nothing to read (a service)
  pc,         \* where main() is
  gRunning,   \* g_running
  connected,  \* is the device's socket open?
  saved,      \* termios_saver.saved
  term,       \* terminal input: "cooked" or "raw"
  screen,     \* terminal output: "main" or "alt" screen
  line,       \* keys typed on a line that is not finished yet
  keys,       \* keys that can be read
  age,        \* time since last_refresh
  gap,        \* history: time since the last fetch began, or the loop
  shown,      \* history: snapshots rendered or published, counted to two
  after       \* history: those that were finished after the request to stop

setup == <<mode, stdin>>
tty   == <<saved, term, screen>>
input == <<line, keys>>
time  == <<age, gap>>
past  == <<shown, after>>
vars  == <<setup, pc, gRunning, connected, tty, input, time, past>>

Key == {"q", "other"}

Places == {"connect", "prompt", "init", "start", "loop", "fetch", "poll",
           "sleep", "leave", "exit", "ended"}

TypeOK ==
  /\ mode \in {"monitor", "once", "server"} /\ stdin \in {"tty", "eof"}
  /\ pc \in Places
  /\ gRunning \in BOOLEAN /\ connected \in BOOLEAN /\ saved \in BOOLEAN
  /\ term \in {"cooked", "raw"} /\ screen \in {"main", "alt"}
  /\ line \in Seq(Key) /\ keys \in Seq(Key)
  /\ age \in Nat /\ gap \in Nat
  /\ shown \in {0, 1, 2} /\ after \in Nat

\* auto interval = 1000 / cfg.refresh_hz
Interval == 1000 \div RefreshHz

Pass(d) == age' = age + d /\ gap' = gap + d

-----------------------------------------------------------------------------
(* Connecting *)

ConnectOk(d) ==
  /\ pc = "connect"
  /\ pc' = IF mode = "server" THEN "start" ELSE "init"
  /\ connected' = TRUE
  /\ age' = age + d
  /\ UNCHANGED <<setup, gRunning, tty, input, gap, past>>

\* Refused, timed out, or interrupted by a signal.
ConnectFails ==
  /\ pc = "connect"
  /\ pc' = "prompt"
  /\ UNCHANGED <<setup, gRunning, connected, tty, input, time, past>>

\* getchar(): SA_RESTART restarts it when a signal arrives.
PromptReturns ==
  /\ pc = "prompt"
  /\ keys # <<>> \/ stdin = "eof"
  /\ keys' = IF keys = <<>> THEN <<>> ELSE Tail(keys)
  /\ connected' = FALSE
  /\ pc' = "exit"
  /\ UNCHANGED <<setup, gRunning, tty, line, time, past>>

\* ui.init(), termios_saver.save() and raw(): what has been typed so far can be
\* read at once.
InitTerminal ==
  /\ pc = "init"
  /\ screen' = "alt"
  /\ saved' = (stdin = "tty")
  /\ IF stdin = "tty" THEN term' = "raw" /\ keys' = keys \o line /\ line' = <<>>
                      ELSE UNCHANGED <<term, input>>
  /\ pc' = "loop"
  /\ UNCHANGED <<setup, gRunning, connected, time, past>>

StartServer(ok) ==
  /\ pc = "start"
  /\ pc' = IF ok THEN "loop" ELSE "prompt"
  /\ UNCHANGED <<setup, gRunning, connected, tty, input, time, past>>

-----------------------------------------------------------------------------
(* The loop *)

Due == mode = "once" \/ age >= Interval

\* while (g_running)
Leave ==
  /\ pc = "loop" /\ ~gRunning
  /\ pc' = "leave"
  /\ UNCHANGED <<setup, gRunning, connected, tty, input, time, past>>

\* Mutant: a fetch that is due does not look at the flag.
BeginFetchAnyway ==
  /\ pc = "loop" /\ Due
  /\ age' = 0 /\ gap' = 0
  /\ pc' = "fetch"
  /\ UNCHANGED <<setup, gRunning, connected, tty, input, past>>

\* Mutant: last_refresh += interval, to keep the pace.
BeginFetchSteady ==
  /\ pc = "loop" /\ gRunning /\ Due
  /\ age' = age - Interval /\ gap' = 0
  /\ pc' = "fetch"
  /\ UNCHANGED <<setup, gRunning, connected, tty, input, past>>

\* last_refresh = now; device.fetch_snapshot() is called.
BeginFetch ==
  /\ pc = "loop" /\ gRunning /\ Due
  /\ age' = 0 /\ gap' = 0
  /\ pc' = "fetch"
  /\ UNCHANGED <<setup, gRunning, connected, tty, input, past>>

NotDue ==
  /\ pc = "loop" /\ gRunning /\ ~Due
  /\ pc' = "poll"
  /\ UNCHANGED <<setup, gRunning, connected, tty, input, time, past>>

Count ==
  /\ shown' = IF shown = 2 THEN 2 ELSE shown + 1
  /\ after' = IF gRunning THEN after ELSE after + 1

\* Mutant: last_refresh is taken after the fetch.
EndFetchRestarting(d) ==
  /\ pc = "fetch"
  /\ age' = 0 /\ gap' = gap + d
  /\ Count
  /\ pc' = IF mode = "once" THEN "leave" ELSE "poll"
  /\ UNCHANGED <<setup, gRunning, connected, tty, input>>

\* Mutant: --once does not leave the loop.
EndFetchStaying(d) ==
  /\ pc = "fetch"
  /\ Pass(d)
  /\ Count
  /\ pc' = "poll"
  /\ UNCHANGED <<setup, gRunning, connected, tty, input>>

\* The snapshot is there and is rendered, printed or published.
EndFetch(d) ==
  /\ pc = "fetch"
  /\ Pass(d)
  /\ Count
  /\ pc' = IF mode = "once" THEN "leave" ELSE "poll"
  /\ UNCHANGED <<setup, gRunning, connected, tty, input>>

\* Mutant: an event is taken for a key that is never read.
PollNothing ==
  /\ pc = "poll"
  /\ Pass(IF keys = <<>> THEN 50 ELSE 0)
  /\ pc' = "sleep"
  /\ UNCHANGED <<setup, gRunning, connected, tty, input, past>>

PollTime ==
  \/ stdin = "tty" /\ Pass(50)
  \/ (keys # <<>> \/ stdin = "eof" \/ ~gRunning) /\ Pass(0)

\* Mutant: the flag is set from the key alone, over a signal.
PollForgetting ==
  /\ pc = "poll"
  /\ PollTime
  /\ keys' = IF keys = <<>> THEN <<>> ELSE Tail(keys)
  /\ gRunning' = (keys = <<>> \/ Head(keys) # "q")
  /\ pc' = "sleep"
  /\ UNCHANGED <<setup, connected, tty, line, past>>

\* poll() for 50 ms, or less if there is a key, the end of the input, or a
\* signal; then one key is read, if there is one.
Poll ==
  /\ pc = "poll"
  /\ PollTime
  /\ keys' = IF keys = <<>> THEN <<>> ELSE Tail(keys)
  /\ gRunning' = (gRunning /\ (keys = <<>> \/ Head(keys) # "q"))
  /\ pc' = "sleep"
  /\ UNCHANGED <<setup, connected, tty, line, past>>

\* sleep_for(50ms)
Sleep ==
  /\ pc = "sleep"
  /\ Pass(50)
  /\ pc' = "loop"
  /\ UNCHANGED <<setup, gRunning, connected, tty, input, past>>

-----------------------------------------------------------------------------
(* Leaving *)

\* Mutant: a single snapshot leaves without ui.shutdown().
LeaveOnAltScreen ==
  /\ pc = "leave" /\ mode # "server"
  /\ connected' = FALSE
  /\ screen' = IF mode = "once" THEN screen ELSE "main"
  /\ pc' = "exit"
  /\ UNCHANGED <<setup, gRunning, saved, term, input, time, past>>

\* device.disconnect(); ui.shutdown()
LeaveTerminal ==
  /\ pc = "leave" /\ mode # "server"
  /\ connected' = FALSE
  /\ screen' = "main"
  /\ pc' = "exit"
  /\ UNCHANGED <<setup, gRunning, saved, term, input, time, past>>

\* server.stop() returns; device.disconnect()
LeaveServer ==
  /\ pc = "leave" /\ mode = "server"
  /\ connected' = FALSE
  /\ pc' = "exit"
  /\ UNCHANGED <<setup, gRunning, tty, input, time, past>>

\* main() has returned: ~TermiosSaver
Exit ==
  /\ pc = "exit"
  /\ term' = IF saved THEN "cooked" ELSE term
  /\ pc' = "ended"
  /\ UNCHANGED <<setup, gRunning, connected, saved, screen, input, time, past>>

-----------------------------------------------------------------------------
(* The user and the system *)

Alive == pc # "ended"

\* SIGINT or SIGTERM: signal_handler.
Signal ==
  /\ Alive
  /\ gRunning' = FALSE
  /\ UNCHANGED <<setup, pc, connected, tty, input, time, past>>

Type(k) ==
  /\ Alive /\ stdin = "tty"
  /\ Len(keys) + Len(line) < MaxTyped
  /\ IF term = "raw" THEN keys' = Append(keys, k) /\ UNCHANGED line
                     ELSE line' = Append(line, k) /\ UNCHANGED keys
  /\ UNCHANGED <<setup, pc, gRunning, connected, tty, time, past>>

\* ENTER finishes the line; in raw mode it is a key like any other.
TypeEnter ==
  /\ Alive /\ stdin = "tty" /\ term = "cooked"
  /\ Len(keys) + Len(line) < MaxTyped
  /\ keys' = keys \o Append(line, "other")
  /\ line' = <<>>
  /\ UNCHANGED <<setup, pc, gRunning, connected, tty, time, past>>

-----------------------------------------------------------------------------
Init ==
  /\ mode \in {"monitor", "once", "server"} /\ stdin \in {"tty", "eof"}
  /\ pc = "connect"
  /\ gRunning = TRUE /\ connected = FALSE
  /\ saved = FALSE /\ term = "cooked" /\ screen = "main"
  /\ line = <<>> /\ keys = <<>>
  /\ age = 0 /\ gap = 0
  /\ shown = 0 /\ after = 0

Main ==
  \/ \E d \in ConnectTimes : ConnectOk(d)
  \/ ConnectFails \/ PromptReturns \/ InitTerminal
  \/ \E ok \in BOOLEAN : StartServer(ok)
  \/ Leave \/ BeginFetch \/ NotDue
  \/ \E d \in FetchTimes : EndFetch(d)
  \/ Poll \/ Sleep \/ LeaveTerminal \/ Exit

Environment == Signal \/ TypeEnter \/ \E k \in Key : Type(k)

Next == Main \/ LeaveServer \/ Environment

Spec == Init /\ [][Next]_vars

\* connect and recv have timeouts of 5 s, so every step of main() ends, save a
\* prompt without a key and Server::stop().
FairSpec == Spec /\ WF_vars(Main)

-----------------------------------------------------------------------------
(* Properties *)

\* The program only waits for ENTER where ENTER is seen, and it leaves the
\* terminal as it found it and no connection open, by whichever path it ends.
\* (TermiosSaver and ui.shutdown, src/main.cpp:67 and :453)
TerminalRestored ==
  /\ pc \in {"prompt", "ended"} => term = "cooked" /\ screen = "main"
  /\ pc = "ended" => ~connected

\* In the loop no fetch is further back than the interval and one round of the
\* loop, or than the last fetch took and one round.  (src/main.cpp:416 to :450)
RefreshOnTime ==
  pc = "loop" => gap <= MaxFetchTime + 100 \/ gap <= Interval + 99

\* At most the fetch in progress is still shown after the program has been asked
\* to stop.  (while (g_running), src/main.cpp:416)
OneMoreAtMost == after <= 1

\* --once shows exactly one snapshot, or none if it could not connect or was asked
\* to stop before.  (src/main.cpp:431)
OnceIsOne ==
  mode = "once" =>
    /\ shown <= 1
    /\ pc = "leave" => shown = 1 \/ ~gRunning

\* A request to stop is honoured, up to the places where main() waits for
\* somebody else: ENTER at a prompt, and Server::stop().
\* (signal_handler, src/main.cpp:43)
StopHonoured ==
  ~gRunning ~> \/ pc = "ended"
               \/ pc = "prompt" /\ stdin = "tty"
               \/ pc = "leave" /\ mode = "server"

\* In the terminal monitor q ends the program, also behind other keys and while a
\* fetch is going on.  (key input, src/main.cpp:439)
QuitKeyWorks ==
  term = "raw" /\ (\E i \in DOMAIN keys : keys[i] = "q") ~> pc = "ended"
===============================================================================
