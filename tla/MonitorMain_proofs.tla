-------------------------- MODULE MonitorMain_proofs ---------------------------
(***************************************************************************)
(* Proofs about MonitorMain, for every refresh rate the command line       *)
(* admits, any durations of a connection and of a fetch, and any number of *)
(* keys.                                                                   *)
(***************************************************************************)
EXTENDS MonitorMain, TLAPS

\* How far back the last fetch may be, ms into a round of the loop: it is that far
\* back because it took so long, or because the next one was not due yet.
WithinRound(ms) == gap <= MaxFetchTime + ms \/ gap <= Interval - 1 + ms

\* The clock of the loop and the history agree, and each place of a round adds its
\* share of the delay.
Timing ==
  /\ gap <= age
  /\ pc \in {"connect", "prompt", "init", "start", "fetch"} => gap = 0
  /\ pc = "poll" => WithinRound(0)
  /\ pc = "sleep" => WithinRound(50)
  /\ pc = "loop" => WithinRound(100)

\* Where the terminal and the connection may be changed, and that whoever makes the
\* terminal raw has saved it.
Terminal ==
  /\ term = "raw" => saved
  /\ pc \in {"connect", "prompt", "init", "start"} \/ mode = "server" =>
       term = "cooked" /\ screen = "main"
  /\ pc = "init" => mode # "server"
  /\ pc \in {"exit", "ended"} => screen = "main" /\ ~connected
  /\ pc = "ended" => term = "cooked"

\* A fetch is only begun while nobody has asked to stop.
Stopping == after = 0 \/ (after = 1 /\ ~gRunning /\ pc # "fetch")

\* With --once there is one fetch, from the first round of the loop.
Once ==
  /\ pc = "start" => mode = "server"
  /\ mode = "once" =>
       /\ pc \notin {"poll", "sleep"}
       /\ pc \in {"connect", "prompt", "init", "loop", "fetch"} => shown = 0
       /\ pc = "leave" => shown = 1 \/ ~gRunning
       /\ shown <= 1

IInv == TypeOK /\ Timing /\ Terminal /\ Stopping /\ Once

LEMMA IntervalType == Interval \in Nat
  BY MainAssumption DEF Interval, MainAssumption

\* What reading, typing and finishing a line make of the keys.
LEMMA KeysTyped ==
  /\ <<>> \in Seq(Key)
  /\ \A s \in Seq(Key) : (IF s = <<>> THEN <<>> ELSE Tail(s)) \in Seq(Key)
  /\ \A s \in Seq(Key), k \in Key : Append(s, k) \in Seq(Key)
  /\ \A s, t \in Seq(Key) : s \o t \in Seq(Key)
  /\ "other" \in Key
<1>1. <<>> \in Seq(Key)
  OBVIOUS
<1>2. \A s \in Seq(Key) : (IF s = <<>> THEN <<>> ELSE Tail(s)) \in Seq(Key)
  BY <1>1
<1>3. \A s \in Seq(Key), k \in Key : Append(s, k) \in Seq(Key)
  OBVIOUS
<1>4. \A s, t \in Seq(Key) : s \o t \in Seq(Key)
  OBVIOUS
<1>5. "other" \in Key
  BY DEF Key
<1> QED  BY <1>1, <1>2, <1>3, <1>4, <1>5

LEMMA InitIInv == Init => IInv
<1> SUFFICES ASSUME Init PROVE IInv
  OBVIOUS
<1>1. TypeOK
  BY KeysTyped DEF Init, TypeOK, Places
<1>2. Timing /\ Stopping
  BY DEF Init, Timing, Stopping
<1>3. Terminal
  BY DEF Init, Terminal
<1>4. Once
  BY DEF Init, Once
<1> QED  BY <1>1, <1>2, <1>3, <1>4 DEF IInv


\* Types are kept.
LEMMA TypeStep ==
  ASSUME TypeOK, [Next]_vars
  PROVE  TypeOK'
<1>1. ASSUME NEW d \in ConnectTimes, ConnectOk(d) PROVE TypeOK'
  BY <1>1, MainAssumption, KeysTyped
  DEF ConnectOk, TypeOK, setup, tty, input, time, past, MainAssumption, Places
<1>2. CASE ConnectFails
  BY <1>2, MainAssumption, KeysTyped
  DEF ConnectFails, TypeOK, setup, tty, input, time, past, Places
<1>3. CASE PromptReturns
  BY <1>3, MainAssumption, KeysTyped
  DEF PromptReturns, TypeOK, setup, tty, input, time, past, Places
<1>4. CASE InitTerminal
  BY <1>4, MainAssumption, KeysTyped
  DEF InitTerminal, TypeOK, setup, tty, input, time, past, Places
<1>5. ASSUME NEW ok \in BOOLEAN, StartServer(ok) PROVE TypeOK'
  BY <1>5, MainAssumption, KeysTyped
  DEF StartServer, TypeOK, setup, tty, input, time, past, Places
<1>6. CASE Leave
  BY <1>6, MainAssumption, KeysTyped
  DEF Leave, TypeOK, setup, tty, input, time, past, Places
<1>7. CASE BeginFetch
  BY <1>7, MainAssumption, KeysTyped
  DEF BeginFetch, TypeOK, setup, tty, input, time, past, Places
<1>8. CASE NotDue
  BY <1>8, MainAssumption, KeysTyped
  DEF NotDue, TypeOK, setup, tty, input, time, past, Places
<1>9. ASSUME NEW d \in FetchTimes, EndFetch(d) PROVE TypeOK'
  BY <1>9, MainAssumption, KeysTyped
  DEF EndFetch, TypeOK, setup, tty, input, time, past, MainAssumption, Places, Count, Pass
<1>10. CASE Poll
  BY <1>10, MainAssumption, KeysTyped
  DEF Poll, TypeOK, setup, tty, input, time, past, PollTime, Pass, Places
<1>11. CASE Sleep
  BY <1>11, MainAssumption, KeysTyped
  DEF Sleep, TypeOK, setup, tty, input, time, past, Pass, Places
<1>12. CASE LeaveTerminal
  BY <1>12, MainAssumption, KeysTyped
  DEF LeaveTerminal, TypeOK, setup, tty, input, time, past, Places
<1>13. CASE LeaveServer
  BY <1>13, MainAssumption, KeysTyped
  DEF LeaveServer, TypeOK, setup, tty, input, time, past, Places
<1>14. CASE Exit
  BY <1>14, MainAssumption, KeysTyped
  DEF Exit, TypeOK, setup, tty, input, time, past, Places
<1>15. CASE Signal
  BY <1>15, MainAssumption, KeysTyped
  DEF Signal, TypeOK, setup, tty, input, time, past, Places
<1>16. ASSUME NEW k \in Key, Type(k) PROVE TypeOK'
  BY <1>16, MainAssumption, KeysTyped
  DEF Type, TypeOK, setup, tty, input, time, past, Places
<1>17. CASE TypeEnter
  BY <1>17, MainAssumption, KeysTyped
  DEF TypeEnter, TypeOK, setup, tty, input, time, past, Places
<1>18. CASE UNCHANGED vars
  BY <1>18, MainAssumption, KeysTyped DEF TypeOK, vars, setup, tty, input, time, past
<1> QED
  BY <1>1, <1>2, <1>3, <1>4, <1>5, <1>6, <1>7, <1>8, <1>9, <1>10, <1>11, <1>12, <1>13, <1>14, <1>15, <1>16, <1>17, <1>18 DEF Next, Main, Environment

\* The delay of a round adds up to at most 100 ms.
LEMMA TimingStep ==
  ASSUME TypeOK, Timing, Once, [Next]_vars
  PROVE  Timing'
<1> USE IntervalType, MainAssumption DEF WithinRound
<1>1. ASSUME NEW d \in ConnectTimes, ConnectOk(d) PROVE Timing'
  BY <1>1
  DEF ConnectOk, Timing, setup, tty, input, time, past, TypeOK, MainAssumption
<1>2. CASE ConnectFails
  BY <1>2
  DEF ConnectFails, Timing, setup, tty, input, time, past, TypeOK
<1>3. CASE PromptReturns
  BY <1>3
  DEF PromptReturns, Timing, setup, tty, input, time, past, TypeOK
<1>4. CASE InitTerminal
  BY <1>4
  DEF InitTerminal, Timing, setup, tty, input, time, past, TypeOK
<1>5. ASSUME NEW ok \in BOOLEAN, StartServer(ok) PROVE Timing'
  BY <1>5
  DEF StartServer, Timing, setup, tty, input, time, past, TypeOK
<1>6. CASE Leave
  BY <1>6
  DEF Leave, Timing, setup, tty, input, time, past, TypeOK
<1>7. CASE BeginFetch
  BY <1>7
  DEF BeginFetch, Timing, setup, tty, input, time, past, TypeOK
<1>8. CASE NotDue
  BY <1>8
  DEF NotDue, Timing, setup, tty, input, time, past, TypeOK, Due, Once
<1>9. ASSUME NEW d \in FetchTimes, EndFetch(d) PROVE Timing'
  BY <1>9
  DEF EndFetch, Timing, setup, tty, input, time, past, TypeOK, MainAssumption, Pass
<1>10. CASE Poll
  BY <1>10
  DEF Poll, Timing, setup, tty, input, time, past, TypeOK, Pass, PollTime
<1>11. CASE Sleep
  BY <1>11
  DEF Sleep, Timing, setup, tty, input, time, past, TypeOK, Pass
<1>12. CASE LeaveTerminal
  BY <1>12
  DEF LeaveTerminal, Timing, setup, tty, input, time, past, TypeOK
<1>13. CASE LeaveServer
  BY <1>13
  DEF LeaveServer, Timing, setup, tty, input, time, past, TypeOK
<1>14. CASE Exit
  BY <1>14
  DEF Exit, Timing, setup, tty, input, time, past, TypeOK
<1>15. CASE Signal
  BY <1>15
  DEF Signal, Timing, setup, tty, input, time, past, TypeOK
<1>16. ASSUME NEW k \in Key, Type(k) PROVE Timing'
  BY <1>16
  DEF Type, Timing, setup, tty, input, time, past, TypeOK
<1>17. CASE TypeEnter
  BY <1>17
  DEF TypeEnter, Timing, setup, tty, input, time, past, TypeOK
<1>18. CASE UNCHANGED vars
  BY <1>18 DEF Timing, vars, setup, tty, input, time, past
<1> QED
  BY <1>1, <1>2, <1>3, <1>4, <1>5, <1>6, <1>7, <1>8, <1>9, <1>10, <1>11, <1>12, <1>13, <1>14, <1>15, <1>16, <1>17, <1>18 DEF Next, Main, Environment

\* Every way out undoes what InitTerminal did.
LEMMA TerminalStep ==
  ASSUME TypeOK, Terminal, [Next]_vars
  PROVE  Terminal'
<1>1. ASSUME NEW d \in ConnectTimes, ConnectOk(d) PROVE Terminal'
  BY <1>1
  DEF ConnectOk, Terminal, setup, tty, input, time, past, TypeOK
<1>2. CASE ConnectFails
  BY <1>2
  DEF ConnectFails, Terminal, setup, tty, input, time, past, TypeOK
<1>3. CASE PromptReturns
  BY <1>3
  DEF PromptReturns, Terminal, setup, tty, input, time, past, TypeOK
<1>4. CASE InitTerminal
  BY <1>4
  DEF InitTerminal, Terminal, setup, tty, input, time, past, TypeOK
<1>5. ASSUME NEW ok \in BOOLEAN, StartServer(ok) PROVE Terminal'
  BY <1>5
  DEF StartServer, Terminal, setup, tty, input, time, past, TypeOK
<1>6. CASE Leave
  BY <1>6
  DEF Leave, Terminal, setup, tty, input, time, past, TypeOK
<1>7. CASE BeginFetch
  BY <1>7
  DEF BeginFetch, Terminal, setup, tty, input, time, past, TypeOK
<1>8. CASE NotDue
  BY <1>8
  DEF NotDue, Terminal, setup, tty, input, time, past, TypeOK
<1>9. ASSUME NEW d \in FetchTimes, EndFetch(d) PROVE Terminal'
  BY <1>9
  DEF EndFetch, Terminal, setup, tty, input, time, past, TypeOK
<1>10. CASE Poll
  BY <1>10
  DEF Poll, Terminal, setup, tty, input, time, past, TypeOK
<1>11. CASE Sleep
  BY <1>11
  DEF Sleep, Terminal, setup, tty, input, time, past, TypeOK
<1>12. CASE LeaveTerminal
  BY <1>12
  DEF LeaveTerminal, Terminal, setup, tty, input, time, past, TypeOK
<1>13. CASE LeaveServer
  BY <1>13
  DEF LeaveServer, Terminal, setup, tty, input, time, past, TypeOK
<1>14. CASE Exit
  BY <1>14
  DEF Exit, Terminal, setup, tty, input, time, past, TypeOK
<1>15. CASE Signal
  BY <1>15
  DEF Signal, Terminal, setup, tty, input, time, past, TypeOK
<1>16. ASSUME NEW k \in Key, Type(k) PROVE Terminal'
  BY <1>16
  DEF Type, Terminal, setup, tty, input, time, past, TypeOK
<1>17. CASE TypeEnter
  BY <1>17
  DEF TypeEnter, Terminal, setup, tty, input, time, past, TypeOK
<1>18. CASE UNCHANGED vars
  BY <1>18 DEF Terminal, vars, setup, tty, input, time, past
<1> QED
  BY <1>1, <1>2, <1>3, <1>4, <1>5, <1>6, <1>7, <1>8, <1>9, <1>10, <1>11, <1>12, <1>13, <1>14, <1>15, <1>16, <1>17, <1>18 DEF Next, Main, Environment

\* After the request to stop no fetch begins.
LEMMA StoppingStep ==
  ASSUME TypeOK, Stopping, [Next]_vars
  PROVE  Stopping'
<1>1. ASSUME NEW d \in ConnectTimes, ConnectOk(d) PROVE Stopping'
  BY <1>1
  DEF ConnectOk, Stopping, setup, tty, input, time, past, TypeOK
<1>2. CASE ConnectFails
  BY <1>2
  DEF ConnectFails, Stopping, setup, tty, input, time, past, TypeOK
<1>3. CASE PromptReturns
  BY <1>3
  DEF PromptReturns, Stopping, setup, tty, input, time, past, TypeOK
<1>4. CASE InitTerminal
  BY <1>4
  DEF InitTerminal, Stopping, setup, tty, input, time, past, TypeOK
<1>5. ASSUME NEW ok \in BOOLEAN, StartServer(ok) PROVE Stopping'
  BY <1>5
  DEF StartServer, Stopping, setup, tty, input, time, past, TypeOK
<1>6. CASE Leave
  BY <1>6
  DEF Leave, Stopping, setup, tty, input, time, past, TypeOK
<1>7. CASE BeginFetch
  BY <1>7
  DEF BeginFetch, Stopping, setup, tty, input, time, past, TypeOK
<1>8. CASE NotDue
  BY <1>8
  DEF NotDue, Stopping, setup, tty, input, time, past, TypeOK
<1>9. ASSUME NEW d \in FetchTimes, EndFetch(d) PROVE Stopping'
  BY <1>9
  DEF EndFetch, Stopping, setup, tty, input, time, past, TypeOK, Count
<1>10. CASE Poll
  BY <1>10
  DEF Poll, Stopping, setup, tty, input, time, past, TypeOK
<1>11. CASE Sleep
  BY <1>11
  DEF Sleep, Stopping, setup, tty, input, time, past, TypeOK
<1>12. CASE LeaveTerminal
  BY <1>12
  DEF LeaveTerminal, Stopping, setup, tty, input, time, past, TypeOK
<1>13. CASE LeaveServer
  BY <1>13
  DEF LeaveServer, Stopping, setup, tty, input, time, past, TypeOK
<1>14. CASE Exit
  BY <1>14
  DEF Exit, Stopping, setup, tty, input, time, past, TypeOK
<1>15. CASE Signal
  BY <1>15
  DEF Signal, Stopping, setup, tty, input, time, past, TypeOK
<1>16. ASSUME NEW k \in Key, Type(k) PROVE Stopping'
  BY <1>16
  DEF Type, Stopping, setup, tty, input, time, past, TypeOK
<1>17. CASE TypeEnter
  BY <1>17
  DEF TypeEnter, Stopping, setup, tty, input, time, past, TypeOK
<1>18. CASE UNCHANGED vars
  BY <1>18 DEF Stopping, vars, setup, tty, input, time, past
<1> QED
  BY <1>1, <1>2, <1>3, <1>4, <1>5, <1>6, <1>7, <1>8, <1>9, <1>10, <1>11, <1>12, <1>13, <1>14, <1>15, <1>16, <1>17, <1>18 DEF Next, Main, Environment

\* With --once every round fetches, and the first one leaves the loop.
LEMMA OnceStep ==
  ASSUME TypeOK, Once, [Next]_vars
  PROVE  Once'
<1>1. ASSUME NEW d \in ConnectTimes, ConnectOk(d) PROVE Once'
  BY <1>1
  DEF ConnectOk, Once, setup, tty, input, time, past, TypeOK
<1>2. CASE ConnectFails
  BY <1>2
  DEF ConnectFails, Once, setup, tty, input, time, past, TypeOK
<1>3. CASE PromptReturns
  BY <1>3
  DEF PromptReturns, Once, setup, tty, input, time, past, TypeOK
<1>4. CASE InitTerminal
  BY <1>4
  DEF InitTerminal, Once, setup, tty, input, time, past, TypeOK
<1>5. ASSUME NEW ok \in BOOLEAN, StartServer(ok) PROVE Once'
  BY <1>5
  DEF StartServer, Once, setup, tty, input, time, past, TypeOK
<1>6. CASE Leave
  BY <1>6
  DEF Leave, Once, setup, tty, input, time, past, TypeOK
<1>7. CASE BeginFetch
  BY <1>7
  DEF BeginFetch, Once, setup, tty, input, time, past, TypeOK
<1>8. CASE NotDue
  BY <1>8
  DEF NotDue, Once, setup, tty, input, time, past, TypeOK, Due
<1>9. ASSUME NEW d \in FetchTimes, EndFetch(d) PROVE Once'
  BY <1>9
  DEF EndFetch, Once, setup, tty, input, time, past, TypeOK, Count
<1>10. CASE Poll
  BY <1>10
  DEF Poll, Once, setup, tty, input, time, past, TypeOK
<1>11. CASE Sleep
  BY <1>11
  DEF Sleep, Once, setup, tty, input, time, past, TypeOK
<1>12. CASE LeaveTerminal
  BY <1>12
  DEF LeaveTerminal, Once, setup, tty, input, time, past, TypeOK
<1>13. CASE LeaveServer
  BY <1>13
  DEF LeaveServer, Once, setup, tty, input, time, past, TypeOK
<1>14. CASE Exit
  BY <1>14
  DEF Exit, Once, setup, tty, input, time, past, TypeOK
<1>15. CASE Signal
  BY <1>15
  DEF Signal, Once, setup, tty, input, time, past, TypeOK
<1>16. ASSUME NEW k \in Key, Type(k) PROVE Once'
  BY <1>16
  DEF Type, Once, setup, tty, input, time, past, TypeOK
<1>17. CASE TypeEnter
  BY <1>17
  DEF TypeEnter, Once, setup, tty, input, time, past, TypeOK
<1>18. CASE UNCHANGED vars
  BY <1>18 DEF Once, vars, setup, tty, input, time, past
<1> QED
  BY <1>1, <1>2, <1>3, <1>4, <1>5, <1>6, <1>7, <1>8, <1>9, <1>10, <1>11, <1>12, <1>13, <1>14, <1>15, <1>16, <1>17, <1>18 DEF Next, Main, Environment

LEMMA Invariance == Spec => []IInv
<1>1. IInv /\ [Next]_vars => IInv'
  BY TypeStep, TimingStep, TerminalStep, StoppingStep, OnceStep DEF IInv
<1> QED  BY InitIInv, <1>1, PTL DEF Spec

\* The variables of main() keep their types, for every refresh rate and any
\* durations.
THEOREM TypeCorrect == Spec => []TypeOK
<1>1. IInv => TypeOK
  BY DEF IInv
<1> QED  BY Invariance, <1>1, PTL

\* No fetch of the loop is further back than the interval, or the last fetch, and
\* one round: at most 99 or 100 ms late, at every rate from 1 to 60 Hz.
THEOREM RefreshInTime == Spec => []RefreshOnTime
<1>1. IInv => RefreshOnTime
  BY IntervalType, MainAssumption
  DEF IInv, TypeOK, Timing, WithinRound, RefreshOnTime, MainAssumption
<1> QED  BY Invariance, <1>1, PTL

\* By whichever path the program ends or waits for ENTER, the terminal is as it was
\* found, and no connection is left open at the end.
THEOREM LeavesNoTrace == Spec => []TerminalRestored
<1>1. IInv => TerminalRestored
  BY DEF IInv, TypeOK, Terminal, TerminalRestored
<1> QED  BY Invariance, <1>1, PTL

\* Only the fetch in progress is shown after the request to stop.
THEOREM StopsShowing == Spec => []OneMoreAtMost
<1>1. IInv => OneMoreAtMost
  BY DEF IInv, TypeOK, Stopping, OneMoreAtMost
<1> QED  BY Invariance, <1>1, PTL

\* --once shows one snapshot, however long connecting and fetching take.
THEOREM OnceShowsOne == Spec => []OnceIsOne
<1>1. IInv => OnceIsOne
  BY DEF IInv, Once, OnceIsOne
<1> QED  BY Invariance, <1>1, PTL
===============================================================================
