----------------------------- MODULE CommandLine ------------------------------
(***************************************************************************)
(* parse_args (src/main.cpp).  An argument is a word: its text, the number *)
(* atoi makes of it, and whether it begins with a dash.  -h and -p are     *)
(* written out as --help and --port.                                       *)
(***************************************************************************)
EXTENDS ConfigFile

Switches == {"--help", "--scan", "--once", "--json", "--server", "--art"}

CommandConfig ==
  [host : Text, config_path : Text, modbus_port : Port, refresh_hz : Nat,
   server_port : Nat, switches : SUBSET Switches]

\* Does the option at position i take the argument after it?
TakesNext(argv, i) ==
  /\ i < Len(argv)
  /\ \/ argv[i].text \in {"--config", "--port", "--interval"}
     \/ argv[i].text = "--server" /\ ~argv[i + 1].dash

\* The positions at which the loop of parse_args stands at the start of a turn.
Turns(argv) ==
  LET taken[i \in DOMAIN argv] == i > 1 /\ ~taken[i - 1] /\ TakesNext(argv, i - 1)
  IN  {i \in DOMAIN argv : ~taken[i]}

Atoi(word) == IF word.numeric THEN word.num ELSE 0

\* Mutant: the number goes into the settings as it is.
PortArgUnchecked(n) == n

PortArg(n) == IF n % 65536 < 1 THEN 502 ELSE n % 65536      \* uint16_t
HzArg(n) == IF n < 1 THEN 1 ELSE IF n > 60 THEN 60 ELSE n
ServerPortArg(n) == IF n < 1 \/ n > 65535 THEN 8080 ELSE n

ParseArgs(argv) ==
  LET turns        == Turns(argv)
      taking(name) == {i \in turns : argv[i].text = name /\ TakesNext(argv, i)}
      texts(name)  == [i \in taking(name) |-> argv[i + 1].text]
      number(i)    == Atoi(argv[i + 1])
  IN  [host        |-> LastOf([i \in {j \in turns : ~argv[j].dash} |-> argv[i].text], NoText),
       config_path |-> LastOf(texts("--config"), NoText),
       modbus_port |-> LastOf([i \in taking("--port") |-> PortArg(number(i))], 502),
       refresh_hz  |-> LastOf([i \in taking("--interval") |-> HzArg(number(i))], 1),
       server_port |-> LastOf([i \in taking("--server") |-> ServerPortArg(number(i))], 8080),
       switches    |-> {s \in Switches : \E i \in turns : argv[i].text = s}]

\* The command line wins over the configuration file, where it differs from its
\* own default.
Override(settings, cmd) ==
  [settings EXCEPT
     !.host        = IF cmd.host # NoText THEN cmd.host ELSE @,
     !.modbus_port = IF cmd.modbus_port # 502 THEN cmd.modbus_port ELSE @,
     !.refresh_hz  = IF cmd.refresh_hz # 1 THEN cmd.refresh_hz ELSE @]
===============================================================================
