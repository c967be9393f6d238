-------------------------------- MODULE Startup --------------------------------
(***************************************************************************)
(* main() (src/main.cpp) from the command line to the settings it runs     *)
(* with, over several starts of the program: help, the network scan with   *)
(* its offer to save, the question for an address, and the configuration   *)
(* file, which outlives them all.  The program may be ended at any of its  *)
(* steps, by a signal (the handlers are not installed yet) or with the     *)
(* machine.  What main() does with the settings is MonitorMain.            *)
(***************************************************************************)
EXTENDS CommandLine, SubnetScan

CONSTANTS
  CommandLines,  \* the argument sequences the user may start the program with
  FirstFiles,    \* the file systems it may find at first
  Typed,         \* the lines the user may type
  Rest,          \* what is left of such a line without its first character
  Cidr,          \* what parse_cidr reads from a text with an address before a slash:
                 \* the address, and is there a number behind the slash, and which?
  Dotted,        \* how an address is written
  Networks,      \* the sets <<address, port>> that may accept connections
  MaxStarts      \* bound on the starts of a behaviour

ASSUME StartupAssumption ==
  /\ CommandLines \subseteq Seq(Word)
  /\ \A argv \in CommandLines : \A i \in DOMAIN argv :
       argv[i].text = "--config" /\ i < Len(argv) => argv[i + 1].text \in Paths
  /\ \A f \in FirstFiles : FileSystem(f)
  /\ Typed \subseteq Text /\ Rest \in [Typed -> Text]
  /\ Cidr \in [DOMAIN Cidr -> [ip : Address, numeric : BOOLEAN, prefix : Nat]]
  /\ Dotted \in [DOMAIN Dotted -> Text]
  /\ \A n \in Networks : \A x \in n : Reported(x[1]) \in DOMAIN Dotted
  /\ MaxStarts \in Nat

VARIABLES
  files,     \* the configuration files
  network,   \* who accepts connections
  pc,        \* the place in main(), "off" when no process runs
  cmd,       \* cfg, the parsed command line
  settings,  \* settings
  line,      \* what getchar() left of the line typed: <<>> or <<text>>
  devices,   \* the devices found, in any order
  offer,     \* the device it offers to save
  starts     \* number of starts

vars == <<files, network, pc, cmd, settings, line, devices, offer, starts>>

NoOffer == [address |-> <<>>, port |-> 0]

Places == {"off", "load", "ask", "prompt", "save", "write", "run",
           "scan", "found", "offer", "kept", "exit", "abort"}

TypeOK ==
  /\ FileSystem(files)
  /\ pc \in Places
  /\ cmd \in CommandConfig /\ settings \in Settings
  /\ cmd.config_path \in Paths \cup {NoText} /\ settings.config_path \in Paths \cup {NoText}
  /\ line \in Seq(Text) /\ Len(line) <= 1
  /\ devices \subseteq [address : Address, ports : SUBSET Port]
  /\ offer = NoOffer \/ offer \in [address : Address, port : Port]
  /\ starts \in Nat

local == <<settings, line, devices, offer>>

-----------------------------------------------------------------------------
(* The start *)

Init ==
  /\ files \in FirstFiles /\ network \in Networks
  /\ pc = "off"
  /\ cmd = ParseArgs(<<>>) /\ settings = DefaultSettings /\ line = <<>>
  /\ devices = {} /\ offer = NoOffer
  /\ starts = 0

\* parse_args, --help and --scan.
Start(argv) ==
  /\ pc = "off" /\ starts < MaxStarts
  /\ starts' = starts + 1
  /\ cmd' = ParseArgs(argv)
  /\ pc' = CASE "--help" \in cmd'.switches -> "exit"
             [] "--help" \notin cmd'.switches /\ "--scan" \in cmd'.switches -> "scan"
             [] OTHER -> "load"
  /\ UNCHANGED <<files, network, local>>

SubnetThrows(subnet) == subnet \in DOMAIN Cidr /\ ~Cidr[subnet].numeric

\* The process ends, and its memory with it: by itself, or by a signal, an
\* exception or a power failure.
Ended ==
  /\ pc # "off"
  /\ pc' = "off"
  /\ cmd' = ParseArgs(<<>>) /\ settings' = DefaultSettings /\ line' = <<>>
  /\ devices' = {} /\ offer' = NoOffer
  /\ UNCHANGED <<files, network, starts>>

\* std::stoi, or std::stoul in parse_cidr, throws: std::terminate.
Aborts ==
  /\ \/ pc \in {"load", "scan"} /\ LoadThrows(files, cmd.config_path)
     \/ /\ pc = "load" /\ Override(Load(files, cmd.config_path), cmd).host = NoText
        /\ LoadThrows(files, NoText)
     \/ /\ pc = "scan" /\ ~LoadThrows(files, cmd.config_path)
        /\ SubnetThrows(Load(files, cmd.config_path).scan_subnet)
  /\ pc' = "abort"
  /\ UNCHANGED <<files, network, cmd, local, starts>>

\* Mutant: the question is asked whenever these settings have no host.
LoadAsking ==
  /\ pc = "load" /\ ~LoadThrows(files, cmd.config_path)
  /\ settings' = Override(Load(files, cmd.config_path), cmd)
  /\ pc' = IF settings'.host # NoText THEN "run" ELSE "ask"
  /\ UNCHANGED <<files, network, cmd, line, devices, offer, starts>>

\* Load the configuration, let the command line override it.  Without a host the
\* program asks for one, if the default configuration has none either.
LoadConfig ==
  /\ pc = "load" /\ ~LoadThrows(files, cmd.config_path)
  /\ settings' = Override(Load(files, cmd.config_path), cmd)
  /\ \/ settings'.host # NoText /\ pc' = "run"
     \/ /\ settings'.host = NoText /\ ~LoadThrows(files, NoText)
        /\ pc' = IF Load(files, NoText).host = NoText THEN "ask" ELSE "exit"
  /\ UNCHANGED <<files, network, cmd, line, devices, offer, starts>>

-----------------------------------------------------------------------------
(* The question for an address *)

\* std::getchar() before the prompt takes the first character of the line typed:
\* the ENTER of an empty one.  At the end of the input it takes nothing.
TakeCharacter ==
  /\ pc = "ask"
  /\ pc' = "prompt"
  /\ \/ \E t \in Typed : line' = IF t = NoText THEN <<>> ELSE <<Rest[t]>>
     \/ line' = <<NoText>>
  /\ UNCHANGED <<files, network, cmd, settings, devices, offer, starts>>

\* What main() does with the address: it is to be saved in the default place,
\* with the port of the command line.
Answer(ip) ==
  /\ pc' = "save"
  /\ settings' = [settings EXCEPT !.host = ip, !.modbus_port = cmd.modbus_port,
                                  !.config_path = DefaultPath]

\* prompt_ip: the rest of the line, or the next one; NoText at the end of the input.
PromptIp ==
  /\ pc = "prompt"
  /\ \E ip \in IF line = <<>> THEN Typed \cup {NoText} ELSE {line[1]} :
       \/ ip # NoText /\ Answer(ip)
       \/ ip = NoText /\ pc' = "exit" /\ UNCHANGED settings
  /\ line' = <<>>
  /\ UNCHANGED <<files, network, cmd, devices, offer, starts>>

-----------------------------------------------------------------------------
(* save *)

\* Where main() goes on, whatever save() returned.
AfterSave == IF "--scan" \in cmd.switches THEN "kept" ELSE "run"

\* The file is opened and thereby emptied, or save() fails: there is no path, the
\* directory cannot be made (mkdir makes one level) or the file not written.
SaveOpen ==
  /\ pc = "save"
  /\ \/ pc' = AfterSave /\ UNCHANGED files
     \/ /\ settings.config_path # NoText
        /\ files' = [p \in DOMAIN files \cup {settings.config_path} |->
                       IF p = settings.config_path THEN <<>> ELSE files[p]]
        /\ pc' = "write"
  /\ UNCHANGED <<network, cmd, local, starts>>

\* Mutant: every line goes to the disk by itself, and the last may be cut.
SaveWriteInPieces ==
  /\ pc = "write"
  /\ \E n \in 0..Len(Contents(settings)) :
       files' = [files EXCEPT ![settings.config_path] =
         [i \in 1..n |-> IF i < n THEN Contents(settings)[i]
                         ELSE [Contents(settings)[i] EXCEPT !.words = <<>>]]]
  /\ pc' = AfterSave
  /\ UNCHANGED <<network, cmd, local, starts>>

\* The buffer, larger than the file, goes to the disk when the stream is closed.
\* If that fails nobody learns of it.
SaveWrite ==
  /\ pc = "write"
  /\ \/ files' = [files EXCEPT ![settings.config_path] = Contents(settings)]
     \/ UNCHANGED files
  /\ pc' = AfterSave
  /\ UNCHANGED <<network, cmd, local, starts>>

-----------------------------------------------------------------------------
(* --scan *)

\* Without a valid subnet scan() returns no devices.
Dialled(subnet) ==
  IF subnet \in DOMAIN Cidr /\ PrefixOk(Cidr[subnet].prefix)
  THEN DialledAddresses(Cidr[subnet].ip, Prefix(Cidr[subnet].prefix))
  ELSE {}

\* Each port of each host accepts the connection, or refuses it, or lets it time
\* out; a host without an open port is no device.
Found(addresses, ports, answers) ==
  LET open(a) == {p \in ports : <<a, p>> \in answers}
  IN  {[address |-> a, ports |-> open(a)] : a \in {b \in addresses : open(b) # {}}}

Solakons == {d \in devices : Identified(d.ports)}

\* Without ports in the configuration the two of a Solakon are tried.
WithPorts(s) ==
  IF s.scan_ports = <<>> THEN [s EXCEPT !.scan_ports = <<502, 443>>] ELSE s

\* Load the configuration for the subnet and the ports, and scan.
Scan ==
  /\ pc = "scan" /\ ~LoadThrows(files, cmd.config_path)
  /\ settings' = WithPorts(Load(files, cmd.config_path))
  /\ ~SubnetThrows(settings'.scan_subnet)
  /\ \E answers \in SUBSET network :
       devices' = Found(Dialled(settings'.scan_subnet), Range(settings'.scan_ports), answers)
  /\ pc' = "found"
  /\ UNCHANGED <<files, network, cmd, line, offer, starts>>

\* Several Solakons, or none: the program says so and ends.
NoOfferMade ==
  /\ pc = "found" /\ Cardinality(Solakons) # 1
  /\ pc' = "exit"
  /\ UNCHANGED <<files, network, cmd, local, starts>>

\* The ports of a device stand in the order in which they were tried.
FirstPort(d, tried) ==
  {tried[i] : i \in {j \in DOMAIN tried :
     tried[j] \in d.ports /\ \A k \in 1..(j - 1) : tried[k] \notin d.ports}}

\* Exactly one: the program offers to save its address, with the first port of
\* the device that comes first in the order of the strings (any of them here).
MakeOffer ==
  /\ pc = "found" /\ Cardinality(Solakons) = 1
  /\ \E s \in Solakons, d \in devices :
       \E port \in FirstPort(d, settings.scan_ports) :
         offer' = [address |-> s.address, port |-> port]
  /\ pc' = "offer"
  /\ UNCHANGED <<files, network, cmd, settings, line, devices, starts>>

\* ENTER, or the end of the input: save_discovered saves new settings, which have
\* no path.
SaveDiscovered ==
  /\ pc = "offer"
  /\ pc' = "save"
  /\ settings' = [DefaultSettings EXCEPT
                    !.host = Dotted[Reported(offer.address)], !.modbus_port = offer.port]
  /\ UNCHANGED <<files, network, cmd, line, devices, offer, starts>>
-----------------------------------------------------------------------------
Next ==
  \/ \E argv \in CommandLines : Start(argv)
  \/ Ended
  \/ Aborts \/ LoadConfig
  \/ TakeCharacter \/ PromptIp
  \/ SaveOpen \/ SaveWrite
  \/ Scan \/ NoOfferMade \/ MakeOffer \/ SaveDiscovered

Spec == Init /\ [][Next]_vars

-----------------------------------------------------------------------------
(* Properties *)

HostAt(path) == Parse(FileAt(files, path), path).host

\* No start of the program ever takes an address out of a configuration file or
\* changes it: not with --config, not when it is ended between the emptying of
\* the file and the writing, not when the writing fails.
\* (the second load before the question, src/main.cpp:285)
AddressesKept ==
  [][\A p \in Paths : HostAt(p) # NoText => HostAt(p)' = HostAt(p)]_vars

\* A file that can be read is never replaced by one that load() throws on, so an
\* interrupted save cannot keep the program from starting.
\* (save, src/config_loader.cpp:113)
SavedIsReadable ==
  [][\A p \in Paths : ~Throws(FileAt(files, p)) => ~Throws(FileAt(files, p))']_vars

\* If the answer to the question was written, then the same command line without
\* --config leads to the same settings at the next start, without a question.
\* (save and load, default_path and the search order, src/config_loader.cpp:28)
AnswerIsRemembered ==
  /\ pc = "run" /\ cmd.host = NoText /\ cmd.config_path = NoText
  /\ HostAt(DefaultPath) # NoText
  => /\ ~LoadThrows(files, NoText)
     /\ Override(Load(files, NoText), cmd) = settings

\* What is offered is the address, with its octets in reverse, of a device that
\* accepts connections and that belongs to the subnet.
\* (scan, src/network_scanner.cpp:100)
OffersNeighbour ==
  pc = "offer" =>
    /\ \E p \in {502, 443} : <<offer.address, p>> \in network
    /\ LET subnet == Cidr[settings.scan_subnet]
       IN  InSubnet(offer.address, subnet.ip, Prefix(subnet.prefix))

\* After the scan the address of the device is saved to the configuration that
\* was loaded.  (save_discovered, src/main.cpp:181)
SavesDiscovered ==
  pc = "save" /\ "--scan" \in cmd.switches =>
    /\ settings.config_path = LoadPath(files, cmd.config_path)
    /\ settings.host = Dotted[offer.address]
===============================================================================
