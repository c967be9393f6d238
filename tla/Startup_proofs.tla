---------------------------- MODULE Startup_proofs ----------------------------
(***************************************************************************)
(* Proofs about Startup, for every set of command lines, files and         *)
(* networks.  From the question to the end of the save, the file that is   *)
(* written is the default one and was found to have no address; after a    *)
(* scan nothing is written, as there is no path, and what was found comes  *)
(* from the subnet that was scanned.                                       *)
(***************************************************************************)
EXTENDS Startup, SubnetScan_proofs, TLAPS

Scanning == "--scan" \in cmd.switches

Types == TypeOK /\ network \in Networks

\* The command line has been applied to the settings, the port aside.
RateApplied == cmd.refresh_hz # 1 => settings.refresh_hz = cmd.refresh_hz

WhereScanning ==
  /\ pc \in {"scan", "found", "offer"} => Scanning
  /\ pc \in {"load", "ask", "prompt"} => ~Scanning

Asking ==
  pc \in {"ask", "prompt"} => HostAt(DefaultPath) = NoText /\ RateApplied

Saving ==
  pc \in {"save", "write"} =>
    IF Scanning
    THEN pc = "save" /\ settings.config_path = NoText
    ELSE /\ settings.config_path = DefaultPath
         /\ HostAt(DefaultPath) = NoText
         /\ pc = "write" => DefaultPath \in DOMAIN files
         /\ settings.modbus_port = cmd.modbus_port /\ RateApplied

\* What was found accepts connections and was dialled, and so was what is offered.
Answers(d) ==
  /\ d.address \in Dialled(settings.scan_subnet)
  /\ \A p \in d.ports : <<d.address, p>> \in network

Finding ==
  /\ pc \in {"found", "offer"} => \A d \in devices : Answers(d)
  /\ pc = "offer" =>
       /\ offer \in [address : Address, port : Port]
       /\ \E d \in devices : d.address = offer.address /\ Identified(d.ports)

IInv == Types /\ WhereScanning /\ Asking /\ Saving /\ Finding

-----------------------------------------------------------------------------
(* Lemmas about files *)

LEMMA Texts ==
  /\ NoText \in Text /\ "number" \in Text /\ "solakon" \in Text /\ "192.168.178.0/24" \in Text
  /\ Keys \subseteq Text /\ Paths \subseteq Text
BY PathAssumption DEF PathAssumption

LEMMA DefaultPathKnown == DefaultPath \in Paths /\ DefaultPath # NoText
BY PathAssumption DEF PathAssumption, DefaultPath

LEMMA LastOfNone ==
  ASSUME NEW f, NEW d, DOMAIN f = {} PROVE LastOf(f, d) = d
BY DEF LastOf

LEMMA LastOfIn ==
  ASSUME NEW S, NEW f, NEW d \in S, \A i \in DOMAIN f : f[i] \in S
  PROVE  LastOf(f, d) \in S
BY DEF LastOf

LEMMA LastOfOne ==
  ASSUME NEW k \in Int, NEW f, NEW d, DOMAIN f = {k} PROVE LastOf(f, d) = f[k]
<1>1. {j \in DOMAIN f : \A n \in DOMAIN f : n <= j} = {k}
  OBVIOUS
<1>2. {f[i] : i \in {j \in DOMAIN f : \A n \in DOMAIN f : n <= j}} = {f[k]}
  BY <1>1
<1> QED  BY <1>2 DEF LastOf

LEMMA EmptyFile ==
  /\ <<>> \in File
  /\ \A p : Parse(<<>>, p).host = NoText
  /\ ~Throws(<<>>)
<1>1. DOMAIN <<>> = {}
  OBVIOUS
<1>2. \A key : Assigns(<<>>, key) = {}
  BY <1>1 DEF Assigns
<1>3. ASSUME NEW p PROVE Parse(<<>>, p).host = NoText
  <2> DEFINE f == [i \in Assigns(<<>>, "ip") |-> First(<<>>[i].words).text]
  <2>1. Parse(<<>>, p).host = LastOf(f, DefaultSettings.host)
    BY DEF Parse
  <2>2. DOMAIN f = {}
    BY <1>2
  <2>3. DefaultSettings.host = NoText
    BY DEF DefaultSettings
  <2> HIDE DEF f
  <2> QED  BY <2>1, <2>2, <2>3, LastOfNone
<1>4. ~Throws(<<>>)
  BY <1>2 DEF Throws
<1>5. <<>> \in File
  BY DEF File
<1> QED  BY <1>3, <1>4, <1>5

\* The address of a file does not depend on the path it is found at.
LEMMA HostOfFile ==
  \A file, p, q : Parse(file, p).host = Parse(file, q).host
BY DEF Parse

\* The second load has no address only if the default file has none.
LEMMA DefaultIsLoaded ==
  ASSUME Load(files, NoText).host = NoText PROVE HostAt(DefaultPath) = NoText
<1>1. CASE DefaultPath \in DOMAIN files
  <2>1. LoadPath(files, NoText) = DefaultPath
    BY <1>1 DEF LoadPath, DefaultPath
  <2> QED  BY <2>1 DEF Load, HostAt
<1>2. CASE DefaultPath \notin DOMAIN files
  BY <1>2, EmptyFile DEF HostAt, FileAt
<1> QED  BY <1>1, <1>2

-----------------------------------------------------------------------------
(* Types of what load(), the command line and save() make *)

LEMMA FirstIsWord ==
  ASSUME NEW words \in Seq(Word) PROVE First(words) \in Word
<1>1. TextWord(NoText) \in Word
  BY Texts DEF TextWord, Word
<1>2. words # <<>> => words[1] \in Word
  OBVIOUS
<1> QED  BY <1>1, <1>2 DEF First

LEMMA WordParts ==
  ASSUME NEW w \in Word PROVE w.text \in Text /\ w.num \in Int /\ w.num % 65536 \in Port
<1>1. w.text \in Text /\ w.num \in Int
  BY DEF Word
<1>2. \A n \in Int : n % 65536 \in Nat /\ n % 65536 < 65536
  OBVIOUS
<1> QED  BY <1>1, <1>2 DEF Port

LEMMA LineParts ==
  ASSUME NEW file \in File, NEW i \in DOMAIN file
  PROVE  file[i].words \in Seq(Word) /\ First(file[i].words) \in Word
<1>1. file[i] \in Line
  BY DEF File
<1>2. file[i].words \in Seq(Word)
  BY <1>1 DEF Line
<1> QED  BY <1>2, FirstIsWord

LEMMA ParseTypes ==
  ASSUME NEW file \in File, NEW path \in Text
  PROVE  Parse(file, path) \in Settings
<1> DEFINE D == DefaultSettings
           texts(key)   == [i \in Assigns(file, key) |-> First(file[i].words).text]
           numbers(key) == [i \in Assigns(file, key) |-> First(file[i].words).num]
           ports(key)   == [i \in Assigns(file, key) |-> First(file[i].words).num % 65536]
           lists(key)   == [i \in Assigns(file, key) |->
                             [j \in DOMAIN file[i].words |-> file[i].words[j].num % 65536]]
<1>1. \A key : Assigns(file, key) \subseteq DOMAIN file
  BY DEF Assigns
<1>2. DefaultSettings \in Settings
  <2>1. <<502, 443>> \in Seq(Port) /\ 502 \in Port /\ 443 \in Port
    BY DEF Port
  <2> QED  BY <2>1, Texts DEF DefaultSettings, Settings
<1>3. ASSUME NEW key, NEW d \in Text PROVE LastOf(texts(key), d) \in Text
  <2> DEFINE f == texts(key)
  <2>1. \A i \in DOMAIN f : f[i] \in Text
    BY <1>1, LineParts, WordParts
  <2> HIDE DEF f
  <2>2. LastOf(f, d) \in Text
    BY <2>1, LastOfIn
  <2> QED  BY <2>2 DEF f
<1>4. ASSUME NEW key, NEW d \in Int PROVE LastOf(numbers(key), d) \in Int
  <2> DEFINE f == numbers(key)
  <2>1. \A i \in DOMAIN f : f[i] \in Int
    BY <1>1, LineParts, WordParts
  <2> HIDE DEF f
  <2>2. LastOf(f, d) \in Int
    BY <2>1, LastOfIn
  <2> QED  BY <2>2 DEF f
<1>5. ASSUME NEW key, NEW d \in Port PROVE LastOf(ports(key), d) \in Port
  <2> DEFINE f == ports(key)
  <2>1. \A i \in DOMAIN f : f[i] \in Port
    BY <1>1, LineParts, WordParts
  <2> HIDE DEF f
  <2>2. LastOf(f, d) \in Port
    BY <2>1, LastOfIn
  <2> QED  BY <2>2 DEF f
<1>6. ASSUME NEW key, NEW d \in Seq(Port) PROVE LastOf(lists(key), d) \in Seq(Port)
  <2> DEFINE f == lists(key)
  <2>1. ASSUME NEW i \in DOMAIN f PROVE f[i] \in Seq(Port)
    <3>1. file[i].words \in Seq(Word)
      BY <1>1, LineParts
    <3>2. \A j \in DOMAIN file[i].words : file[i].words[j].num % 65536 \in Port
      BY <3>1, WordParts
    <3>3. DOMAIN file[i].words = 1..Len(file[i].words) /\ Len(file[i].words) \in Nat
      BY <3>1
    <3> QED  BY <3>2, <3>3
  <2> HIDE DEF f
  <2>2. LastOf(f, d) \in Seq(Port)
    BY <2>1, LastOfIn
  <2> QED  BY <2>2 DEF f
<1>7. /\ D.host \in Text /\ D.scan_subnet \in Text /\ D.refresh_hz \in Int
      /\ D.modbus_port \in Port /\ D.https_port \in Port /\ D.scan_ports \in Seq(Port)
  BY <1>2 DEF Settings
<1>8. Parse(file, path) =
        [host |-> LastOf(texts("ip"), D.host),
         modbus_port |-> LastOf(ports("modbus_port"), D.modbus_port),
         https_port |-> LastOf(ports("https_port"), D.https_port),
         refresh_hz |-> LastOf(numbers("refresh_hz"), D.refresh_hz),
         scan_subnet |-> LastOf(texts("scan_subnet"), D.scan_subnet),
         scan_ports |-> LastOf(lists("scan_ports"), D.scan_ports),
         config_path |-> path]
  BY DEF Parse
<1> HIDE DEF texts, numbers, ports, lists, D
<1>9. /\ LastOf(texts("ip"), D.host) \in Text
      /\ LastOf(ports("modbus_port"), D.modbus_port) \in Port
      /\ LastOf(ports("https_port"), D.https_port) \in Port
      /\ LastOf(numbers("refresh_hz"), D.refresh_hz) \in Int
      /\ LastOf(texts("scan_subnet"), D.scan_subnet) \in Text
      /\ LastOf(lists("scan_ports"), D.scan_ports) \in Seq(Port)
  BY <1>3, <1>4, <1>5, <1>6, <1>7
<1> QED  BY <1>8, <1>9 DEF Settings

LEMMA ArgTypes ==
  ASSUME NEW w \in Word
  PROVE  /\ Atoi(w) \in Int
         /\ PortArg(Atoi(w)) \in Port
         /\ HzArg(Atoi(w)) \in Nat
         /\ ServerPortArg(Atoi(w)) \in Nat
<1> DEFINE n == Atoi(w)
<1>1. n \in Int
  BY WordParts DEF Atoi
<1> HIDE DEF n
<1>2. n % 65536 \in Nat /\ n % 65536 < 65536
  BY <1>1
<1>3. PortArg(n) \in Port
  BY <1>2 DEF PortArg, Port
<1>4. HzArg(n) \in Nat
  BY <1>1 DEF HzArg
<1>5. ServerPortArg(n) \in Nat
  BY <1>1 DEF ServerPortArg
<1> QED  BY <1>1, <1>3, <1>4, <1>5 DEF n

LEMMA ArgRanges ==
  ASSUME NEW w \in Word
  PROVE  /\ PortArg(Atoi(w)) \in {n \in Nat : 1 <= n /\ n < 65536}
         /\ HzArg(Atoi(w)) \in {n \in Nat : 1 <= n /\ n <= 60}
         /\ ServerPortArg(Atoi(w)) \in {n \in Nat : 1 <= n /\ n < 65536}
<1> DEFINE n == Atoi(w)
<1>1. n \in Int
  BY WordParts DEF Atoi
<1> HIDE DEF n
<1>2. n % 65536 \in Nat /\ n % 65536 < 65536
  BY <1>1
<1>3. PortArg(n) \in Nat /\ 1 <= PortArg(n) /\ PortArg(n) < 65536
  BY <1>2 DEF PortArg
<1>4. HzArg(n) \in Nat /\ 1 <= HzArg(n) /\ HzArg(n) <= 60
  BY <1>1 DEF HzArg
<1>5. ServerPortArg(n) \in Nat /\ 1 <= ServerPortArg(n) /\ ServerPortArg(n) < 65536
  BY <1>1 DEF ServerPortArg
<1> QED  BY <1>3, <1>4, <1>5 DEF n

\* Whatever the arguments are, no port is 0, and the rate is one the loops can divide
\* a second by.  (parse_args, src/main.cpp:123-164)
THEOREM ArgumentsInRange ==
  ASSUME NEW argv \in Seq(Word)
  PROVE  LET c == ParseArgs(argv)
         IN  /\ 1 <= c.modbus_port /\ c.modbus_port < 65536
             /\ 1 <= c.refresh_hz /\ c.refresh_hz <= 60
             /\ 1 <= c.server_port /\ c.server_port < 65536
<1> DEFINE taking(name) == {i \in Turns(argv) : argv[i].text = name /\ TakesNext(argv, i)}
           number(i)    == Atoi(argv[i + 1])
           ports        == [i \in taking("--port") |-> PortArg(number(i))]
           rates        == [i \in taking("--interval") |-> HzArg(number(i))]
           servers      == [i \in taking("--server") |-> ServerPortArg(number(i))]
           PortRange    == {n \in Nat : 1 <= n /\ n < 65536}
           RateRange    == {n \in Nat : 1 <= n /\ n <= 60}
<1>1. ASSUME NEW name, NEW i \in taking(name) PROVE argv[i + 1] \in Word
  <2>1. i + 1 \in 1..Len(argv)
    BY DEF Turns, TakesNext
  <2> QED  BY <2>1
<1>2. LastOf(ports, 502) \in PortRange
  <2>1. \A i \in DOMAIN ports : ports[i] \in PortRange
    BY <1>1, ArgRanges
  <2>2. 502 \in PortRange
    OBVIOUS
  <2> HIDE DEF ports, PortRange
  <2> QED  BY <2>1, <2>2, LastOfIn
<1>3. LastOf(rates, 1) \in RateRange
  <2>1. \A i \in DOMAIN rates : rates[i] \in RateRange
    BY <1>1, ArgRanges
  <2>2. 1 \in RateRange
    OBVIOUS
  <2> HIDE DEF rates, RateRange
  <2> QED  BY <2>1, <2>2, LastOfIn
<1>4. LastOf(servers, 8080) \in PortRange
  <2>1. \A i \in DOMAIN servers : servers[i] \in PortRange
    BY <1>1, ArgRanges
  <2>2. 8080 \in PortRange
    OBVIOUS
  <2> HIDE DEF servers, PortRange
  <2> QED  BY <2>1, <2>2, LastOfIn
<1>5. /\ ParseArgs(argv).modbus_port = LastOf(ports, 502)
      /\ ParseArgs(argv).refresh_hz = LastOf(rates, 1)
      /\ ParseArgs(argv).server_port = LastOf(servers, 8080)
  BY DEF ParseArgs
<1> HIDE DEF taking, number, ports, rates, servers
<1> QED  BY <1>2, <1>3, <1>4, <1>5

LEMMA ParseArgsTypes ==
  ASSUME NEW argv \in Seq(Word) PROVE ParseArgs(argv) \in CommandConfig
<1> DEFINE turns        == Turns(argv)
           taking(name) == {i \in turns : argv[i].text = name /\ TakesNext(argv, i)}
           texts(name)  == [i \in taking(name) |-> argv[i + 1].text]
           number(i)    == Atoi(argv[i + 1])
           hosts        == [i \in {j \in turns : ~argv[j].dash} |-> argv[i].text]
           ports        == [i \in taking("--port") |-> PortArg(number(i))]
           rates        == [i \in taking("--interval") |-> HzArg(number(i))]
           servers      == [i \in taking("--server") |-> ServerPortArg(number(i))]
           options      == {s \in Switches : \E i \in turns : argv[i].text = s}
<1>1. turns \subseteq DOMAIN argv
  BY DEF Turns
<1>2. DOMAIN argv = 1..Len(argv) /\ Len(argv) \in Nat
  OBVIOUS
<1>3. ASSUME NEW i \in turns PROVE argv[i].text \in Text
  BY <1>1, WordParts
<1>4. ASSUME NEW name, NEW i \in taking(name) PROVE argv[i + 1] \in Word
  <2>1. i \in 1..Len(argv) /\ i < Len(argv)
    BY <1>1, <1>2 DEF TakesNext
  <2>2. i + 1 \in 1..Len(argv)
    BY <2>1, <1>2
  <2> QED  BY <2>2
<1>5. LastOf(hosts, NoText) \in Text
  <2>1. \A i \in DOMAIN hosts : hosts[i] \in Text
    BY <1>3
  <2> HIDE DEF hosts
  <2> QED  BY <2>1, LastOfIn, Texts
<1>6. LastOf(texts("--config"), NoText) \in Text
  <2> DEFINE f == texts("--config")
  <2>1. \A i \in DOMAIN f : f[i] \in Text
    BY <1>4, WordParts
  <2> HIDE DEF f
  <2>2. LastOf(f, NoText) \in Text
    BY <2>1, LastOfIn, Texts
  <2> QED  BY <2>2 DEF f
<1>7. LastOf(ports, 502) \in Port
  <2>1. \A i \in DOMAIN ports : ports[i] \in Port
    BY <1>4, ArgTypes
  <2>2. 502 \in Port
    BY DEF Port
  <2> HIDE DEF ports
  <2> QED  BY <2>1, <2>2, LastOfIn
<1>8. LastOf(rates, 1) \in Nat
  <2>1. \A i \in DOMAIN rates : rates[i] \in Nat
    BY <1>4, ArgTypes
  <2> HIDE DEF rates
  <2> QED  BY <2>1, LastOfIn
<1>9. LastOf(servers, 8080) \in Nat
  <2>1. \A i \in DOMAIN servers : servers[i] \in Nat
    BY <1>4, ArgTypes
  <2> HIDE DEF servers
  <2>2. \A d \in Nat : LastOf(servers, d) \in Nat
    BY <2>1, LastOfIn
  <2> QED  BY <2>2
<1>10. options \in SUBSET Switches
  OBVIOUS
<1>11. ParseArgs(argv) =
         [host |-> LastOf(hosts, NoText), config_path |-> LastOf(texts("--config"), NoText),
          modbus_port |-> LastOf(ports, 502), refresh_hz |-> LastOf(rates, 1),
          server_port |-> LastOf(servers, 8080), switches |-> options]
  BY DEF ParseArgs
<1> HIDE DEF turns, taking, texts, number, hosts, ports, rates, servers, options
<1> QED  BY <1>5, <1>6, <1>7, <1>8, <1>9, <1>10, <1>11 DEF CommandConfig

\* The program is told a path it knows, or none.
Known(path) == path \in Paths \cup {NoText}

LEMMA ParseArgsPath ==
  ASSUME NEW argv \in CommandLines \cup {<<>>} PROVE Known(ParseArgs(argv).config_path)
<1> DEFINE taking == {i \in Turns(argv) : argv[i].text = "--config" /\ TakesNext(argv, i)}
           f      == [i \in taking |-> argv[i + 1].text]
<1>1. ParseArgs(argv).config_path = LastOf(f, NoText)
  BY DEF ParseArgs
<1>2. ASSUME NEW i \in taking PROVE argv[i + 1].text \in Paths
  <2>1. i \in DOMAIN argv /\ argv[i].text = "--config" /\ i < Len(argv)
    BY DEF Turns, TakesNext
  <2>2. argv # <<>>
    BY <2>1
  <2> QED  BY <2>1, <2>2, StartupAssumption DEF StartupAssumption
<1>3. \A i \in DOMAIN f : f[i] \in Paths \cup {NoText}
  BY <1>2
<1> HIDE DEF f
<1>4. LastOf(f, NoText) \in Paths \cup {NoText}
  BY <1>3, LastOfIn
<1> QED  BY <1>1, <1>4 DEF Known

LEMMA LoadedPath ==
  ASSUME NEW fs, NEW path, Known(path)
  PROVE  Known(LoadPath(fs, path)) /\ Load(fs, path).config_path = LoadPath(fs, path)
<1>1. Known(LoadPath(fs, path))
  BY PathAssumption DEF PathAssumption, Known, LoadPath
<1>2. Load(fs, path).config_path = LoadPath(fs, path)
  BY DEF Load, Parse
<1> QED  BY <1>1, <1>2

LEMMA OverrideTypes ==
  ASSUME NEW s \in Settings, NEW c \in CommandConfig
  PROVE  /\ Override(s, c) \in Settings
         /\ Override(s, c).config_path = s.config_path
         /\ c.refresh_hz # 1 => Override(s, c).refresh_hz = c.refresh_hz
<1>1. c.host \in Text /\ c.modbus_port \in Port /\ c.refresh_hz \in Int
  BY DEF CommandConfig
<1> QED  BY <1>1 DEF Override, Settings

-----------------------------------------------------------------------------
(* What save() writes, load() reads *)

Row(key, words) == [section |-> "solakon", key |-> key, words |-> words]

LEMMA ContentsRows ==
  ASSUME NEW s
  PROVE  /\ DOMAIN Contents(s) = 1..6
         /\ Contents(s)[1] = Row("ip", <<TextWord(s.host)>>)
         /\ Contents(s)[2] = Row("modbus_port", <<NumWord(s.modbus_port)>>)
         /\ Contents(s)[3] = Row("https_port", <<NumWord(s.https_port)>>)
         /\ Contents(s)[4] = Row("refresh_hz", <<NumWord(s.refresh_hz)>>)
         /\ Contents(s)[5] = Row("scan_subnet", <<TextWord(s.scan_subnet)>>)
         /\ Contents(s)[6] = Row("scan_ports",
                                 [i \in DOMAIN s.scan_ports |-> NumWord(s.scan_ports[i])])
BY DEF Contents, Row

LEMMA ContentsKeys ==
  ASSUME NEW s
  PROVE  /\ \A i \in 1..6 : Contents(s)[i].section = "solakon"
         /\ Contents(s)[1].key = "ip" /\ Contents(s)[2].key = "modbus_port"
         /\ Contents(s)[3].key = "https_port" /\ Contents(s)[4].key = "refresh_hz"
         /\ Contents(s)[5].key = "scan_subnet" /\ Contents(s)[6].key = "scan_ports"
BY DEF Contents

LEMMA ContentsAssigns ==
  ASSUME NEW s
  PROVE  /\ Assigns(Contents(s), "ip") = {1}
         /\ Assigns(Contents(s), "modbus_port") = {2}
         /\ Assigns(Contents(s), "https_port") = {3}
         /\ Assigns(Contents(s), "refresh_hz") = {4}
         /\ Assigns(Contents(s), "scan_subnet") = {5}
         /\ Assigns(Contents(s), "scan_ports") = {6}
<1> DEFINE c == Contents(s)
<1>1. /\ \A i \in 1..6 : c[i].section = "solakon"
      /\ c[1].key = "ip" /\ c[2].key = "modbus_port" /\ c[3].key = "https_port"
      /\ c[4].key = "refresh_hz" /\ c[5].key = "scan_subnet" /\ c[6].key = "scan_ports"
  BY ContentsKeys
<1>2. DOMAIN c = 1..6
  BY ContentsRows
<1> HIDE DEF c
<1>3. \A i \in 1..6 : i = 1 \/ i = 2 \/ i = 3 \/ i = 4 \/ i = 5 \/ i = 6
  OBVIOUS
<1>4. /\ Assigns(c, "ip") = {1} /\ Assigns(c, "modbus_port") = {2}
      /\ Assigns(c, "https_port") = {3}
  BY <1>1, <1>2, <1>3 DEF Assigns
<1>5. /\ Assigns(c, "refresh_hz") = {4} /\ Assigns(c, "scan_subnet") = {5}
      /\ Assigns(c, "scan_ports") = {6}
  BY <1>1, <1>2, <1>3 DEF Assigns
<1> QED  BY <1>4, <1>5 DEF c

LEMMA FirstOfOne ==
  ASSUME NEW w PROVE First(<<w>>) = w
BY DEF First

LEMMA WordsWritten ==
  /\ \A n : NumWord(n).num = n /\ NumWord(n).numeric
  /\ \A x : TextWord(x).text = x
BY DEF NumWord, TextWord

LEMMA FirstWritten ==
  ASSUME NEW s
  PROVE  /\ First(Contents(s)[1].words) = TextWord(s.host)
         /\ First(Contents(s)[2].words) = NumWord(s.modbus_port)
         /\ First(Contents(s)[3].words) = NumWord(s.https_port)
         /\ First(Contents(s)[4].words) = NumWord(s.refresh_hz)
         /\ First(Contents(s)[5].words) = TextWord(s.scan_subnet)
         /\ Contents(s)[6].words = [i \in DOMAIN s.scan_ports |-> NumWord(s.scan_ports[i])]
<1>1. /\ Contents(s)[1].words = <<TextWord(s.host)>>
      /\ Contents(s)[2].words = <<NumWord(s.modbus_port)>>
      /\ Contents(s)[3].words = <<NumWord(s.https_port)>>
      /\ Contents(s)[4].words = <<NumWord(s.refresh_hz)>>
      /\ Contents(s)[5].words = <<TextWord(s.scan_subnet)>>
      /\ Contents(s)[6].words = [i \in DOMAIN s.scan_ports |-> NumWord(s.scan_ports[i])]
  BY DEF Contents
<1> QED  BY <1>1, FirstOfOne

LEMMA WrittenDoesNotThrow ==
  ASSUME NEW s PROVE ~Throws(Contents(s))
<1>1. ASSUME NEW k \in NumberKeys, NEW i \in Assigns(Contents(s), k)
      PROVE  First(Contents(s)[i].words).numeric
  <2>1. i = 2 \/ i = 3 \/ i = 4
    BY <1>1, ContentsAssigns DEF NumberKeys
  <2>2. /\ First(Contents(s)[2].words) = NumWord(s.modbus_port)
        /\ First(Contents(s)[3].words) = NumWord(s.https_port)
        /\ First(Contents(s)[4].words) = NumWord(s.refresh_hz)
    BY FirstWritten
  <2>3. \E n : First(Contents(s)[i].words) = NumWord(n)
    BY <2>1, <2>2
  <2> QED  BY <2>3, WordsWritten, Zenon
<1>2. ASSUME NEW i \in Assigns(Contents(s), "scan_ports"),
             NEW j \in DOMAIN Contents(s)[i].words
      PROVE  Contents(s)[i].words[j].numeric
  <2>1. i = 6
    BY <1>2, ContentsAssigns
  <2> DEFINE w == Contents(s)[6].words
  <2>2. w = [n \in DOMAIN s.scan_ports |-> NumWord(s.scan_ports[n])] /\ j \in DOMAIN w
    BY <1>2, <2>1, FirstWritten
  <2> HIDE DEF w
  <2>3. w[j] = NumWord(s.scan_ports[j])
    BY <2>2
  <2> QED  BY <2>1, <2>3, WordsWritten DEF w
<1> QED  BY <1>1, <1>2 DEF Throws

\* What a saved file gives is what was saved.
LEMMA WrittenIsRead ==
  ASSUME NEW s \in Settings PROVE Parse(Contents(s), s.config_path) = s
<1> DEFINE c == Contents(s)
           texts(key)   == [i \in Assigns(c, key) |-> First(c[i].words).text]
           numbers(key) == [i \in Assigns(c, key) |-> First(c[i].words).num]
           ports(key)   == [i \in Assigns(c, key) |-> First(c[i].words).num % 65536]
           lists(key)   == [i \in Assigns(c, key) |->
                             [j \in DOMAIN c[i].words |-> c[i].words[j].num % 65536]]
           D == DefaultSettings
<1>1. \A n \in Port : n % 65536 = n
  BY DEF Port
<1>2. s.modbus_port \in Port /\ s.https_port \in Port /\ s.scan_ports \in Seq(Port)
  BY DEF Settings
<1>3. \A d : LastOf(texts("ip"), d) = s.host
  <2> DEFINE f == texts("ip")
  <2>1. DOMAIN f = {1} /\ f[1] = s.host
    BY ContentsAssigns, FirstWritten, WordsWritten
  <2> HIDE DEF f
  <2>2. \A d : LastOf(f, d) = s.host
    BY <2>1, LastOfOne
  <2> QED  BY <2>2 DEF f
<1>4. \A d : LastOf(texts("scan_subnet"), d) = s.scan_subnet
  <2> DEFINE f == texts("scan_subnet")
  <2>1. DOMAIN f = {5} /\ f[5] = s.scan_subnet
    BY ContentsAssigns, FirstWritten, WordsWritten
  <2> HIDE DEF f
  <2>2. \A d : LastOf(f, d) = s.scan_subnet
    BY <2>1, LastOfOne
  <2> QED  BY <2>2 DEF f
<1>5. \A d : LastOf(numbers("refresh_hz"), d) = s.refresh_hz
  <2> DEFINE f == numbers("refresh_hz")
  <2>1. DOMAIN f = {4} /\ f[4] = s.refresh_hz
    BY ContentsAssigns, FirstWritten, WordsWritten
  <2> HIDE DEF f
  <2>2. \A d : LastOf(f, d) = s.refresh_hz
    BY <2>1, LastOfOne
  <2> QED  BY <2>2 DEF f
<1>6. \A d : LastOf(ports("modbus_port"), d) = s.modbus_port
  <2> DEFINE f == ports("modbus_port")
  <2>1. f[2] = First(c[2].words).num % 65536
    BY ContentsAssigns
  <2>1a. DOMAIN f = {2}
    BY ContentsAssigns
  <2>2. First(c[2].words).num = s.modbus_port
    BY FirstWritten, WordsWritten
  <2> HIDE DEF c, f
  <2>3. f[2] = s.modbus_port
    BY <1>1, <1>2, <2>1, <2>2
  <2>4. \A d : LastOf(f, d) = f[2]
    BY <2>1a, LastOfOne
  <2> QED  BY <2>3, <2>4 DEF f
<1>7. \A d : LastOf(ports("https_port"), d) = s.https_port
  <2> DEFINE f == ports("https_port")
  <2>1. f[3] = First(c[3].words).num % 65536
    BY ContentsAssigns
  <2>1a. DOMAIN f = {3}
    BY ContentsAssigns
  <2>2. First(c[3].words).num = s.https_port
    BY FirstWritten, WordsWritten
  <2> HIDE DEF c, f
  <2>3. f[3] = s.https_port
    BY <1>1, <1>2, <2>1, <2>2
  <2>4. \A d : LastOf(f, d) = f[3]
    BY <2>1a, LastOfOne
  <2> QED  BY <2>3, <2>4 DEF f
<1>8. \A d : LastOf(lists("scan_ports"), d) = s.scan_ports
  <2> DEFINE f == lists("scan_ports")
             w == c[6].words
  <2>1. DOMAIN f = {6} /\ f[6] = [j \in DOMAIN w |-> w[j].num % 65536]
    BY ContentsAssigns
  <2>2. w = [i \in DOMAIN s.scan_ports |-> NumWord(s.scan_ports[i])]
    BY FirstWritten
  <2> HIDE DEF c, f, w
  <2>3. DOMAIN w = DOMAIN s.scan_ports
    BY <2>2
  <2>4. \A j \in DOMAIN w : w[j] = NumWord(s.scan_ports[j])
    BY <2>2
  <2>5. \A j \in DOMAIN w : w[j].num = s.scan_ports[j]
    BY <2>4, WordsWritten
  <2>6. \A j \in DOMAIN s.scan_ports : s.scan_ports[j] % 65536 = s.scan_ports[j]
    BY <1>1, <1>2
  <2>7. [j \in DOMAIN w |-> w[j].num % 65536] = [j \in DOMAIN s.scan_ports |-> s.scan_ports[j]]
    BY <2>3, <2>5, <2>6
  <2>8. [j \in DOMAIN s.scan_ports |-> s.scan_ports[j]] = s.scan_ports
    BY <1>2
  <2>9. \A d : LastOf(f, d) = s.scan_ports
    BY <2>1, <2>7, <2>8, LastOfOne
  <2> QED  BY <2>9 DEF f
<1>9. Parse(c, s.config_path) =
        [host |-> LastOf(texts("ip"), D.host),
         modbus_port |-> LastOf(ports("modbus_port"), D.modbus_port),
         https_port |-> LastOf(ports("https_port"), D.https_port),
         refresh_hz |-> LastOf(numbers("refresh_hz"), D.refresh_hz),
         scan_subnet |-> LastOf(texts("scan_subnet"), D.scan_subnet),
         scan_ports |-> LastOf(lists("scan_ports"), D.scan_ports),
         config_path |-> s.config_path]
  BY DEF Parse
<1> HIDE DEF texts, numbers, ports, lists, D
<1>10. Parse(c, s.config_path) =
         [host |-> s.host, modbus_port |-> s.modbus_port, https_port |-> s.https_port,
          refresh_hz |-> s.refresh_hz, scan_subnet |-> s.scan_subnet,
          scan_ports |-> s.scan_ports, config_path |-> s.config_path]
  BY <1>3, <1>4, <1>5, <1>6, <1>7, <1>8, <1>9
<1> QED  BY <1>10 DEF Settings

\* Every setting survives a save and the load after it: load() does not throw on what
\* save() wrote, and reads back the very settings.  (The texts are those a Settings can
\* hold: load() leaves no blanks around them, and a typed address is taken to have none.)
\* (save, src/config_loader.cpp:113-136)
THEOREM SavedIsLoaded ==
  ASSUME NEW s \in Settings
  PROVE  ~Throws(Contents(s)) /\ Parse(Contents(s), s.config_path) = s
BY WrittenDoesNotThrow, WrittenIsRead

LEMMA WrittenIsFile ==
  ASSUME NEW s \in Settings PROVE Contents(s) \in File
<1>1. ASSUME NEW n \in Int PROVE NumWord(n) \in Word
  BY Texts DEF NumWord, Word
<1>2. ASSUME NEW x \in Text PROVE TextWord(x) \in Word
  BY DEF TextWord, Word
<1>3. ASSUME NEW key \in Keys, NEW words \in Seq(Word) PROVE Row(key, words) \in Line
  BY Texts DEF Row, Line
<1>4. /\ s.host \in Text /\ s.scan_subnet \in Text /\ s.refresh_hz \in Int
      /\ s.modbus_port \in Int /\ s.https_port \in Int /\ s.scan_ports \in Seq(Port)
  BY DEF Settings, Port
<1>5. [i \in DOMAIN s.scan_ports |-> NumWord(s.scan_ports[i])] \in Seq(Word)
  <2>1. \A i \in DOMAIN s.scan_ports : s.scan_ports[i] \in Int
    BY <1>4 DEF Port
  <2>2. \A i \in DOMAIN s.scan_ports : NumWord(s.scan_ports[i]) \in Word
    BY <1>1, <2>1
  <2>3. DOMAIN s.scan_ports = 1..Len(s.scan_ports) /\ Len(s.scan_ports) \in Nat
    BY <1>4
  <2> QED  BY <2>2, <2>3
<1>6. /\ <<TextWord(s.host)>> \in Seq(Word) /\ <<NumWord(s.modbus_port)>> \in Seq(Word)
      /\ <<NumWord(s.https_port)>> \in Seq(Word) /\ <<NumWord(s.refresh_hz)>> \in Seq(Word)
      /\ <<TextWord(s.scan_subnet)>> \in Seq(Word)
  BY <1>1, <1>2, <1>4
<1>7. \A i \in 1..6 : Contents(s)[i] \in Line
  <2>1. /\ Contents(s)[1] \in Line /\ Contents(s)[2] \in Line /\ Contents(s)[3] \in Line
    BY <1>3, <1>6, ContentsRows DEF Keys, NumberKeys
  <2>2. /\ Contents(s)[4] \in Line /\ Contents(s)[5] \in Line /\ Contents(s)[6] \in Line
    BY <1>3, <1>5, <1>6, ContentsRows DEF Keys, NumberKeys
  <2>3. \A i \in 1..6 : i = 1 \/ i = 2 \/ i = 3 \/ i = 4 \/ i = 5 \/ i = 6
    OBVIOUS
  <2> QED  BY <2>1, <2>2, <2>3
<1>8. Contents(s) \in Seq(Line)
  <2> DEFINE c == Contents(s)
  <2>1. c = [i \in 1..6 |-> c[i]]
    BY DEF Contents
  <2> HIDE DEF c
  <2>2. \A i \in 1..6 : c[i] \in Line
    BY <1>7 DEF c
  <2>3. c \in Seq(Line)
    BY <2>1, <2>2
  <2> QED  BY <2>3 DEF c
<1> QED  BY <1>8 DEF File

-----------------------------------------------------------------------------
(* The invariant *)

LEMMA DefaultsTypes == DefaultSettings \in Settings
<1>1. <<502, 443>> \in Seq(Port) /\ 502 \in Port /\ 443 \in Port
  BY DEF Port
<1> QED  BY <1>1, Texts DEF DefaultSettings, Settings

LEMMA LoadTypes ==
  ASSUME FileSystem(files), NEW path \in Text
  PROVE  Load(files, path) \in Settings
<1>1. LoadPath(files, path) \in Text
  BY PathAssumption DEF PathAssumption, LoadPath
<1>2. \A p : FileAt(files, p) \in File
  BY EmptyFile DEF FileAt, FileSystem
<1> QED  BY <1>1, <1>2, ParseTypes DEF Load

\* The file is opened, and so emptied.
LEMMA Emptied ==
  ASSUME FileSystem(files), NEW path \in Paths,
         files' = [p \in DOMAIN files \cup {path} |-> IF p = path THEN <<>> ELSE files[p]]
  PROVE  /\ FileSystem(files)'
         /\ DOMAIN files' = DOMAIN files \cup {path}
         /\ FileAt(files', path) = <<>>
         /\ \A p : p # path => FileAt(files', p) = FileAt(files, p)
BY EmptyFile DEF FileSystem, FileAt

\* The buffer is written.
LEMMA Filled ==
  ASSUME FileSystem(files), NEW path \in DOMAIN files, NEW file \in File,
         files' = [files EXCEPT ![path] = file]
  PROVE  /\ FileSystem(files)'
         /\ DOMAIN files' = DOMAIN files
         /\ FileAt(files', path) = file
         /\ \A p : p # path => FileAt(files', p) = FileAt(files, p)
BY DEF FileSystem, FileAt

LEMMA DialledInside ==
  ASSUME NEW subnet, NEW a \in Dialled(subnet)
  PROVE  a \in Address /\ InSubnet(a, Cidr[subnet].ip, Prefix(Cidr[subnet].prefix))
<1>1. subnet \in DOMAIN Cidr /\ PrefixOk(Cidr[subnet].prefix)
      /\ a \in DialledAddresses(Cidr[subnet].ip, Prefix(Cidr[subnet].prefix))
  BY DEF Dialled
<1>2. Cidr[subnet].ip \in Address /\ Cidr[subnet].prefix \in Nat
  BY <1>1, StartupAssumption DEF StartupAssumption
<1>3. Prefix(Cidr[subnet].prefix) \in PrefixLengths
  BY <1>1, <1>2 DEF PrefixOk, Prefix, PrefixLengths
<1> QED  BY <1>1, <1>2, <1>3, ScanStaysInside

\* What a scan finds: addresses it dialled, with the ports that answered.
LEMMA FoundIs ==
  ASSUME NEW subnet, NEW ports \in SUBSET Port, NEW answers,
         NEW d \in Found(Dialled(subnet), ports, answers)
  PROVE  /\ d \in [address : Address, ports : SUBSET Port]
         /\ d.address \in Dialled(subnet)
         /\ \A p \in d.ports : <<d.address, p>> \in answers
<1>1. /\ d = [address |-> d.address, ports |-> d.ports]
      /\ d.address \in Dialled(subnet)
      /\ d.ports = {p \in ports : <<d.address, p>> \in answers}
  BY DEF Found
<1>2. d.address \in Address
  BY <1>1, DialledInside
<1> QED  BY <1>1, <1>2

LEMMA InitIInv == Init => IInv
<1> SUFFICES ASSUME Init PROVE IInv
  OBVIOUS
<1>1. FileSystem(files) /\ network \in Networks /\ pc = "off"
  BY StartupAssumption DEF Init, StartupAssumption
<1>2. cmd \in CommandConfig /\ Known(cmd.config_path)
  <2>1. <<>> \in Seq(Word)
    OBVIOUS
  <2> QED  BY <2>1, ParseArgsTypes, ParseArgsPath DEF Init
<1>3. settings \in Settings /\ Known(settings.config_path) /\ line \in Seq(Text) /\ Len(line) <= 1
  BY DefaultsTypes DEF Init, Known, DefaultSettings
<1>4. /\ devices \subseteq [address : Address, ports : SUBSET Port]
      /\ offer = NoOffer /\ starts \in Nat
  BY DEF Init
<1>5. Types
  BY <1>1, <1>2, <1>3, <1>4 DEF Types, TypeOK, Known, Places
<1> QED  BY <1>1, <1>5 DEF IInv, WhereScanning, Asking, Saving, Finding

\* The parts of Types, to be put together again after a step.
LEMMA TypesAre ==
  Types <=> /\ FileSystem(files) /\ network \in Networks /\ pc \in Places
            /\ cmd \in CommandConfig /\ Known(cmd.config_path)
            /\ settings \in Settings /\ Known(settings.config_path)
            /\ line \in Seq(Text) /\ Len(line) <= 1
            /\ devices \subseteq [address : Address, ports : SUBSET Port]
            /\ offer = NoOffer \/ offer \in [address : Address, port : Port]
            /\ starts \in Nat
BY DEF Types, TypeOK, Known

LEMMA ScannedAre ==
  ASSUME network \in Networks, settings' \in Settings, Scan
  PROVE  /\ devices' \subseteq [address : Address, ports : SUBSET Port]
         /\ \A d \in devices' :
              /\ d.address \in Dialled(settings'.scan_subnet)
              /\ \A p \in d.ports : <<d.address, p>> \in network
<1>1. Range(settings'.scan_ports) \subseteq Port
  <2>1. settings'.scan_ports \in Seq(Port)
    BY DEF Settings
  <2> QED  BY <2>1 DEF Range
<1>2. PICK answers \in SUBSET network :
        devices' = Found(Dialled(settings'.scan_subnet), Range(settings'.scan_ports), answers)
  BY DEF Scan
<1> QED  BY <1>1, <1>2, FoundIs

\* The offer has the address of a device and a port that is open at one.
LEMMA OfferedIs ==
  ASSUME devices \subseteq [address : Address, ports : SUBSET Port], MakeOffer
  PROVE  /\ offer' \in [address : Address, port : Port]
         /\ \E d \in devices : d.address = offer'.address /\ Identified(d.ports)
<1>1. PICK s \in Solakons, d \in devices :
        \E port \in FirstPort(d, settings.scan_ports) :
          offer' = [address |-> s.address, port |-> port]
  BY DEF MakeOffer
<1>2. s \in devices /\ Identified(s.ports)
  BY DEF Solakons
<1>3. FirstPort(d, settings.scan_ports) \subseteq Port
  <2>1. FirstPort(d, settings.scan_ports) \subseteq d.ports
    BY DEF FirstPort
  <2> QED  BY <2>1
<1> QED  BY <1>1, <1>2, <1>3

\* What is offered has a notation.
LEMMA OfferedIsWritten ==
  ASSUME IInv, pc = "offer"
  PROVE  /\ offer \in [address : Address, port : Port]
         /\ Dotted[Reported(offer.address)] \in Text
<1>1. /\ offer \in [address : Address, port : Port] /\ network \in Networks
      /\ \E d \in devices : d.address = offer.address /\ Identified(d.ports) /\ Answers(d)
  BY DEF IInv, Finding, Types
<1>2. PICK d \in devices : d.address = offer.address /\ Identified(d.ports) /\ Answers(d)
  BY <1>1
<1>3. PICK p : <<offer.address, p>> \in network
  <2>1. PICK p \in d.ports : TRUE
    BY <1>2 DEF Identified
  <2> QED  BY <1>2, <2>1 DEF Answers
<1>4. Reported(<<offer.address, p>>[1]) \in DOMAIN Dotted
  BY <1>1, <1>3, StartupAssumption DEF StartupAssumption
<1> QED  BY <1>1, <1>4, StartupAssumption DEF StartupAssumption

LEMMA NextTypes ==
  ASSUME IInv, [Next]_vars PROVE Types'
<1>0. /\ FileSystem(files) /\ network \in Networks /\ pc \in Places
      /\ cmd \in CommandConfig /\ Known(cmd.config_path)
      /\ settings \in Settings /\ Known(settings.config_path)
      /\ line \in Seq(Text) /\ Len(line) <= 1
      /\ devices \subseteq [address : Address, ports : SUBSET Port]
      /\ offer = NoOffer \/ offer \in [address : Address, port : Port]
      /\ starts \in Nat
  BY TypesAre DEF IInv
<1>a. cmd.config_path \in Text /\ cmd.modbus_port \in Port
  BY <1>0 DEF CommandConfig
<1>b. Types' <=> /\ FileSystem(files)' /\ network' \in Networks /\ pc' \in Places
                 /\ cmd' \in CommandConfig /\ Known(cmd'.config_path)
                 /\ settings' \in Settings /\ Known(settings'.config_path)
                 /\ line' \in Seq(Text) /\ Len(line') <= 1
                 /\ devices' \subseteq [address : Address, ports : SUBSET Port]
                 /\ offer' = NoOffer \/ offer' \in [address : Address, port : Port]
                 /\ starts' \in Nat
  BY DEF Types, TypeOK, Known
<1>c. Known(NoText) /\ Known(DefaultPath)
  BY DefaultPathKnown DEF Known
<1>d. <<>> \in Seq(Text) /\ Len(<<>>) <= 1 /\ \A x \in Text : <<x>> \in Seq(Text) /\ Len(<<x>>) <= 1
  OBVIOUS
<1>1. ASSUME NEW argv \in CommandLines, Start(argv) PROVE Types'
  <2>1. cmd' \in CommandConfig /\ Known(cmd'.config_path)
    BY <1>1, StartupAssumption, ParseArgsTypes, ParseArgsPath DEF Start, StartupAssumption
  <2>2. pc' \in Places /\ starts' \in Nat
    BY <1>0, <1>1 DEF Start, Places
  <2> QED  BY <1>0, <1>1, <1>b, <2>1, <2>2 DEF Start, local
<1>2. CASE Ended
  <2>1. <<>> \in Seq(Word)
    OBVIOUS
  <2>2. cmd' \in CommandConfig /\ Known(cmd'.config_path)
    BY <1>2, <2>1, ParseArgsTypes, ParseArgsPath DEF Ended
  <2>3. settings' \in Settings /\ Known(settings'.config_path)
    BY <1>2, <1>c, DefaultsTypes DEF Ended, DefaultSettings
  <2>4. pc' \in Places /\ line' = <<>> /\ devices' = {} /\ offer' = NoOffer
    BY <1>2 DEF Ended, Places
  <2> QED  BY <1>0, <1>2, <1>b, <1>d, <2>2, <2>3, <2>4 DEF Ended
<1>3. CASE Aborts
  <2>1. pc' \in Places
    BY <1>3 DEF Aborts, Places
  <2> QED  BY <1>0, <1>3, <1>b, <2>1 DEF Aborts, local
<1>4. CASE LoadConfig
  <2>1. settings' \in Settings /\ settings'.config_path = Load(files, cmd.config_path).config_path
    <3>1. Load(files, cmd.config_path) \in Settings
      BY <1>0, <1>a, LoadTypes
    <3>2. settings' = Override(Load(files, cmd.config_path), cmd)
      BY <1>4 DEF LoadConfig
    <3> QED  BY <1>0, <3>1, <3>2, OverrideTypes
  <2>2. Known(settings'.config_path)
    BY <1>0, <2>1, LoadedPath
  <2>3. pc' \in Places
    BY <1>4 DEF LoadConfig, Places
  <2> QED  BY <1>0, <1>4, <1>b, <2>1, <2>2, <2>3 DEF LoadConfig
<1>5. CASE TakeCharacter
  <2>1. line' \in Seq(Text) /\ Len(line') <= 1
    <3>1. \A t \in Typed : Rest[t] \in Text
      BY StartupAssumption DEF StartupAssumption
    <3>2. line' = <<>> \/ \E x \in Text : line' = <<x>>
      BY <1>5, <3>1, Texts DEF TakeCharacter
    <3> QED  BY <1>d, <3>2
  <2>2. pc' \in Places
    BY <1>5 DEF TakeCharacter, Places
  <2> QED  BY <1>0, <1>5, <1>b, <2>1, <2>2 DEF TakeCharacter
<1>6. CASE PromptIp
  <2>1. \A ip \in IF line = <<>> THEN Typed \cup {NoText} ELSE {line[1]} : ip \in Text
    BY <1>0, StartupAssumption, Texts DEF StartupAssumption
  <2>2. \/ UNCHANGED settings
        \/ \E ip \in Text : settings' = [settings EXCEPT !.host = ip,
             !.modbus_port = cmd.modbus_port, !.config_path = DefaultPath]
    BY <1>6, <2>1 DEF PromptIp, Answer
  <2>3. settings' \in Settings /\ Known(settings'.config_path)
    <3>1. DefaultPath \in Text
      BY DefaultPathKnown, Texts
    <3>2. CASE UNCHANGED settings
      BY <1>0, <3>2
    <3>3. ASSUME NEW ip \in Text, settings' = [settings EXCEPT !.host = ip,
                   !.modbus_port = cmd.modbus_port, !.config_path = DefaultPath]
          PROVE  settings' \in Settings /\ settings'.config_path = DefaultPath
      <4>1. /\ settings' = [host |-> ip, modbus_port |-> cmd.modbus_port,
                            https_port |-> settings.https_port,
                            refresh_hz |-> settings.refresh_hz,
                            scan_subnet |-> settings.scan_subnet,
                            scan_ports |-> settings.scan_ports, config_path |-> DefaultPath]
            /\ settings.https_port \in Port /\ settings.refresh_hz \in Int
            /\ settings.scan_subnet \in Text /\ settings.scan_ports \in Seq(Port)
        BY <1>0, <3>3 DEF Settings
      <4> QED  BY <1>a, <3>1, <4>1 DEF Settings
    <3> QED  BY <1>c, <2>2, <3>2, <3>3
  <2>4. line' = <<>> /\ pc' \in Places
    BY <1>6 DEF PromptIp, Answer, Places
  <2> QED  BY <1>0, <1>6, <1>b, <1>d, <2>3, <2>4 DEF PromptIp
<1>7. CASE SaveOpen
  <2>1. FileSystem(files)'
    <3>1. settings.config_path # NoText => settings.config_path = DefaultPath
      BY <1>7 DEF IInv, Saving, SaveOpen
    <3>2. \/ files' = files
          \/ files' = [p \in DOMAIN files \cup {DefaultPath} |->
                         IF p = DefaultPath THEN <<>> ELSE files[p]]
      BY <1>7, <3>1 DEF SaveOpen
    <3> QED  BY <1>0, <3>2, DefaultPathKnown, Emptied
  <2>2. pc' \in Places
    BY <1>7 DEF SaveOpen, AfterSave, Places
  <2> QED  BY <1>0, <1>7, <1>b, <2>1, <2>2 DEF SaveOpen, local
<1>8. CASE SaveWrite
  <2>1. DefaultPath \in DOMAIN files /\ settings.config_path = DefaultPath
    BY <1>8 DEF IInv, Saving, SaveWrite
  <2>2. FileSystem(files)'
    BY <1>0, <1>8, <2>1, WrittenIsFile, Filled DEF SaveWrite
  <2>3. pc' \in Places
    BY <1>8 DEF SaveWrite, AfterSave, Places
  <2> QED  BY <1>0, <1>8, <1>b, <2>2, <2>3 DEF SaveWrite, local
<1>9. CASE Scan
  <2> DEFINE loaded == Load(files, cmd.config_path)
  <2>1. loaded \in Settings /\ Known(loaded.config_path)
    BY <1>0, <1>a, LoadTypes, LoadedPath
  <2>2. <<502, 443>> \in Seq(Port)
    BY DEF Port
  <2> HIDE DEF loaded
  <2>3. \A ports \in Seq(Port) :
          LET s == [loaded EXCEPT !.scan_ports = ports]
          IN  s \in Settings /\ s.config_path = loaded.config_path
    BY <2>1 DEF Settings
  <2>4. WithPorts(loaded) \in Settings /\ WithPorts(loaded).config_path = loaded.config_path
    BY <2>1, <2>2, <2>3 DEF WithPorts
  <2>5. settings' = WithPorts(loaded)
    BY <1>9 DEF Scan, loaded
  <2>6. settings' \in Settings /\ Known(settings'.config_path)
    BY <2>1, <2>4, <2>5
  <2>7. devices' \subseteq [address : Address, ports : SUBSET Port]
    BY <1>0, <1>9, <2>6, ScannedAre
  <2>8. pc' \in Places
    BY <1>9 DEF Scan, Places
  <2> QED  BY <1>0, <1>9, <1>b, <2>6, <2>7, <2>8 DEF Scan
<1>10. CASE NoOfferMade
  <2>1. pc' \in Places
    BY <1>10 DEF NoOfferMade, Places
  <2> QED  BY <1>0, <1>10, <1>b, <2>1 DEF NoOfferMade, local
<1>11. CASE MakeOffer
  <2>1. offer' \in [address : Address, port : Port]
    BY <1>0, <1>11, OfferedIs
  <2>2. pc' \in Places
    BY <1>11 DEF MakeOffer, Places
  <2> QED  BY <1>0, <1>11, <1>b, <2>1, <2>2 DEF MakeOffer
<1>12. CASE SaveDiscovered
  <2>1. offer \in [address : Address, port : Port] /\ Dotted[Reported(offer.address)] \in Text
    BY <1>12, OfferedIsWritten DEF SaveDiscovered
  <2>2. offer.port \in Port
    BY <2>1
  <2>3. \A s \in Settings, x \in Text, n \in Port :
          [s EXCEPT !.host = x, !.modbus_port = n] \in Settings
    BY DEF Settings
  <2>4. settings' \in Settings
    BY <1>12, <2>1, <2>2, <2>3, DefaultsTypes DEF SaveDiscovered
  <2>5. settings'.config_path = NoText
    BY <1>12 DEF SaveDiscovered, DefaultSettings
  <2>6. pc' \in Places
    BY <1>12 DEF SaveDiscovered, Places
  <2> QED  BY <1>0, <1>12, <1>b, <1>c, <2>4, <2>5, <2>6 DEF SaveDiscovered
<1>13. CASE UNCHANGED vars
  BY <1>0, <1>13, <1>b DEF vars
<1> QED  BY <1>1, <1>2, <1>3, <1>4, <1>5, <1>6, <1>7, <1>8, <1>9, <1>10, <1>11, <1>12, <1>13
         DEF Next

LEMMA NextPlaces ==
  ASSUME IInv, [Next]_vars PROVE (WhereScanning /\ Asking /\ Saving)'
<1> USE DEF WhereScanning, Asking, Saving
<1>0. WhereScanning /\ Asking /\ Saving /\ Types /\ Types'
  BY NextTypes DEF IInv
<1>1. ASSUME NEW argv \in CommandLines, Start(argv) PROVE (WhereScanning /\ Asking /\ Saving)'
  <2>1. /\ pc' = "scan" => Scanning'
        /\ pc' = "load" => ~Scanning'
        /\ pc' \in {"exit", "scan", "load"}
    BY <1>1 DEF Start, Scanning
  <2> QED  BY <2>1
<1>2. CASE Ended
  BY <1>2 DEF Ended
<1>3. CASE Aborts
  BY <1>3 DEF Aborts
<1>4. CASE LoadConfig
  <2>1. Scanning' = Scanning /\ ~Scanning /\ pc' \in {"run", "ask", "exit"}
    BY <1>0, <1>4 DEF LoadConfig, Scanning
  <2>2. pc' = "ask" => HostAt(DefaultPath)' = NoText
    <3>1. pc' = "ask" => Load(files, NoText).host = NoText
      BY <1>4 DEF LoadConfig
    <3>2. HostAt(DefaultPath)' = HostAt(DefaultPath)
      BY <1>4 DEF LoadConfig, HostAt
    <3> QED  BY <3>1, <3>2, DefaultIsLoaded
  <2>3. RateApplied'
    <3>1. Load(files, cmd.config_path) \in Settings
      BY <1>0, LoadTypes DEF Types, TypeOK, CommandConfig
    <3>2. cmd.refresh_hz # 1 =>
            Override(Load(files, cmd.config_path), cmd).refresh_hz = cmd.refresh_hz
      BY <1>0, <3>1, OverrideTypes DEF Types, TypeOK
    <3> QED  BY <1>4, <3>2 DEF LoadConfig, RateApplied
  <2> QED  BY <2>1, <2>2, <2>3
<1>5. CASE TakeCharacter
  <2>1. pc' = "prompt" /\ pc = "ask" /\ UNCHANGED <<files, cmd, settings>>
    BY <1>5 DEF TakeCharacter
  <2> QED  BY <1>0, <2>1 DEF Scanning, RateApplied, HostAt
<1>6. CASE PromptIp
  <2>1. pc = "prompt" /\ UNCHANGED <<files, cmd>> /\ pc' \in {"exit", "save"}
    BY <1>6 DEF PromptIp, Answer
  <2>2. settings \in Settings
    BY <1>0 DEF Types, TypeOK
  <2>3. pc' = "save" => /\ settings'.config_path = DefaultPath
                        /\ settings'.modbus_port = cmd.modbus_port
                        /\ settings'.refresh_hz = settings.refresh_hz
    BY <1>6, <2>2 DEF PromptIp, Answer, Settings
  <2> QED  BY <1>0, <2>1, <2>3 DEF Scanning, RateApplied, HostAt
<1>7. CASE SaveOpen
  <2>1. pc = "save" /\ UNCHANGED <<cmd, settings>>
    BY <1>7 DEF SaveOpen, local
  <2>2. pc' = "write" \/ pc' \in {"kept", "run"}
    BY <1>7 DEF SaveOpen, AfterSave
  <2>3. ASSUME pc' = "write"
        PROVE  /\ ~Scanning /\ settings.config_path = DefaultPath
               /\ HostAt(DefaultPath)' = NoText /\ DefaultPath \in DOMAIN files'
    <3>1. settings.config_path # NoText
      BY <1>7, <2>3 DEF SaveOpen, AfterSave
    <3>2. ~Scanning /\ settings.config_path = DefaultPath
      BY <1>0, <2>1, <3>1
    <3>3. files' = [p \in DOMAIN files \cup {DefaultPath} |->
                     IF p = DefaultPath THEN <<>> ELSE files[p]]
      BY <1>7, <2>3, <3>2 DEF SaveOpen, AfterSave
    <3>4. FileAt(files', DefaultPath) = <<>> /\ DOMAIN files' = DOMAIN files \cup {DefaultPath}
      BY <1>0, <3>3, Emptied, DefaultPathKnown DEF Types, TypeOK
    <3>5. HostAt(DefaultPath)' = Parse(FileAt(files', DefaultPath), DefaultPath).host
      BY DEF HostAt
    <3> QED  BY <3>2, <3>4, <3>5, EmptyFile
  <2> QED  BY <1>0, <2>1, <2>2, <2>3 DEF Scanning, RateApplied
<1>8. CASE SaveWrite
  <2>1. pc' \in {"kept", "run"}
    BY <1>8 DEF SaveWrite, AfterSave
  <2> QED  BY <2>1
<1>9. CASE Scan
  <2>1. pc' = "found" /\ pc = "scan" /\ UNCHANGED cmd
    BY <1>9 DEF Scan
  <2> QED  BY <1>0, <2>1 DEF Scanning
<1>10. CASE NoOfferMade
  BY <1>10 DEF NoOfferMade
<1>11. CASE MakeOffer
  <2>1. pc' = "offer" /\ pc = "found" /\ UNCHANGED cmd
    BY <1>11 DEF MakeOffer
  <2> QED  BY <1>0, <2>1 DEF Scanning
<1>12. CASE SaveDiscovered
  <2>1. pc' = "save" /\ pc = "offer" /\ UNCHANGED cmd
    BY <1>12 DEF SaveDiscovered
  <2>2. settings'.config_path = NoText
    BY <1>12 DEF SaveDiscovered, DefaultSettings
  <2> QED  BY <1>0, <2>1, <2>2 DEF Scanning
<1>13. CASE UNCHANGED vars
  BY <1>0, <1>13 DEF vars, Scanning, RateApplied, HostAt
<1> QED  BY <1>1, <1>2, <1>3, <1>4, <1>5, <1>6, <1>7, <1>8, <1>9, <1>10, <1>11, <1>12, <1>13
         DEF Next

LEMMA NextFinding ==
  ASSUME IInv, [Next]_vars PROVE Finding'
<1>0. Finding /\ Types /\ Types'
  BY NextTypes DEF IInv
<1>1. CASE Scan
  <2>1. settings' \in Settings /\ network \in Networks /\ network' = network /\ pc' = "found"
    BY <1>0, <1>1 DEF Types, TypeOK, Scan
  <2> QED  BY <1>1, <2>1, ScannedAre DEF Finding, Answers
<1>2. CASE MakeOffer
  <2>1. pc = "found" /\ UNCHANGED <<network, settings, devices>>
    BY <1>2 DEF MakeOffer
  <2>2. devices \subseteq [address : Address, ports : SUBSET Port]
    BY <1>0 DEF Types, TypeOK
  <2> QED  BY <1>0, <1>2, <2>1, <2>2, OfferedIs DEF Finding, Answers
<1>3. CASE UNCHANGED vars
  BY <1>0, <1>3 DEF Finding, Answers, vars
<1>4. ASSUME ~Scan, ~MakeOffer, ~UNCHANGED vars PROVE pc' \notin {"found", "offer"}
  BY <1>4 DEF Next, Start, Ended, Aborts, LoadConfig, TakeCharacter, PromptIp, Answer,
              SaveOpen, SaveWrite, AfterSave, NoOfferMade, SaveDiscovered
<1> QED  BY <1>1, <1>2, <1>3, <1>4 DEF Finding

LEMMA Invariance == Spec => []IInv
<1>1. IInv /\ [Next]_vars => IInv'
  BY NextTypes, NextPlaces, NextFinding DEF IInv
<1> QED  BY InitIInv, <1>1, PTL DEF Spec

-----------------------------------------------------------------------------
(* The theorems *)

\* Every variable stays in its type: the paths are known ones, the line typed is
\* used up before the next, and the ports fit 16 bits.  (main, src/main.cpp:198)
THEOREM TypeCorrect == Spec => []TypeOK
<1>1. IInv => TypeOK
  BY DEF IInv, Types
<1> QED  BY Invariance, <1>1, PTL

\* For every subnet and every port list, what the program offers to save answers on
\* a port of a Solakon and lies inside the subnet.  (src/network_scanner.cpp:100-134)
THEOREM OffersAreNeighbours == Spec => []OffersNeighbour
<1>1. ASSUME IInv, pc = "offer"
      PROVE  /\ \E p \in {502, 443} : <<offer.address, p>> \in network
             /\ InSubnet(offer.address, Cidr[settings.scan_subnet].ip,
                         Prefix(Cidr[settings.scan_subnet].prefix))
  <2>1. PICK d \in devices : /\ d.address = offer.address /\ Identified(d.ports)
                            /\ Answers(d)
    BY <1>1 DEF IInv, Finding
  <2>2. \E p \in {502, 443} : <<offer.address, p>> \in network
    BY <2>1 DEF Identified, Answers
  <2>3. offer.address \in Dialled(settings.scan_subnet)
    BY <2>1 DEF Answers
  <2> QED  BY <2>2, <2>3, DialledInside
<1>2. IInv => OffersNeighbour
  BY <1>1 DEF OffersNeighbour
<1> QED  BY Invariance, <1>2, PTL

\* The only file ever touched is the default one while it has no address.
LEMMA FileSteps ==
  ASSUME IInv, [Next]_vars
  PROVE  \/ files' = files
         \/ /\ HostAt(DefaultPath) = NoText
            /\ \A p : p # DefaultPath => FileAt(files', p) = FileAt(files, p)
            /\ \/ FileAt(files', DefaultPath) = <<>>
               \/ FileAt(files', DefaultPath) = Contents(settings)
<1>1. CASE SaveOpen
  <2>1. CASE files' = files
    BY <2>1
  <2>2. CASE files' # files
    <3>1. pc = "save" /\ settings.config_path # NoText
      BY <1>1, <2>2 DEF SaveOpen
    <3>2. settings.config_path = DefaultPath /\ HostAt(DefaultPath) = NoText
      BY <3>1 DEF IInv, Saving
    <3>3. files' = [p \in DOMAIN files \cup {DefaultPath} |->
                     IF p = DefaultPath THEN <<>> ELSE files[p]]
      BY <1>1, <2>2, <3>2 DEF SaveOpen
    <3> QED  BY <3>2, <3>3, Emptied, DefaultPathKnown DEF IInv, Types, TypeOK
  <2> QED  BY <2>1, <2>2
<1>2. CASE SaveWrite
  <2>1. /\ settings.config_path = DefaultPath /\ HostAt(DefaultPath) = NoText
        /\ DefaultPath \in DOMAIN files /\ settings \in Settings /\ FileSystem(files)
    BY <1>2 DEF IInv, Saving, Types, TypeOK, SaveWrite
  <2>2. \/ files' = files
        \/ files' = [files EXCEPT ![DefaultPath] = Contents(settings)]
    BY <1>2, <2>1 DEF SaveWrite
  <2> QED  BY <2>1, <2>2, WrittenIsFile, Filled
<1>3. CASE Ended \/ Aborts \/ LoadConfig \/ TakeCharacter \/ PromptIp
  BY <1>3 DEF Ended, Aborts, LoadConfig, TakeCharacter, PromptIp
<1>4. CASE Scan \/ NoOfferMade \/ MakeOffer \/ SaveDiscovered \/ UNCHANGED vars
  BY <1>4 DEF Scan, NoOfferMade, MakeOffer, SaveDiscovered, vars
<1>5. ASSUME NEW argv \in CommandLines, Start(argv) PROVE files' = files
  BY <1>5 DEF Start
<1> QED  BY <1>1, <1>2, <1>3, <1>4, <1>5 DEF Next

\* An address in a configuration file stays there, whatever the command line and
\* wherever the program is ended.  (src/main.cpp:285, src/config_loader.cpp:113)
THEOREM AddressesAreKept == Spec => AddressesKept
<1>1. ASSUME IInv, [Next]_vars
      PROVE  \A p \in Paths : HostAt(p) # NoText => HostAt(p)' = HostAt(p)
  <2>1. \A p : HostAt(p)' = Parse(FileAt(files', p), p).host
    BY DEF HostAt
  <2>2. ASSUME NEW p \in Paths, HostAt(p) # NoText PROVE FileAt(files', p) = FileAt(files, p)
    BY <1>1, <2>2, FileSteps
  <2> QED  BY <2>1, <2>2 DEF HostAt
<1> QED  BY <1>1, Invariance, PTL DEF Spec, AddressesKept

\* A save, interrupted or not, does not leave a file load() throws on.
\* (src/config_loader.cpp:80-94, :113-136)
THEOREM SavesAreReadable == Spec => SavedIsReadable
<1>1. ASSUME IInv, [Next]_vars
      PROVE  \A p \in Paths : ~Throws(FileAt(files, p)) => ~Throws(FileAt(files, p))'
  <2>1. \A p : Throws(FileAt(files, p))' <=> Throws(FileAt(files', p))
    OBVIOUS
  <2>2. ASSUME NEW p \in Paths, ~Throws(FileAt(files, p)) PROVE ~Throws(FileAt(files', p))
    BY <1>1, <2>2, FileSteps, EmptyFile, WrittenDoesNotThrow
  <2> QED  BY <2>1, <2>2
<1> QED  BY <1>1, Invariance, PTL DEF Spec, SavedIsReadable

LEMMA OverrideTwice ==
  ASSUME cmd \in CommandConfig, settings \in Settings, cmd.host = NoText,
         settings.modbus_port = cmd.modbus_port, RateApplied
  PROVE  Override(settings, cmd) = settings
<1> DEFINE o == Override(settings, cmd)
<1>1. /\ o.host = settings.host /\ o.modbus_port = settings.modbus_port
      /\ o.refresh_hz = settings.refresh_hz
  BY DEF Override, Settings, RateApplied
<1>2. /\ o.https_port = settings.https_port /\ o.scan_subnet = settings.scan_subnet
      /\ o.scan_ports = settings.scan_ports /\ o.config_path = settings.config_path
  BY DEF Override, Settings
<1>3. o \in Settings
  BY OverrideTypes
<1> HIDE DEF o
<1> QED  BY <1>1, <1>2, <1>3 DEF Settings, o

LEMMA RememberedNext ==
  ASSUME IInv, AnswerIsRemembered, [Next]_vars PROVE AnswerIsRemembered'
<1> SUFFICES ASSUME pc' = "run", cmd'.host = NoText, cmd'.config_path = NoText,
                    HostAt(DefaultPath)' # NoText
             PROVE  /\ ~LoadThrows(files', NoText)
                    /\ Override(Load(files', NoText), cmd') = settings'
  BY DEF AnswerIsRemembered
<1>1. CASE LoadConfig
  BY <1>1 DEF LoadConfig
<1>2. CASE SaveOpen
  <2>1. files' = files /\ pc = "save" /\ UNCHANGED <<cmd, settings>> /\ ~Scanning
    BY <1>2 DEF SaveOpen, AfterSave, local, Scanning
  <2>2. HostAt(DefaultPath)' = HostAt(DefaultPath)
    BY <2>1 DEF HostAt
  <2> QED  BY <2>1, <2>2 DEF IInv, Saving
<1>3. CASE SaveWrite
  <2>1. /\ settings.config_path = DefaultPath /\ HostAt(DefaultPath) = NoText
        /\ DefaultPath \in DOMAIN files /\ settings \in Settings /\ FileSystem(files)
        /\ settings.modbus_port = cmd.modbus_port /\ RateApplied /\ cmd \in CommandConfig
    BY <1>3 DEF IInv, Saving, Types, TypeOK, SaveWrite
  <2>2. UNCHANGED <<cmd, settings>>
    BY <1>3 DEF SaveWrite, local
  <2>3. files' # files
    <3>1. files' = files => HostAt(DefaultPath)' = HostAt(DefaultPath)
      BY DEF HostAt
    <3> QED  BY <2>1, <3>1
  <2>4. files' = [files EXCEPT ![DefaultPath] = Contents(settings)]
    BY <1>3, <2>1, <2>3 DEF SaveWrite
  <2>5. FileAt(files', DefaultPath) = Contents(settings) /\ DefaultPath \in DOMAIN files'
    BY <2>1, <2>4, WrittenIsFile, Filled
  <2>6. LoadPath(files', NoText) = DefaultPath
    BY <2>5 DEF LoadPath, DefaultPath
  <2>7. ~LoadThrows(files', NoText)
    BY <2>5, <2>6, WrittenDoesNotThrow DEF LoadThrows
  <2>8. Load(files', NoText) = settings
    BY <2>1, <2>5, <2>6, WrittenIsRead DEF Load
  <2> QED  BY <2>1, <2>2, <2>7, <2>8, OverrideTwice
<1>4. CASE Ended \/ Aborts \/ TakeCharacter \/ PromptIp
  BY <1>4 DEF Ended, Aborts, TakeCharacter, PromptIp, Answer
<1>5. CASE Scan \/ NoOfferMade \/ MakeOffer \/ SaveDiscovered
  BY <1>5 DEF Scan, NoOfferMade, MakeOffer, SaveDiscovered
<1>6. ASSUME NEW argv \in CommandLines, Start(argv) PROVE FALSE
  BY <1>6 DEF Start
<1>7. CASE UNCHANGED vars
  <2>1. UNCHANGED <<files, cmd, settings, pc>>
    BY <1>7 DEF vars
  <2>2. HostAt(DefaultPath)' = HostAt(DefaultPath)
    BY <2>1 DEF HostAt
  <2> QED  BY <2>1, <2>2 DEF AnswerIsRemembered
<1> QED  BY <1>1, <1>2, <1>3, <1>4, <1>5, <1>6, <1>7 DEF Next

\* An answer that was written is what the next start loads.
\* (src/main.cpp:329-332, src/config_loader.cpp:29, :103)
THEOREM AnswersAreRemembered == Spec => []AnswerIsRemembered
<1>1. Init => AnswerIsRemembered
  BY DEF Init, AnswerIsRemembered
<1> QED  BY <1>1, Invariance, RememberedNext, PTL DEF Spec
===============================================================================
