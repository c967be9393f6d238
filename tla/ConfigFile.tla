------------------------------ MODULE ConfigFile ------------------------------
(***************************************************************************)
(* The configuration file (src/config_loader.cpp) as load() and save() see *)
(* it.  A file is the sequence of its `key = value` lines, each with the   *)
(* section it stands in; a value is the sequence of its comma-separated    *)
(* words.  Comments, blanks and lines of no known form are left out: load  *)
(* skips them.  A word is what the conversions of the program make of it:  *)
(* its text without blanks around it, the number it begins with, and       *)
(* whether there is one that fits an int.                                  *)
(***************************************************************************)
EXTENDS Integers, Sequences

CONSTANTS
  Home,          \* is HOME set?
  HomePath,      \* $HOME/.config/solakon-monitor/solakon.conf
  CwdPath,       \* solakon.conf in the current directory
  Paths,         \* these two and every path given with --config
  Text           \* what an argument, a line or a part of one can say

NoText == ""      \* the empty string, where a text is missing

NumberKeys == {"modbus_port", "https_port", "refresh_hz"}
Keys == NumberKeys \cup {"ip", "scan_subnet", "scan_ports"}

ASSUME PathAssumption ==
  /\ Home \in BOOLEAN
  /\ {NoText, "number", "solakon", "192.168.178.0/24"} \cup Keys \subseteq Text
  /\ Paths \subseteq Text \ {NoText}
  /\ {HomePath, CwdPath} \subseteq Paths /\ HomePath # CwdPath

Word == [text : Text, num : Int, numeric : BOOLEAN, dash : BOOLEAN]

TextWord(s) == [text |-> s, num |-> 0, numeric |-> FALSE, dash |-> FALSE]
NumWord(n)  == [text |-> "number", num |-> n, numeric |-> TRUE, dash |-> n < 0]

Line == [section : Text, key : Text, words : Seq(Word)]
File == Seq(Line)

\* A path at which there is a file is in the domain of the file system.
FileSystem(f) == DOMAIN f \subseteq Paths /\ f \in [DOMAIN f -> File]

Port == {n \in Nat : n < 65536}

Settings ==
  [host : Text, modbus_port : Port, https_port : Port, refresh_hz : Int,
   scan_subnet : Text, scan_ports : Seq(Port), config_path : Text]

DefaultSettings ==
  [host |-> NoText, modbus_port |-> 502, https_port |-> 443, refresh_hz |-> 1,
   scan_subnet |-> "192.168.178.0/24", scan_ports |-> <<502, 443>>,
   config_path |-> NoText]

\* What a function on positions gives for the last of them; default for none.
LastOf(f, default) ==
  LET last == {f[i] : i \in {j \in DOMAIN f : \A k \in DOMAIN f : k <= j}}
  IN  IF last = {} THEN default ELSE CHOOSE v \in last : TRUE

-----------------------------------------------------------------------------
(* load *)

Assigns(file, key) ==
  {i \in DOMAIN file : file[i].section = "solakon" /\ file[i].key = key}

\* std::getline and trim of a value without words is the empty string.
First(words) == IF words = <<>> THEN TextWord(NoText) ELSE words[1]

\* std::stoi throws std::invalid_argument, which nothing catches.
Throws(file) ==
  \/ \E k \in NumberKeys : \E i \in Assigns(file, k) : ~First(file[i].words).numeric
  \/ \E i \in Assigns(file, "scan_ports") : \E j \in DOMAIN file[i].words :
       ~file[i].words[j].numeric

\* The last assignment of a key counts; ports are cast to uint16_t.
Parse(file, path) ==
  LET texts(key)   == [i \in Assigns(file, key) |-> First(file[i].words).text]
      numbers(key) == [i \in Assigns(file, key) |-> First(file[i].words).num]
      ports(key)   == [i \in Assigns(file, key) |-> First(file[i].words).num % 65536]
      lists(key)   == [i \in Assigns(file, key) |->
                        [j \in DOMAIN file[i].words |-> file[i].words[j].num % 65536]]
      D == DefaultSettings
  IN  [host        |-> LastOf(texts("ip"), D.host),
       modbus_port |-> LastOf(ports("modbus_port"), D.modbus_port),
       https_port  |-> LastOf(ports("https_port"), D.https_port),
       refresh_hz  |-> LastOf(numbers("refresh_hz"), D.refresh_hz),
       scan_subnet |-> LastOf(texts("scan_subnet"), D.scan_subnet),
       scan_ports  |-> LastOf(lists("scan_ports"), D.scan_ports),
       config_path |-> path]

\* The file load() takes: --config, else the one in the home directory if there
\* is one, else the one in the current directory.
LoadPath(files, override) ==
  IF override # NoText THEN override
  ELSE IF Home /\ HomePath \in DOMAIN files THEN HomePath
  ELSE CwdPath

FileAt(files, path) == IF path \in DOMAIN files THEN files[path] ELSE <<>>

LoadThrows(files, override) == Throws(FileAt(files, LoadPath(files, override)))

Load(files, override) ==
  LET path == LoadPath(files, override) IN Parse(FileAt(files, path), path)

-----------------------------------------------------------------------------
(* save *)

DefaultPath == IF Home THEN HomePath ELSE CwdPath

\* Mutant: the two ports are written in each other's place.
ContentsSwapped(s) ==
  LET line(key, words) == [section |-> "solakon", key |-> key, words |-> words]
  IN  << line("ip", <<TextWord(s.host)>>),
         line("modbus_port", <<NumWord(s.https_port)>>),
         line("https_port", <<NumWord(s.modbus_port)>>) >>

\* The lines save() writes.
Contents(s) ==
  LET line(key, words) == [section |-> "solakon", key |-> key, words |-> words]
  IN  << line("ip", <<TextWord(s.host)>>),
         line("modbus_port", <<NumWord(s.modbus_port)>>),
         line("https_port", <<NumWord(s.https_port)>>),
         line("refresh_hz", <<NumWord(s.refresh_hz)>>),
         line("scan_subnet", <<TextWord(s.scan_subnet)>>),
         line("scan_ports", [i \in DOMAIN s.scan_ports |-> NumWord(s.scan_ports[i])]) >>
===============================================================================
