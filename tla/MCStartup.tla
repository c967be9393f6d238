------------------------------- MODULE MCStartup -------------------------------
EXTENDS Startup

McString == STRING

\* A subnet of three hosts, the address after it, and the same in reverse.
McIp == <<10, 0, 0, 4>>
McAddress(d) == [McIp EXCEPT ![4] = d]
McHosts == {McAddress(d) : d \in 4..8}
McDotted == [a \in McHosts \cup {Reverse(b) : b \in McHosts} |-> ToString(a)]

McTyped == {"", "10.0.0.5"}
McRest  == [t \in McTyped |-> IF t = "" THEN "" ELSE "0.0.0.5"]

McSubnet(ip, numeric, prefix) ==
  [ip |-> ip, numeric |-> numeric, prefix |-> prefix]
McTen == <<10, 0, 0, 6>>
McCidr ==
  "192.168.178.0/24" :> McSubnet(<<192, 168, 178, 0>>, TRUE, 24) @@
  "10.0.0.6/30"      :> McSubnet(McTen, TRUE, 30) @@
  "10.0.0.6/288"     :> McSubnet(McTen, TRUE, 288) @@
  "10.0.0.6/255"     :> McSubnet(McTen, TRUE, 255) @@
  "10.0.0.6/x"       :> McSubnet(McTen, FALSE, 0)

McNetworks ==
  { {<<McAddress(5), 502>>},
    {<<McAddress(5), 443>>, <<McAddress(7), 8080>>, <<McAddress(8), 502>>},
    {<<McAddress(4), 502>>, <<McAddress(6), 502>>, <<McAddress(7), 443>>} }

McLine(key, words) == [section |-> "solakon", key |-> key, words |-> words]

McScan == << McLine("scan_subnet", <<TextWord("10.0.0.6/30")>>),
             McLine("scan_ports", <<NumWord(8080), NumWord(502), NumWord(65979)>>) >>
McNoHost == McScan \o << McLine("modbus_port", <<NumWord(1502)>>),
                         [section |-> "other", key |-> "ip", words |-> <<TextWord("10.0.0.9")>>] >>
McHost   == << McLine("ip", <<>>), McLine("ip", <<TextWord("10.0.0.7")>>) >>
McBad    == << McLine("ip", <<TextWord("10.0.0.7")>>), McLine("refresh_hz", <<TextWord("fast")>>) >>
McWide   == << McLine("scan_subnet", <<TextWord("10.0.0.6/288")>>), McLine("scan_ports", <<>>) >>
McFar(s) == << McLine("scan_subnet", <<TextWord(s)>>) >>

McFiles ==
  UNION {[ {"home", "cwd", "other"} \ missing -> {McNoHost, McHost} ] :
           missing \in SUBSET {"home", "cwd", "other"}}
  \cup { [other |-> McBad], [home |-> McBad, other |-> McNoHost],
         [home |-> McWide] }
  \cup { [cwd |-> McFar(s)] : s \in {"10.0.0.6/255", "10.0.0.6/x", "10.0.0.6"} }

McOption(s) == [text |-> s, num |-> 0, numeric |-> FALSE, dash |-> TRUE]
McText(s, n) == [text |-> s, num |-> n, numeric |-> TRUE, dash |-> FALSE]

McCommandLines ==
  { <<>>, << McOption("--help") >>,
    << McText("10.0.0.6", 10), McOption("--interval") >>,
    << McOption("--config"), TextWord("other") >>,
    << McOption("--scan"), McOption("--config"), TextWord("other") >>,
    << McOption("--scan") >>,
    << McOption("--port"), NumWord(-1), McOption("--server"), McOption("--once") >>,
    << McOption("--server"), McText("10.0.0.6", 10), McOption("--interval"), NumWord(90) >> }
===============================================================================
