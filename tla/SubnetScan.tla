------------------------------ MODULE SubnetScan ------------------------------
(***************************************************************************)
(* The addresses NetworkScanner::scan dials (src/network_scanner.cpp) and  *)
(* the ones it reports.  An address is its four octets, most significant   *)
(* first.                                                                  *)
(***************************************************************************)
EXTENDS Integers, Sequences, SequencesExt

Octet   == {n \in Nat : n < 256}
Address == [1..4 -> Octet]

\* prefix = static_cast<uint8_t>(std::stoul(...)): it wraps before it is checked.
Prefix(n) == n % 256

PrefixOk(n) == Prefix(n) <= 32

\* How many bits of octet i the prefix covers.
NetworkBits(prefix, i) ==
  LET n == prefix - 8 * (i - 1) IN IF n < 0 THEN 0 ELSE IF n > 8 THEN 8 ELSE n

\* Mask to the network address.
BaseIp(ip, prefix) ==
  [i \in 1..4 |-> ip[i] - (ip[i] % 2^(8 - NetworkBits(prefix, i)))]

\* host_count: at most 256.  A shift by 32 bits, for prefix 0, is undefined; what
\* processors make of it is 0 or 1, and then no host is scanned.
HostCount(prefix) ==
  IF prefix = 0 THEN 0 ELSE IF prefix <= 24 THEN 256 ELSE 2^(32 - prefix)

\* Mutant: the loop runs to host_count, one too far.
DialledPast(ip, prefix) ==
  {[BaseIp(ip, prefix) EXCEPT ![4] = @ + h] : h \in 1..HostCount(prefix)}

\* base_ip | h for h from 1 to host_count - 1: the low octet of base_ip has no
\* bit in common with h.  (Their order is lost: scan() sorts what it found.)
DialledAddresses(ip, prefix) ==
  {[BaseIp(ip, prefix) EXCEPT ![4] = @ + h] : h \in 1..(HostCount(prefix) - 1)}

\* inet_ntoa is given the address in host byte order, on a little-endian machine.
Reported(address) == Reverse(address)

\* identify_solakon
Identified(ports) == ports \cap {502, 443} # {}

-----------------------------------------------------------------------------
(* The subnet, from its definition: the addresses that agree with ip in the   *)
(* first prefix bits.                                                         *)

Bit(address, b) == (address[1 + (b - 1) \div 8] \div 2^(7 - ((b - 1) % 8))) % 2

InSubnet(address, ip, prefix) == \A b \in 1..prefix : Bit(address, b) = Bit(ip, b)
===============================================================================
