--------------------------- MODULE SubnetScan_proofs ---------------------------
(***************************************************************************)
(* What a scan dials, for every address and every prefix: the masks and    *)
(* the loop of NetworkScanner::scan against the definition of a subnet by  *)
(* its bits.                                                               *)
(***************************************************************************)
EXTENDS SubnetScan, TLAPS

Bits == {k \in Nat : k < 8}
PrefixLengths == {n \in Nat : n <= 32}

\* What a mask of n bits leaves of an octet.
Masked(x, n) == x - (x % 2^(8 - n))

OctetBit(x, k) == (x \div 2^(7 - k)) % 2

-----------------------------------------------------------------------------
(* One octet *)

LEMMA Sizes ==
  ASSUME NEW n \in Nat, n <= 8
  PROVE  \/ n = 0 /\ 2^(8 - n) = 256
         \/ n = 1 /\ 2^(8 - n) = 128
         \/ n = 2 /\ 2^(8 - n) = 64
         \/ n = 3 /\ 2^(8 - n) = 32
         \/ n = 4 /\ 2^(8 - n) = 16
         \/ n = 5 /\ 2^(8 - n) = 8
         \/ n = 6 /\ 2^(8 - n) = 4
         \/ n = 7 /\ 2^(8 - n) = 2
         \/ n = 8 /\ 2^(8 - n) = 1
<1>1. n = 0 => 2^(8 - n) = 256
  OBVIOUS
<1>2. n = 1 => 2^(8 - n) = 128
  OBVIOUS
<1>3. n = 2 => 2^(8 - n) = 64
  OBVIOUS
<1>4. n = 3 => 2^(8 - n) = 32
  OBVIOUS
<1>5. n = 4 => 2^(8 - n) = 16
  OBVIOUS
<1>6. n = 5 => 2^(8 - n) = 8
  OBVIOUS
<1>7. n = 6 => 2^(8 - n) = 4
  OBVIOUS
<1>8. n = 7 => 2^(8 - n) = 2
  OBVIOUS
<1>9. n = 8 => 2^(8 - n) = 1
  OBVIOUS
<1>10. n = 0 \/ n = 1 \/ n = 2 \/ n = 3 \/ n = 4 \/ n = 5 \/ n = 6 \/ n = 7 \/ n = 8
  OBVIOUS
<1> QED  BY <1>1, <1>2, <1>3, <1>4, <1>5, <1>6, <1>7, <1>8, <1>9, <1>10

LEMMA OctetBits ==
  ASSUME NEW x \in Octet
  PROVE  /\ OctetBit(x, 0) = (x \div 128) % 2
         /\ OctetBit(x, 1) = (x \div 64) % 2
         /\ OctetBit(x, 2) = (x \div 32) % 2
         /\ OctetBit(x, 3) = (x \div 16) % 2
         /\ OctetBit(x, 4) = (x \div 8) % 2
         /\ OctetBit(x, 5) = (x \div 4) % 2
         /\ OctetBit(x, 6) = (x \div 2) % 2
         /\ OctetBit(x, 7) = (x \div 1) % 2
BY DEF Octet, OctetBit

LEMMA BitNumbers ==
  ASSUME NEW k \in Bits
  PROVE  k = 0 \/ k = 1 \/ k = 2 \/ k = 3 \/ k = 4 \/ k = 5 \/ k = 6 \/ k = 7
BY DEF Bits

\* The bits below the mask can be filled with any number that fits them.
LEMMA OctetFilled ==
  ASSUME NEW x \in Octet, NEW n \in Nat, n <= 8, NEW h \in Nat, h < 2^(8 - n)
  PROVE  /\ Masked(x, n) + h \in Octet
         /\ \A k \in Bits : k < n => OctetBit(Masked(x, n) + h, k) = OctetBit(x, k)
<1> DEFINE m == 2^(8 - n)
           y == Masked(x, n) + h
<1>1. x \in 0..255 /\ y \in 0..255
  BY Sizes DEF Octet, Masked
<1>2. y \div m = x \div m
  BY Sizes DEF Octet, Masked
<1> HIDE DEF m, y
<1>3. n >= 8 => y \div 1 = x \div 1
  BY <1>1, <1>2, Sizes DEF m
<1>4. n >= 7 => y \div 2 = x \div 2
  BY <1>1, <1>2, <1>3, Sizes DEF m
<1>5. n >= 6 => y \div 4 = x \div 4
  BY <1>1, <1>2, <1>4, Sizes DEF m
<1>6. n >= 5 => y \div 8 = x \div 8
  BY <1>1, <1>2, <1>5, Sizes DEF m
<1>7. n >= 4 => y \div 16 = x \div 16
  BY <1>1, <1>2, <1>6, Sizes DEF m
<1>8. n >= 3 => y \div 32 = x \div 32
  BY <1>1, <1>2, <1>7, Sizes DEF m
<1>9. n >= 2 => y \div 64 = x \div 64
  BY <1>1, <1>2, <1>8, Sizes DEF m
<1>10. n >= 1 => y \div 128 = x \div 128
  BY <1>1, <1>2, <1>9, Sizes DEF m
<1>11. y \in Octet
  BY <1>1 DEF Octet
<1>12. ASSUME NEW k \in Bits, k < n PROVE OctetBit(y, k) = OctetBit(x, k)
  <2>1. k = 0 => OctetBit(y, k) = OctetBit(x, k)
    BY <1>10, <1>12, <1>11, OctetBits
  <2>2. k = 1 => OctetBit(y, k) = OctetBit(x, k)
    BY <1>9, <1>12, <1>11, OctetBits
  <2>3. k = 2 => OctetBit(y, k) = OctetBit(x, k)
    BY <1>8, <1>12, <1>11, OctetBits
  <2>4. k = 3 => OctetBit(y, k) = OctetBit(x, k)
    BY <1>7, <1>12, <1>11, OctetBits
  <2>5. k = 4 => OctetBit(y, k) = OctetBit(x, k)
    BY <1>6, <1>12, <1>11, OctetBits
  <2>6. k = 5 => OctetBit(y, k) = OctetBit(x, k)
    BY <1>5, <1>12, <1>11, OctetBits
  <2>7. k = 6 => OctetBit(y, k) = OctetBit(x, k)
    BY <1>4, <1>12, <1>11, OctetBits
  <2>8. k = 7 => OctetBit(y, k) = OctetBit(x, k)
    BY <1>3, <1>12, <1>11, OctetBits
  <2> QED  BY BitNumbers, <2>1, <2>2, <2>3, <2>4, <2>5, <2>6, <2>7, <2>8
<1> QED  BY <1>12, <1>11 DEF y

\* An octet with the same first n bits has the same mask.
LEMMA OctetMasked ==
  ASSUME NEW x \in Octet, NEW y \in Octet, NEW n \in Nat, n <= 8,
         \A k \in Bits : k < n => OctetBit(y, k) = OctetBit(x, k)
  PROVE  Masked(y, n) = Masked(x, n)
<1>1. x \in 0..255 /\ y \in 0..255
  BY DEF Octet
<1>2. n > 0 => (y \div 128) % 2 = (x \div 128) % 2
  BY OctetBits DEF Bits
<1>3. n > 1 => (y \div 64) % 2 = (x \div 64) % 2
  BY OctetBits DEF Bits
<1>4. n > 2 => (y \div 32) % 2 = (x \div 32) % 2
  BY OctetBits DEF Bits
<1>5. n > 3 => (y \div 16) % 2 = (x \div 16) % 2
  BY OctetBits DEF Bits
<1>6. n > 4 => (y \div 8) % 2 = (x \div 8) % 2
  BY OctetBits DEF Bits
<1>7. n > 5 => (y \div 4) % 2 = (x \div 4) % 2
  BY OctetBits DEF Bits
<1>8. n > 6 => (y \div 2) % 2 = (x \div 2) % 2
  BY OctetBits DEF Bits
<1>9. n > 7 => (y \div 1) % 2 = (x \div 1) % 2
  BY OctetBits DEF Bits
<1>10. n >= 0 => y \div 256 = x \div 256
  BY <1>1
<1>11. n >= 1 => y \div 128 = x \div 128
  BY <1>1, <1>2, <1>10
<1>12. n >= 2 => y \div 64 = x \div 64
  BY <1>1, <1>3, <1>11
<1>13. n >= 3 => y \div 32 = x \div 32
  BY <1>1, <1>4, <1>12
<1>14. n >= 4 => y \div 16 = x \div 16
  BY <1>1, <1>5, <1>13
<1>15. n >= 5 => y \div 8 = x \div 8
  BY <1>1, <1>6, <1>14
<1>16. n >= 6 => y \div 4 = x \div 4
  BY <1>1, <1>7, <1>15
<1>17. n >= 7 => y \div 2 = x \div 2
  BY <1>1, <1>8, <1>16
<1>18. n >= 8 => y \div 1 = x \div 1
  BY <1>1, <1>9, <1>17
<1> DEFINE m == 2^(8 - n)
<1>19. y \div m = x \div m
  BY Sizes, <1>10, <1>11, <1>12, <1>13, <1>14, <1>15, <1>16, <1>17, <1>18
<1> QED  BY <1>1, <1>19, Sizes DEF Masked

-----------------------------------------------------------------------------
(* Four octets *)

LEMMA NetworkBitsOf ==
  ASSUME NEW prefix \in PrefixLengths, NEW i \in 1..4
  PROVE  /\ NetworkBits(prefix, i) \in Nat /\ NetworkBits(prefix, i) <= 8
         /\ \A k \in Bits : k < NetworkBits(prefix, i) <=> 8 * (i - 1) + k + 1 <= prefix
BY DEF PrefixLengths, Bits, NetworkBits

\* Bit b of an address is bit k of its octet i.
LEMMA BitPlaces ==
  ASSUME NEW a, NEW i \in 1..4, NEW k \in Bits
  PROVE  Bit(a, 8 * (i - 1) + k + 1) = OctetBit(a[i], k)
<1> DEFINE b == 8 * (i - 1) + k + 1
<1>1. 1 + (b - 1) \div 8 = i /\ (b - 1) % 8 = k
  BY DEF Bits
<1> HIDE DEF b
<1>2. Bit(a, b) = OctetBit(a[i], k)
  BY <1>1 DEF Bit, OctetBit
<1> QED  BY <1>2 DEF b

LEMMA PlaceOfBit ==
  ASSUME NEW prefix \in PrefixLengths, NEW b \in 1..prefix
  PROVE  \E i \in 1..4, k \in Bits : b = 8 * (i - 1) + k + 1 /\ k < NetworkBits(prefix, i)
<1>1. b \in Nat /\ b >= 1 /\ b <= prefix /\ prefix \in Nat /\ prefix <= 32
  BY DEF PrefixLengths
<1> DEFINE i == 1 + (b - 1) \div 8
           k == (b - 1) % 8
<1>2. i \in 1..4 /\ k \in Bits /\ b = 8 * (i - 1) + k + 1
  BY <1>1 DEF Bits
<1> HIDE DEF i, k
<1>3. k < NetworkBits(prefix, i)
  BY <1>1, <1>2, NetworkBitsOf
<1> QED  BY <1>2, <1>3

\* The definition of the subnet, octet by octet.
LEMMA SubnetByOctets ==
  ASSUME NEW a \in Address, NEW ip \in Address, NEW prefix \in PrefixLengths
  PROVE  InSubnet(a, ip, prefix) <=>
           \A i \in 1..4 : \A k \in Bits :
             k < NetworkBits(prefix, i) => OctetBit(a[i], k) = OctetBit(ip[i], k)
<1>1. ASSUME InSubnet(a, ip, prefix), NEW i \in 1..4, NEW k \in Bits,
             k < NetworkBits(prefix, i)
      PROVE  OctetBit(a[i], k) = OctetBit(ip[i], k)
  <2> DEFINE b == 8 * (i - 1) + k + 1
  <2>1. b \in 1..prefix
    BY <1>1, NetworkBitsOf DEF Bits, PrefixLengths
  <2>2. Bit(a, b) = Bit(ip, b)
    BY <1>1, <2>1 DEF InSubnet
  <2> HIDE DEF b
  <2>3. Bit(a, b) = OctetBit(a[i], k) /\ Bit(ip, b) = OctetBit(ip[i], k)
    BY BitPlaces DEF b
  <2> QED  BY <2>2, <2>3
<1>2. ASSUME \A i \in 1..4 : \A k \in Bits :
               k < NetworkBits(prefix, i) => OctetBit(a[i], k) = OctetBit(ip[i], k),
             NEW b \in 1..prefix
      PROVE  Bit(a, b) = Bit(ip, b)
  <2>1. PICK i \in 1..4, k \in Bits : b = 8 * (i - 1) + k + 1 /\ k < NetworkBits(prefix, i)
    BY PlaceOfBit
  <2>2. Bit(a, b) = OctetBit(a[i], k) /\ Bit(ip, b) = OctetBit(ip[i], k)
    BY <2>1, BitPlaces
  <2> QED  BY <1>2, <2>1, <2>2
<1> QED  BY <1>1, <1>2 DEF InSubnet

\* The network address with h in its last octet.
Host(ip, prefix, h) ==
  [i \in 1..4 |-> IF i = 4 THEN Masked(ip[4], NetworkBits(prefix, 4)) + h
                           ELSE Masked(ip[i], NetworkBits(prefix, i))]

LEMMA MaskedBase ==
  ASSUME NEW ip, NEW prefix
  PROVE  BaseIp(ip, prefix) = [i \in 1..4 |-> Masked(ip[i], NetworkBits(prefix, i))]
BY DEF BaseIp, Masked

LEMMA MaskedHost ==
  ASSUME NEW ip, NEW prefix, NEW h
  PROVE  [BaseIp(ip, prefix) EXCEPT ![4] = @ + h] = Host(ip, prefix, h)
BY MaskedBase DEF Host

\* The loop fills only bits the mask has cleared, and all of them from /24 on.
LEMMA HostCounts ==
  ASSUME NEW prefix \in PrefixLengths
  PROVE  /\ HostCount(prefix) \in Nat
         /\ HostCount(prefix) <= 2^(8 - NetworkBits(prefix, 4))
         /\ prefix >= 24 => HostCount(prefix) = 2^(8 - NetworkBits(prefix, 4))
<1>1. CASE prefix <= 24
  <2>1. NetworkBits(prefix, 4) = 0
    BY <1>1 DEF NetworkBits, PrefixLengths
  <2>2. HostCount(prefix) = IF prefix = 0 THEN 0 ELSE 256
    BY <1>1 DEF HostCount
  <2>3. 2^(8 - NetworkBits(prefix, 4)) = 256
    BY <2>1, NetworkBitsOf, Sizes
  <2>4. prefix >= 24 => HostCount(prefix) = 256
    BY <1>1, <2>2 DEF PrefixLengths
  <2> QED  BY <2>2, <2>3, <2>4
<1>2. CASE prefix > 24
  <2>1. 32 - prefix = 8 - NetworkBits(prefix, 4)
    BY <1>2 DEF NetworkBits, PrefixLengths
  <2>2. HostCount(prefix) = 2^(32 - prefix)
    BY <1>2 DEF HostCount, PrefixLengths
  <2>3. HostCount(prefix) = 2^(8 - NetworkBits(prefix, 4))
    BY <2>1, <2>2, Zenon
  <2>4. 2^(8 - NetworkBits(prefix, 4)) \in Nat
    BY NetworkBitsOf, Sizes
  <2> QED  BY <2>3, <2>4
<1> QED  BY <1>1, <1>2 DEF PrefixLengths

-----------------------------------------------------------------------------
(* The scan *)

\* Every address that is dialled belongs to the subnet, for every prefix: a /16
\* is scanned in its first 256 addresses and never beyond its end.
\* (scan, src/network_scanner.cpp:100-134)
THEOREM ScanStaysInside ==
  ASSUME NEW ip \in Address, NEW prefix \in PrefixLengths, NEW a \in DialledAddresses(ip, prefix)
  PROVE  a \in Address /\ InSubnet(a, ip, prefix) /\ a # BaseIp(ip, prefix)
<1> DEFINE n(i) == NetworkBits(prefix, i)
<1>1. PICK h \in 1..(HostCount(prefix) - 1) : a = [BaseIp(ip, prefix) EXCEPT ![4] = @ + h]
  BY DEF DialledAddresses
<1>2. h \in Nat /\ h >= 1 /\ h < 2^(8 - n(4)) /\ 2^(8 - n(4)) \in Nat
  BY HostCounts, NetworkBitsOf, Sizes
<1>3. a = [i \in 1..4 |-> IF i = 4 THEN Masked(ip[4], n(4)) + h ELSE Masked(ip[i], n(i))]
  <2>1. a = Host(ip, prefix, h)
    BY <1>1, MaskedHost
  <2> QED  BY <2>1 DEF Host
<1>4. \A i \in 1..4 : ip[i] \in Octet /\ n(i) \in Nat /\ n(i) <= 8
  BY NetworkBitsOf DEF Address
<1> HIDE DEF n
<1>5. ASSUME NEW i \in 1..4
      PROVE  a[i] \in Octet /\ \A k \in Bits : k < n(i) => OctetBit(a[i], k) = OctetBit(ip[i], k)
  <2>1. CASE i = 4
    <3>1. /\ Masked(ip[4], n(4)) + h \in Octet
          /\ \A k \in Bits : k < n(4) => OctetBit(Masked(ip[4], n(4)) + h, k) = OctetBit(ip[4], k)
      BY <1>2, <1>4, OctetFilled
    <3> QED  BY <1>3, <2>1, <3>1
  <2>2. CASE i # 4
    <3>1. 0 < 2^(8 - n(i))
      BY <1>4, Sizes
    <3>2. Masked(ip[i], n(i)) + 0 \in Octet
          /\ \A k \in Bits : k < n(i) => OctetBit(Masked(ip[i], n(i)) + 0, k) = OctetBit(ip[i], k)
      BY <1>4, <3>1, OctetFilled
    <3>3. a[i] = Masked(ip[i], n(i)) + 0
      BY <1>3, <1>4, <2>2, Sizes DEF Masked, Octet
    <3> QED  BY <3>2, <3>3
  <2> QED  BY <2>1, <2>2
<1>6. a \in Address
  <2>1. DOMAIN a = 1..4 /\ a = [i \in 1..4 |-> a[i]]
    BY <1>3
  <2> QED  BY <1>5, <2>1 DEF Address
<1>7. InSubnet(a, ip, prefix)
  BY <1>5, <1>6, SubnetByOctets DEF n
<1>8. a # BaseIp(ip, prefix)
  <2>1. a[4] = Masked(ip[4], n(4)) + h
    BY <1>3
  <2>2. BaseIp(ip, prefix)[4] = Masked(ip[4], n(4))
    BY MaskedBase DEF n
  <2>3. Masked(ip[4], n(4)) \in Int
    BY <1>4, Sizes DEF Masked, Octet
  <2> QED  BY <1>2, <2>1, <2>2, <2>3
<1> QED  BY <1>6, <1>7, <1>8

\* From /24 on the scan leaves out no address of the subnet but its first, the
\* network's own.  (host_count, src/network_scanner.cpp:113)
THEOREM ScanCoversSubnet ==
  ASSUME NEW ip \in Address, NEW prefix \in PrefixLengths, prefix >= 24,
         NEW a \in Address, InSubnet(a, ip, prefix), a # BaseIp(ip, prefix)
  PROVE  a \in DialledAddresses(ip, prefix)
<1> DEFINE n(i) == NetworkBits(prefix, i)
           h == a[4] % 2^(8 - n(4))
<1>1. \A i \in 1..4 : a[i] \in Octet /\ ip[i] \in Octet /\ n(i) \in Nat /\ n(i) <= 8
  BY NetworkBitsOf DEF Address
<1>2. \A i \in 1..4 : Masked(a[i], n(i)) = Masked(ip[i], n(i))
  BY <1>1, SubnetByOctets, OctetMasked
<1>3. \A i \in 1..3 : a[i] = Masked(ip[i], n(i))
  <2>1. \A i \in 1..3 : n(i) = 8
    BY DEF NetworkBits, PrefixLengths
  <2>2. ASSUME NEW x \in Octet PROVE Masked(x, 8) = x
    <3>1. x % 2^(8 - 8) = 0
      BY DEF Octet
    <3> QED  BY <3>1 DEF Masked, Octet
  <2> HIDE DEF n
  <2> QED  BY <1>1, <1>2, <2>1, <2>2
<1>4. a[4] = Masked(ip[4], n(4)) + h /\ h \in Nat /\ h < 2^(8 - n(4))
  <2>1. a[4] = Masked(a[4], n(4)) + h /\ h \in Nat /\ h < 2^(8 - n(4))
    BY <1>1, Sizes DEF Masked, Octet
  <2> QED  BY <1>2, <2>1
<1> HIDE DEF n, h
<1>5. a = [i \in 1..4 |-> IF i = 4 THEN Masked(ip[4], n(4)) + h ELSE Masked(ip[i], n(i))]
  BY <1>3, <1>4 DEF Address
<1>6. a = [BaseIp(ip, prefix) EXCEPT ![4] = @ + h]
  BY <1>5, MaskedHost DEF Host, n
<1>7. h # 0
  <2>1. BaseIp(ip, prefix) = [i \in 1..4 |-> Masked(ip[i], n(i))]
    BY MaskedBase DEF n
  <2>2. Masked(ip[4], n(4)) \in Int
    BY <1>1, Sizes DEF Masked, Octet
  <2>3. h = 0 => a = BaseIp(ip, prefix)
    BY <1>5, <2>1, <2>2
  <2> QED  BY <2>3
<1>8. h \in 1..(HostCount(prefix) - 1)
  BY <1>4, <1>7, HostCounts DEF n
<1> QED  BY <1>6, <1>8 DEF DialledAddresses
===============================================================================
