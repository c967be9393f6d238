----------------------------- MODULE MCModbusLink -----------------------------
(* A small instance of ModbusLink: two register ranges of different length,  *)
(* one dotted address and one host name.                                     *)
EXTENDS ModbusLink

MCRequests == {[addr |-> 39077, count |-> 1], [addr |-> 39134, count |-> 2]}
MCHosts == {"192.168.1.10", "solakon.local"}
MCAddresses == {"192.168.1.10"}
===============================================================================
