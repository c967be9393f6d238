----------------------------- MODULE RegisterRead -----------------------------
(***************************************************************************)
(* What a register read of the Modbus client amounts to, without a         *)
(* network: a caller asks for a range of holding registers, and the call   *)
(* ends with the contents of exactly that range or with an error.  This is *)
(* what include/modbus_client.h promises.  The code keeps the promise as   *)
(* long as the connection can be trusted: once a call has given up, later  *)
(* calls may return anything, until the connection is replaced.            *)
(***************************************************************************)
EXTENDS Integers

CONSTANT Requests    \* the register ranges [addr, count] a caller may ask for

VARIABLES
  asked,             \* the range being read, or Nothing between calls
  result,            \* what the last call returned: a range, Error or Nothing
  trusted            \* has no call given up on this connection?

vars == <<asked, result, trusted>>

Nothing == [status |-> "nothing"]
Error   == [status |-> "error"]
Data(r) == [status |-> "data", of |-> r]

Init == asked = Nothing /\ result = Nothing /\ trusted = TRUE

\* A call begins.
Ask(r) ==
  /\ asked = Nothing
  /\ asked' = r
  /\ result' = Nothing
  /\ UNCHANGED trusted

\* The call returns the registers that were asked for.
Give ==
  /\ asked # Nothing
  /\ result' = Data(asked)
  /\ asked' = Nothing
  /\ UNCHANGED trusted

\* The call returns some registers, on a connection that cannot be trusted.
GiveSome ==
  /\ ~trusted
  /\ asked # Nothing
  /\ result'.status = "data"
  /\ asked' = Nothing
  /\ UNCHANGED trusted

\* The call returns an error, and may leave a connection not to be trusted.
Fail ==
  /\ asked # Nothing
  /\ result' = Error
  /\ asked' = Nothing
  /\ trusted' \in {trusted, FALSE}

\* The connection is replaced or closed: nothing is left of it.
Renew ==
  /\ asked = Nothing
  /\ result' = Nothing
  /\ trusted' = TRUE
  /\ UNCHANGED asked

Next == (\E r \in Requests : Ask(r)) \/ Give \/ GiveSome \/ Fail \/ Renew

Spec == Init /\ [][Next]_vars
===============================================================================
