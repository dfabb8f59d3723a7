-------------------------------- MODULE Clock --------------------------------
(***************************************************************************)
(* The wall clock (Date.now) that the protocol state, the daemon and the   *)
(* engine's session manager all read.  Time is a natural number of clock   *)
(* units that only moves forward; a step of the host's clock backwards is  *)
(* not modelled.                                                           *)
(***************************************************************************)
EXTENDS Integers

CONSTANT MaxTime  \* bound: the clock stops here

ASSUME ClockAssumption == MaxTime \in Nat

VARIABLE now

ClockInit == now = 0

\* Time passes between any two steps of the program.
Tick == now < MaxTime /\ now' = now + 1
=============================================================================
