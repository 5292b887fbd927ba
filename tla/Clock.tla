------------------------------- MODULE Clock --------------------------------
(* std::chrono::steady_clock, in ticks that are far longer than a call.     *)
EXTENDS Integers

CONSTANT MaxTime   \* bound on the clock

ASSUME BoundAssumption == MaxTime \in Nat

VARIABLE now
=============================================================================
