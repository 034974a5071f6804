------------------------------ MODULE MCRelay -------------------------------
(* Relay for TLC. *)
EXTENDS Relay

\* A batch of two; or a ring that overflows.
SmallLimits == {[sync |-> 2, seen |-> 3], [sync |-> 1, seen |-> 1]}
=============================================================================
