---------------------------- MODULE MCResponder -----------------------------
(* Responder for TLC. *)
EXTENDS Responder

CONSTANTS d1, d2

\* Two devices of the user, or one that starts over.
TwoOrOne == {<<d1, d2>>, <<d1, d1>>}
=============================================================================
