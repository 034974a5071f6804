----------------------------- MODULE MCAccount ------------------------------
(* Account for TLC. *)
EXTENDS Account
=============================================================================
