----------------------------- MODULE MCVetting ------------------------------
(* Vetting for TLC. *)
EXTENDS Vetting, TLC
=============================================================================
