----------------------------- MODULE MCSelfHeal -----------------------------
(* SelfHeal for TLC. *)
EXTENDS SelfHeal, TLC
=============================================================================
