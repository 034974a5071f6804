------------------------------ MODULE MCLobby -------------------------------
(* Lobby for TLC. *)
EXTENDS Lobby, TLC

\* Rooms and users are interchangeable in the safety properties.
Alike == {f @@ g : f \in Permutations(Rooms), g \in Permutations(Users)}
=============================================================================
