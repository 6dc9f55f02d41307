---------------------------- MODULE MCChatRooms ----------------------------
(* Instances of ChatRooms for TLC. *)
EXTENDS ChatRooms, TLC

\* Connections differ in nothing but their names; no liveness is checked.
Interchangeable == Permutations(Connections) \union Permutations(Rooms)
=============================================================================
