---------------------------- MODULE MCChatRooms ----------------------------
(* Instances of ChatRooms for TLC. *)
EXTENDS ChatRooms, TLC

Symmetric == Permutations(Users) \cup Permutations(Rooms)
=============================================================================
