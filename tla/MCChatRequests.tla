--------------------------- MODULE MCChatRequests ---------------------------
(* Instances of ChatRequests for TLC. *)
EXTENDS ChatRequests, TLC

\* Users and request ids may be exchanged.
Symmetric == Permutations(Users) \cup Permutations(Requests)
=============================================================================
