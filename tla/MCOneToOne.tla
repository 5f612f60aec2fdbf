---------------------------- MODULE MCOneToOne ----------------------------
(* Instances of OneToOne for TLC. *)
EXTENDS OneToOne, TLC

\* Men and women may be exchanged among themselves.
Symmetric == Permutations(Men) \cup Permutations(Users \ Men)
=============================================================================
