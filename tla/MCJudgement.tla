---------------------------- MODULE MCJudgement ----------------------------
(* Instances of Judgement for TLC. *)
EXTENDS Judgement, TLC

\* Users and reports may be exchanged.
Symmetric == Permutations(Users) \cup Permutations(Reports)
=============================================================================
