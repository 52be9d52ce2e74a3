-------------------------- MODULE MCFinalityNetwork --------------------------
EXTENDS FinalityNetwork, TLC

CONSTANTS a, b, c, d, x, y, w

(* x and y compete for the first boundary, w stands at the second.         *)
MCHeightOf == [k \in Blocks |-> IF k = w THEN 2 ELSE 1]

(* The set is no larger than committee_size: every candidate has the same  *)
(* committee.                                                              *)
Shared == [k \in Blocks |-> Validators]

Symmetric == Permutations(Honest)
=============================================================================
