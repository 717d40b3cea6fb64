----------------------------- MODULE MCFpReview -----------------------------
(* Instances for TLC: findings are model values, and interchangeable.      *)
EXTENDS FpReview, TLC
CONSTANTS v1, v2
ItemSymmetry == Permutations(Items)
=============================================================================
