--------------------------- MODULE MCServeManager ---------------------------
(* Instances for TLC: p1 and p2 read the graph of one scan, p3 of another. *)
EXTENDS ServeManager, TLC
CONSTANTS p1, p2, p3, l1, u1, g1, g2
MCScan == [p \in Prompts |-> IF p = p3 THEN g2 ELSE g1]
SameScan == Permutations({p1, p2})
=============================================================================
