-------------------------- MODULE MCScanExecution --------------------------
EXTENDS ScanExecution, TLC
CONSTANTS s1, c1, c2, w1, v1
Symmetry == Permutations({c1, c2})

(* Two instances in one run: a stop among viewers, results and a second    *)
(* connection, or any two requests of users on a single connection.        *)
MCInit ==
    \/ InitFor(Stops, 1)
    \/ \E asked \in SUBSET (Stops \cup Continues) :
         Cardinality(asked) = 2 /\ InitFor(asked, MaxConns)
MCSpec == MCInit /\ [][Next]_vars
=============================================================================
