---------------------------- MODULE MCTaskService ----------------------------
(* A small instance of TaskService for TLC.                                *)
EXTENDS TaskService

CONSTANTS t1, t2, t3, m1, s1

(* Two tasks of the first run continue one session, a task of the second   *)
(* run opens its own.                                                      *)
MCSession == [t \in Tasks |-> IF t = t3 THEN Nobody ELSE s1]
MCRun == [t \in Tasks |-> IF t = t3 THEN 2 ELSE 1]
OfThem(x, y, z) == [t \in Tasks |-> CASE t = t1 -> x [] t = t2 -> y [] OTHER -> z]
MCAttempts == OfThem(2, 1, 1)
MCValidations == OfThem(0, 1, 0)
MCCorrections == OfThem(1, 2, 0)
TwoSlots == [m \in Models |-> 2]

=============================================================================
