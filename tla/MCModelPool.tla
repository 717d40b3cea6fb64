---------------------------- MODULE MCModelPool ----------------------------
(* Small instances of ModelPool for TLC.                                   *)
EXTENDS ModelPool

CONSTANTS q1, q2, q3, a, b, off

Row(i, c, m) == [ident |-> i, cap |-> c, max |-> m]

(* Two targets of different capability.                                    *)
TwoRows == {<<Row(a, 1, 1), Row(b, 2, 1)>>}
(* The administrator retires row 2, or gives it to target a with one slot  *)
(* more on row 1, or renames row 1 to row 2, or swaps the two targets.     *)
Changing == TwoRows \cup {<<Row(a, 1, 1), off>>, <<Row(a, 1, 2), Row(a, 2, 1)>>,
                         <<off, Row(a, 2, 1)>>, <<Row(b, 1, 1), Row(a, 2, 1)>>}
(* Row 1 is renamed to row 2.                                              *)
Rename == {<<Row(a, 1, 1), off>>, <<off, Row(a, 1, 1)>>}
(* One target with two slots.                                              *)
OneRow == {<<Row(a, 1, 2)>>}

Each(x, y, z) == [q \in Requests |-> CASE q = q1 -> x [] q = q2 -> y [] OTHER -> z]
MCPriority == Each(50, 50, 90)
MCRequired == Each(1, 2, 0)
MCWaits    == Each(TRUE, FALSE, TRUE)
Low == [q \in Requests |-> 0]
Everyone == [q \in Requests |-> TRUE]
Nobody == [q \in Requests |-> FALSE]
Equal == [q \in Requests |-> 50]

=============================================================================
