--------------------------- MODULE MCReportOutbox ---------------------------
(* Small instances of ReportOutbox for TLC.                                *)
EXTENDS ReportOutbox, TLC

CONSTANTS audit, finish, task, s1, p1, p2

(* The reports of one scan.                                                *)
OneStream == [k \in Keys |-> s1]

(* Callers are interchangeable.                                            *)
CallerSymmetry == Permutations(Callers)

=============================================================================
