---------------------------- MODULE OneExecution ----------------------------
(***************************************************************************)
(* What the control revision of a scan promises: the Agent runs at most    *)
(* one execution of the scan at a time, and each revision at most once, in *)
(* increasing order, whatever commands are repeated, late or lost.         *)
(***************************************************************************)
EXTENDS Naturals

VARIABLES live,  \* the revisions whose execution runs
          last   \* the newest revision that was ever started

Init == live = {} /\ last = 0

Start(r) == live = {} /\ r > last /\ live' = {r} /\ last' = r

Ends == live # {} /\ live' = {} /\ UNCHANGED last

Next == Ends \/ \E r \in live' : Start(r)

Spec == Init /\ [][Next]_<<live, last>>

=============================================================================
