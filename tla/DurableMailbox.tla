---------------------------- MODULE DurableMailbox ----------------------------
(***************************************************************************)
(* What the Agent's outbox promises the code that reports through it: a    *)
(* durable mailbox with one place per report identity.  A newer report     *)
(* replaces an older one of its identity; the place is emptied only after  *)
(* the server has decided about the very report that is in it.  The server *)
(* may decide about a report more than once, and about one that was        *)
(* replaced.  A crash of the Agent is not a step of the mailbox.           *)
(***************************************************************************)
EXTENDS Naturals

CONSTANT Identities

VARIABLES
    box,       \* the number of the report in each place, 0 when it is empty
    last,      \* the number of the newest report ever put in each place
    decided    \* <<identity, number>> of the reports the server decided about

Init ==
    /\ box = [i \in Identities |-> 0]
    /\ last = [i \in Identities |-> 0]
    /\ decided = {}

Put(i) ==
    /\ last'[i] \in Nat /\ last'[i] > last[i]
    /\ last' = [last EXCEPT ![i] = last'[i]]
    /\ box' = [box EXCEPT ![i] = last'[i]]
    /\ UNCHANGED decided

Decide ==
    /\ \E i \in Identities : \E n \in 1..last[i] : decided' = decided \cup {<<i, n>>}
    /\ UNCHANGED <<box, last>>

Remove(i) ==
    /\ <<i, box[i]>> \in decided
    /\ box' = [box EXCEPT ![i] = 0]
    /\ UNCHANGED <<last, decided>>

Next == Decide \/ \E i \in Identities : Put(i) \/ Remove(i)

Spec == Init /\ [][Next]_<<box, last, decided>>

===============================================================================
