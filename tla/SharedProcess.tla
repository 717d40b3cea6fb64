---------------------------- MODULE SharedProcess ----------------------------
(***************************************************************************)
(* What OpenCodeServeManager promises those who share the OpenCode process:*)
(* a process is used by many, is stopped, started and given another        *)
(* configuration only while nobody uses it, and admits no new session once *)
(* it was declared unusable.  It may exit by itself at any time; who used  *)
(* it then gives it back before another one starts, so nobody ever uses    *)
(* two processes as if they were one.                                      *)
(***************************************************************************)
EXTENDS Naturals

CONSTANTS
    Users,     \* who may use the process
    Sessions,  \* those who hold it for a whole session
    Confs,     \* configurations it may be started with
    Gone       \* there is no process

VARIABLES process, users, exits

Init == process = Gone /\ users = {} /\ exits = 0

Start(c) ==
    /\ process = Gone /\ users = {}
    /\ process' = [conf |-> c, unusable |-> FALSE]
    /\ UNCHANGED <<users, exits>>

Stop ==
    /\ process # Gone /\ users = {}
    /\ process' = Gone
    /\ UNCHANGED <<users, exits>>

Exit ==
    /\ process # Gone
    /\ process' = Gone /\ exits' = exits + 1
    /\ UNCHANGED users

GivenUp ==
    /\ process # Gone
    /\ process' = [conf |-> process.conf, unusable |-> TRUE]
    /\ UNCHANGED <<users, exits>>

Join(u) ==
    /\ process # Gone /\ u \notin users
    /\ u \in Sessions => ~process.unusable
    /\ users' = users \cup {u}
    /\ UNCHANGED <<process, exits>>

Leave(u) ==
    /\ u \in users
    /\ users' = users \ {u}
    /\ UNCHANGED <<process, exits>>

Next ==
    \/ \E c \in Confs : Start(c)
    \/ Stop \/ Exit \/ GivenUp
    \/ \E u \in Users : Join(u) \/ Leave(u)

Spec == Init /\ [][Next]_<<process, users, exits>>

=============================================================================
