------------------------------ MODULE EventFeed ------------------------------
(***************************************************************************)
(* What the live updates of a scan promise a page: rows are only appended, *)
(* above every id there is, and a page that remembers an id shows every    *)
(* row up to it.  So the id it remembers is enough to go on from, after    *)
(* whatever pause and on whatever replica.  A page joins by showing all    *)
(* there is; one that joined too early (excused) may pass rows unseen.     *)
(***************************************************************************)
EXTENDS Naturals

CONSTANT Pages

VARIABLES
    log,      \* the stored rows, each with an id and an event
    upTo,     \* the id each page remembers
    shown,    \* the events each page shows
    excused   \* the pages that joined too early

Init ==
    /\ log = {} /\ upTo = [p \in Pages |-> 0]
    /\ shown = [p \in Pages |-> {}] /\ excused = [p \in Pages |-> FALSE]

Append ==
    /\ log \subseteq log'
    /\ \A x \in log' \ log : \A y \in log : y.id < x.id
    /\ UNCHANGED <<upTo, shown, excused>>

Shows(p) == shown[p] \subseteq shown'[p] /\ shown' = [shown EXCEPT ![p] = shown'[p]]

Join(p) ==
    /\ Shows(p) /\ \A x \in log : x.event \in shown'[p]
    /\ \E b \in BOOLEAN : excused' = [excused EXCEPT ![p] = b]
    /\ UNCHANGED <<log, upTo>>

Follow(p) ==
    /\ Shows(p)
    /\ \E i \in {upTo[p]} \cup {x.id : x \in log} :
         /\ upTo[p] <= i /\ upTo' = [upTo EXCEPT ![p] = i]
         /\ excused[p] \/ \A x \in log : x.id <= i => x.event \in shown'[p]
    /\ UNCHANGED <<log, excused>>

Next == Append \/ \E p \in Pages : Join(p) \/ Follow(p)

Spec == Init /\ [][Next]_<<log, upTo, shown, excused>>

=============================================================================
