------------------------------ MODULE LeasePool ------------------------------
(***************************************************************************)
(* What the model pool promises the tasks that use it: a model row is a    *)
(* semaphore with a number of slots that an administrator may change at    *)
(* any time.  A task takes a slot only while the row has a free one, keeps *)
(* it however the configuration changes, and gives back only its own slot. *)
(* Lowering a row's slots, or removing the row, takes nothing away.        *)
(***************************************************************************)
EXTENDS Naturals, FiniteSets

CONSTANTS Tasks, Models, Nobody   \* Nobody: the task holds no slot

VARIABLES
    holding,   \* the model row each task holds a slot of
    slots      \* the slots each row is configured to have

HoldersOf(m) == {t \in Tasks : holding[t] = m}

Init ==
    /\ holding = [t \in Tasks |-> Nobody]
    /\ slots \in [Models -> Nat]

Take(t, m) ==
    /\ holding[t] = Nobody
    /\ Cardinality(HoldersOf(m)) < slots[m]
    /\ holding' = [holding EXCEPT ![t] = m]
    /\ UNCHANGED slots

Give(t) ==
    /\ holding[t] # Nobody
    /\ holding' = [holding EXCEPT ![t] = Nobody]
    /\ UNCHANGED slots

Configure ==
    /\ slots' \in [Models -> Nat]
    /\ UNCHANGED holding

Next ==
    \/ \E t \in Tasks : Give(t) \/ \E m \in Models : Take(t, m)
    \/ Configure

Spec == Init /\ [][Next]_<<holding, slots>>

=============================================================================
