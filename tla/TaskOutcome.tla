----------------------------- MODULE TaskOutcome -----------------------------
(***************************************************************************)
(* What the task service promises those who submit tasks, on top of what   *)
(* the model pool promises the service: a task may take a slot, give it    *)
(* back and take another one, but it gets one result, which stays; with    *)
(* the result it gives up its slot and its end is recorded, in one step.   *)
(* It succeeds, or times out, only with a slot.  Once the service said     *)
(* that the stopped executions are quiet, none of their tasks begins.      *)
(***************************************************************************)
EXTENDS Naturals

CONSTANTS
    Tasks, Models, Nobody,   \* as in LeasePool
    Statuses,                \* the results there are
    Stopped                  \* the tasks of the executions a stop names

VARIABLES
    holding, slots,   \* as in LeasePool
    result,           \* the result of each task, Nobody while it has none
    records,          \* how often its end was recorded
    quiet             \* the stop was told that nothing is active

Pool == INSTANCE LeasePool

Init ==
    /\ Pool!Init
    /\ result = [t \in Tasks |-> Nobody] /\ records = [t \in Tasks |-> 0]
    /\ quiet = FALSE

Begin(t) ==
    /\ result[t] = Nobody /\ ~(quiet /\ t \in Stopped)
    /\ \E m \in Models : Pool!Take(t, m)
    /\ UNCHANGED <<result, records, quiet>>

Pause(t) == Pool!Give(t) /\ UNCHANGED <<result, records, quiet>>

Gets(t, status) ==
    /\ result[t] = Nobody
    /\ result' = [result EXCEPT ![t] = status]
    /\ UNCHANGED quiet

Recorded(t) == records' = [records EXCEPT ![t] = @ + 1]

End(t, status) == Gets(t, status) /\ Pool!Give(t) /\ Recorded(t)

(* It ends while it waits for a slot; cancelled, it may leave no record.   *)
GiveUp(t, status) ==
    /\ Gets(t, status) /\ holding[t] = Nobody
    /\ Recorded(t) \/ (status = "cancelled" /\ UNCHANGED records)
    /\ UNCHANGED <<holding, slots>>

FallQuiet ==
    /\ \A t \in Stopped : holding[t] = Nobody
    /\ quiet' = TRUE
    /\ UNCHANGED <<holding, slots, result, records>>

Next ==
    \/ \E t \in Tasks : Begin(t) \/ Pause(t)
    \/ \E t \in Tasks, status \in Statuses : End(t, status)
    \/ \E t \in Tasks, status \in {"failure", "cancelled"} : GiveUp(t, status)
    \/ FallQuiet

Spec == Init /\ [][Next]_<<holding, slots, result, records, quiet>>

=============================================================================
