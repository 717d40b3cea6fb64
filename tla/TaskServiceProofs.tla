--------------------------- MODULE TaskServiceProofs ---------------------------
(***************************************************************************)
(* Safety of the task service for every number of tasks, sessions, models  *)
(* and runs.                                                               *)
(***************************************************************************)
EXTENDS TaskService, TLAPS

(* What the properties need: a task has ended when it is done, holds a slot*)
(* only while it talks, and the lock of the session it talks in.           *)
DoneHasEnded == \A t \in Tasks : At(t, {"done"}) <=> result[t] # Nobody
SlotsAreUsed == \A t \in Tasks : holding[t] # Nobody => At(t, Leased)
LocksAreHeld ==
    \A t \in Tasks : At(t, {"talking", "correcting"}) /\ SessionFor(t) # Nobody
                        => lock[SessionFor(t)] = t

(* After the stop no run it names is in force, or its event is set, and    *)
(* what such a run submits finds itself cancelled before it has a slot.    *)
Stopping == stop.at = "waiting" \/ stop.quiet
RunsStopped == Stopping => entry = 0 \/ entry \in ext \/ entry > StopRun
TasksStopped ==
    Stopping => \A t \in Tasks : RunOf[t] <= StopRun =>
        \/ t \in stop.matched
        \/ At(t, {"new", "done"})
        \/ At(t, {"queued"}) /\ Cancelled(t)
MatchedAreDone == stop.quiet => stop.at = "told" /\ \A t \in stop.matched : At(t, {"done"})

Inv ==
    /\ TypeOK /\ DoneHasEnded /\ SlotsAreUsed /\ LocksAreHeld /\ RecordedOnce
    /\ RunsStopped /\ TasksStopped /\ MatchedAreDone

USE TaskAssumption DEF Runs, Queues, Leased, Talking, Statuses

-----------------------------------------------------------------------------
(* How the parts of a step change one task.                                *)

Phases == {"new", "done"} \cup Queues \cup Leased
Record == [at : Phases, attempt : Nat, turn : Nat, cancel : BOOLEAN]

(* The fields of a task's record.                                           *)
LEMMA RecordFields ==
    ASSUME TypeOK, NEW t \in Tasks
    PROVE  /\ rec \in [Tasks -> Record] /\ rec[t] \in Record
           /\ rec[t].at \in Phases /\ rec[t].attempt \in Nat /\ rec[t].turn \in Nat
           /\ rec[t].cancel \in BOOLEAN /\ rec[t].attempt <= Attempts[t]
BY DEF TypeOK, Record, Phases

(* A task goes on to another phase.                                        *)
LEMMA GoesEffect ==
    ASSUME TypeOK, NEW t \in Tasks, NEW to \in Phases, Goes(t, to)
    PROVE  /\ rec' \in [Tasks -> Record]
           /\ \A u \in Tasks \ {t} : rec'[u] = rec[u]
           /\ rec'[t].at = to /\ rec'[t].attempt = rec[t].attempt
           /\ rec'[t].turn = rec[t].turn /\ rec'[t].cancel = rec[t].cancel
<1>1. [rec[t] EXCEPT !.at = to] \in Record
  BY RecordFields DEF Record
<1>2. rec' = [rec EXCEPT ![t] = [rec[t] EXCEPT !.at = to]]
  BY DEF Goes
<1>3. rec[t] \in Record /\ rec \in [Tasks -> Record]
  BY RecordFields
<1> QED
  BY <1>1, <1>2, <1>3 DEF Record

(* A task that gives up its slot gives up its lock, and no other.          *)
LEMMA ReleaseEffect ==
    ASSUME TypeOK, NEW t \in Tasks, NEW b, Releases(t, b)
    PROVE  /\ lock' \in [Shared -> Tasks \cup {Nobody}]
           /\ \A s \in Shared : lock[s] # t => lock'[s] = lock[s]
           /\ holding' = [holding EXCEPT ![t] = Nobody] /\ slots' = slots
           /\ records' = [records EXCEPT ![t] = @ + IF b THEN 1 ELSE 0]
BY DEF Releases, Unlocks, Records, Pool!Give, TypeOK

(* A failed attempt: the task is queued again, or done.                    *)
LEMMA RetryEffect ==
    ASSUME TypeOK, NEW t \in Tasks, NEW s \in {"failure", "timeout"}, RetriesOrFinishes(t, s)
    PROVE  /\ rec' \in [Tasks -> Record]
           /\ \A u \in Tasks \ {t} : rec'[u] = rec[u]
           /\ rec'[t].cancel = rec[t].cancel /\ rec'[t].attempt <= Attempts[t]
           /\ \/ HasRetry(t) /\ rec'[t].at = "queued" /\ result' = result
              \/ ~HasRetry(t) /\ rec'[t].at = "done" /\ result' = [result EXCEPT ![t] = s]
<1>1. CASE HasRetry(t)
  <2> DEFINE r == [at |-> "queued", attempt |-> rec[t].attempt + 1, turn |-> 0, cancel |-> rec[t].cancel]
  <2>1. rec' = [rec EXCEPT ![t] = r] /\ result' = result
    BY <1>1 DEF RetriesOrFinishes, Retries, Requeues
  <2>2. r \in Record /\ r.at = "queued" /\ r.cancel = rec[t].cancel /\ r.attempt = rec[t].attempt + 1
    BY RecordFields DEF Record, Phases
  <2>3. rec[t].attempt + 1 <= Attempts[t]
    <3>1. rec[t].attempt \in Nat /\ Attempts[t] \in Nat
      BY RecordFields
    <3>2. rec[t].attempt < Attempts[t]
      BY <1>1 DEF HasRetry
    <3> QED BY <3>1, <3>2
  <2>4. rec \in [Tasks -> Record]
    BY RecordFields
  <2> HIDE DEF r
  <2>5. rec'[t] = r /\ rec' \in [Tasks -> Record] /\ \A u \in Tasks \ {t} : rec'[u] = rec[u]
    BY <2>1, <2>2, <2>4
  <2> QED BY <1>1, <2>1, <2>2, <2>3, <2>5
<1>2. CASE ~HasRetry(t)
  BY <1>2, GoesEffect, RecordFields DEF RetriesOrFinishes, Finishes, Phases
<1> QED BY <1>1, <1>2

-----------------------------------------------------------------------------
(* A step of one task: what it leaves alone, and what holds of it after.   *)

Alone(t) ==
    /\ ~At(t, {"done"})
    /\ \A u \in Tasks \ {t} : /\ rec'[u] = rec[u] /\ result'[u] = result[u]
                              /\ records'[u] = records[u] /\ holding'[u] = holding[u]
    /\ \A u \in Tasks \ {t}, s \in Shared : lock[s] = u => lock'[s] = u
    /\ UNCHANGED <<entry, runs, ext, stop>>

Typed ==
    /\ rec \in [Tasks -> Record] /\ \A t \in Tasks : rec[t].attempt <= Attempts[t]
    /\ result \in [Tasks -> Statuses \cup {Nobody}] /\ records \in [Tasks -> Nat]
    /\ lock \in [Shared -> Tasks \cup {Nobody}]
    /\ holding \in [Tasks -> Models \cup {Nobody}] /\ slots = Slots

Ended(t) == At(t, {"done"}) <=> result[t] # Nobody
Uses(t) == holding[t] # Nobody => At(t, Leased)
Locks(t) == At(t, {"talking", "correcting"}) /\ SessionFor(t) # Nobody => lock[SessionFor(t)] = t
Recorded(t) ==
    /\ ~At(t, {"done"}) => records[t] = 0
    /\ At(t, {"done"}) => IF result[t] = "cancelled" THEN records[t] \in {0, 1} ELSE records[t] = 1
Stopped(t) == Stopping /\ RunOf[t] <= StopRun =>
    t \in stop.matched \/ At(t, {"new", "done"}) \/ (At(t, {"queued"}) /\ Cancelled(t))

Own(t) == Ended(t) /\ Uses(t) /\ Locks(t) /\ Recorded(t) /\ Stopped(t)

(* The invariant, task by task.                                             *)
LEMMA OwnOfInv == Inv => Typed /\ \A t \in Tasks : Own(t)
<1> SUFFICES ASSUME Inv, NEW t \in Tasks PROVE Typed /\ Own(t)
  BY DEF Inv, TypeOK, Typed, Record, Phases
<1>1. Typed
  BY DEF Inv, TypeOK, Typed, Record, Phases
<1>2. Ended(t) /\ Uses(t) /\ Locks(t) /\ Stopped(t)
  BY DEF Inv, Ended, DoneHasEnded, Uses, SlotsAreUsed, Locks, LocksAreHeld, Stopped, TasksStopped
<1>3. Recorded(t)
  BY DEF Inv, DoneHasEnded, Recorded, RecordedOnce, At
<1> QED BY <1>1, <1>2, <1>3 DEF Own

(* A new task is queued, or, after the stop, done.                          *)
LEMMA Submits ==
    ASSUME Inv, NEW t \in Tasks, Submit(t)
    PROVE  Alone(t) /\ Typed' /\ Own(t)'
<1>1. Typed /\ Own(t)
  BY OwnOfInv
<1>2. /\ rec' \in [Tasks -> Record]
      /\ \A u \in Tasks \ {t} : rec'[u] = rec[u]
      /\ rec'[t].at = "queued" /\ rec'[t].attempt = rec[t].attempt
      /\ rec'[t].cancel = rec[t].cancel
  BY GoesEffect DEF Submit, Inv, Phases
<1>3. /\ At(t, {"new"}) /\ (entry = RunOf[t] \/ RunOf[t] \in ext)
      /\ UNCHANGED <<result, records, lock, holding, slots, entry, runs, ext, stop>>
  BY DEF Submit, TaskOnly, runVars
<1>4. Alone(t) /\ Typed'
  BY <1>1, <1>2, <1>3 DEF Alone, Typed, At
<1>5. Stopped(t)'
  BY <1>2, <1>3 DEF Stopped, Stopping, Inv, RunsStopped, Cancelled, At, TypeOK
<1>6. (Ended(t) /\ Uses(t) /\ Locks(t) /\ Recorded(t))'
  BY <1>1, <1>2, <1>3 DEF Own, Ended, Uses, Locks, Recorded, At, Typed
<1> QED BY <1>4, <1>5, <1>6 DEF Own

(* A model slot is granted: the task goes on to its next phase.             *)
LEMMA Grants ==
    ASSUME Inv, NEW t \in Tasks, Granted(t)
    PROVE  Alone(t) /\ Typed' /\ Own(t)'
<1>1. Typed /\ Own(t)
  BY OwnOfInv
<1>2. PICK m \in Models : Pool!Take(t, m)
  BY DEF Granted
<1>3. holding' = [holding EXCEPT ![t] = m] /\ slots' = slots
  BY <1>2 DEF Pool!Take
<1>4. /\ At(t, Queues) /\ ~Cancelled(t)
      /\ UNCHANGED <<result, records, lock, entry, runs, ext, stop>>
  BY DEF Granted, TaskOnly, runVars
<1>5. PhaseAfter(rec[t].at) \in {"locking", "formatting", "correct_locking"}
  BY <1>4 DEF PhaseAfter, At
<1>6. /\ rec' \in [Tasks -> Record]
      /\ \A u \in Tasks \ {t} : rec'[u] = rec[u]
      /\ rec'[t].at \in {"locking", "formatting", "correct_locking"}
      /\ rec'[t].attempt = rec[t].attempt /\ rec'[t].cancel = rec[t].cancel
  BY <1>5, GoesEffect DEF Granted, Inv, Phases
<1>7. Alone(t) /\ Typed'
  BY <1>1, <1>3, <1>4, <1>6 DEF Alone, Typed, At
<1>8. Stopped(t)'
  BY <1>1, <1>4, <1>6 DEF Own, Stopped, Stopping, At
<1>9. (Ended(t) /\ Uses(t) /\ Locks(t) /\ Recorded(t))'
  BY <1>1, <1>3, <1>4, <1>6 DEF Own, Ended, Uses, Locks, Recorded, At, Typed
<1> QED BY <1>7, <1>8, <1>9 DEF Own

(* A task that ends: whatever it held is released, and it is done.         *)
LEMMA Finishing ==
    ASSUME Inv, NEW t \in Tasks, NEW s \in Statuses, ~At(t, {"done"}), Finishes(t, s), TaskOnly,
           \/ Releases(t, TRUE)
           \/ holding[t] = Nobody /\ UNCHANGED <<lock, holding, slots>> /\ Records(t, TRUE)
           \/ s = "cancelled" /\ holding[t] = Nobody /\ UNCHANGED <<records, lock, holding, slots>>
    PROVE  Alone(t) /\ Typed' /\ Own(t)'
<1>1. Typed /\ Own(t) /\ TypeOK
  BY OwnOfInv DEF Inv
<1>2. /\ rec' \in [Tasks -> Record]
      /\ \A u \in Tasks \ {t} : rec'[u] = rec[u]
      /\ rec'[t].at = "done" /\ rec'[t].attempt = rec[t].attempt
      /\ result' = [result EXCEPT ![t] = s]
  BY <1>1, GoesEffect DEF Finishes, Phases
<1>3. UNCHANGED <<entry, runs, ext, stop>>
  BY DEF TaskOnly, runVars
<1>4. /\ lock' \in [Shared -> Tasks \cup {Nobody}]
      /\ \A x \in Shared : lock[x] # t => lock'[x] = lock[x]
      /\ holding' = [holding EXCEPT ![t] = Nobody] /\ slots' = slots
      /\ \/ records' = [records EXCEPT ![t] = @ + 1]
         \/ s = "cancelled" /\ records' = records
  <2>1. CASE Releases(t, TRUE)
    BY <1>1, <2>1, ReleaseEffect
  <2>2. CASE holding[t] = Nobody /\ UNCHANGED <<lock, holding, slots>> /\ Records(t, TRUE)
    BY <1>1, <2>2 DEF Records, Typed
  <2>3. CASE s = "cancelled" /\ holding[t] = Nobody /\ UNCHANGED <<records, lock, holding, slots>>
    BY <1>1, <2>3 DEF Typed
  <2> QED BY <2>1, <2>2, <2>3
<1>5. records[t] = 0
  BY <1>1 DEF Own, Recorded
<1>6. Alone(t) /\ Typed'
  BY <1>1, <1>2, <1>3, <1>4 DEF Alone, Typed
<1>7. (Ended(t) /\ Uses(t) /\ Locks(t) /\ Stopped(t))'
  BY <1>1, <1>2, <1>4, <1>6 DEF Ended, Uses, Locks, Stopped, At, Typed
<1>8. Recorded(t)'
  BY <1>1, <1>2, <1>4, <1>5 DEF Recorded, At, Typed
<1> QED BY <1>6, <1>7, <1>8 DEF Own

(* A failed attempt: recorded unless the task is queued again.             *)
LEMMA Retrying ==
    ASSUME Inv, NEW t \in Tasks, NEW s \in {"failure", "timeout"}, RetriesOrFinishes(t, s), TaskOnly,
           At(t, {"talking", "correcting", "correct_queued"}),
           At(t, {"talking"}) => ~Cancelled(t),
           \/ Releases(t, ~HasRetry(t))
           \/ holding[t] = Nobody /\ UNCHANGED <<lock, holding, slots>> /\ Records(t, ~HasRetry(t))
    PROVE  Alone(t) /\ Typed' /\ Own(t)'
<1>1. Typed /\ Own(t) /\ TypeOK
  BY OwnOfInv DEF Inv
<1>2. /\ rec' \in [Tasks -> Record]
      /\ \A u \in Tasks \ {t} : rec'[u] = rec[u]
      /\ rec'[t].cancel = rec[t].cancel /\ rec'[t].attempt <= Attempts[t]
      /\ \/ HasRetry(t) /\ rec'[t].at = "queued" /\ result' = result
         \/ ~HasRetry(t) /\ rec'[t].at = "done" /\ result' = [result EXCEPT ![t] = s]
  BY <1>1, RetryEffect
<1>3. UNCHANGED <<entry, runs, ext, stop>>
  BY DEF TaskOnly, runVars
<1>4. /\ lock' \in [Shared -> Tasks \cup {Nobody}]
      /\ \A x \in Shared : lock[x] # t => lock'[x] = lock[x]
      /\ holding' = [holding EXCEPT ![t] = Nobody] /\ slots' = slots
      /\ records' = [records EXCEPT ![t] = @ + IF ~HasRetry(t) THEN 1 ELSE 0]
  <2>1. CASE Releases(t, ~HasRetry(t))
    BY <1>1, <2>1, ReleaseEffect
  <2>2. CASE holding[t] = Nobody /\ UNCHANGED <<lock, holding, slots>> /\ Records(t, ~HasRetry(t))
    BY <1>1, <2>2 DEF Records, Typed
  <2> QED BY <2>1, <2>2
<1>5. records[t] = 0
  BY <1>1 DEF Own, Recorded, At
<1>6. Alone(t) /\ Typed'
  BY <1>1, <1>2, <1>3, <1>4 DEF Alone, Typed, At
<1>7. (Ended(t) /\ Uses(t) /\ Locks(t))'
  BY <1>1, <1>2, <1>4, <1>6 DEF Own, Ended, Uses, Locks, At, Typed
<1>8. Recorded(t)'
  BY <1>1, <1>2, <1>4, <1>5 DEF Recorded, At, Typed
<1>9. Stopped(t)'
  BY <1>1, <1>2, <1>3 DEF Own, Stopped, Stopping, At
<1> QED BY <1>6, <1>7, <1>8, <1>9 DEF Own

(* The lock of the session is taken.                                        *)
LEMMA Locking ==
    ASSUME Inv, NEW t \in Tasks, Locked(t)
    PROVE  Alone(t) /\ Typed' /\ Own(t)'
<1>1. Typed /\ Own(t) /\ TypeOK
  BY OwnOfInv DEF Inv
<1>2. /\ rec' \in [Tasks -> Record]
      /\ \A u \in Tasks \ {t} : rec'[u] = rec[u]
      /\ rec'[t].at \in {"talking", "correcting"}
      /\ rec'[t].attempt = rec[t].attempt /\ rec'[t].cancel = rec[t].cancel
  BY <1>1, GoesEffect DEF Locked, Phases
<1>3. /\ At(t, {"locking", "correct_locking"})
      /\ UNCHANGED <<result, records, holding, slots, entry, runs, ext, stop>>
  BY DEF Locked, TaskOnly, runVars
<1>4. /\ SessionFor(t) = SessionFor(t)' /\ SessionFor(t) \in Shared \cup {Nobody}
      /\ SessionFor(t) # Nobody => lock[SessionFor(t)] = Nobody
      /\ lock' = IF SessionFor(t) = Nobody THEN lock ELSE [lock EXCEPT ![SessionFor(t)] = t]
  BY <1>2 DEF Locked, SessionFor
<1>5. /\ lock' \in [Shared -> Tasks \cup {Nobody}]
      /\ \A u \in Tasks, x \in Shared : lock[x] = u => lock'[x] = u
      /\ SessionFor(t) # Nobody => lock'[SessionFor(t)] = t
  BY <1>1, <1>4 DEF Typed
<1>6. Alone(t) /\ Typed'
  BY <1>1, <1>2, <1>3, <1>5 DEF Alone, Typed, At
<1>7. (Ended(t) /\ Uses(t) /\ Recorded(t) /\ Stopped(t))'
  BY <1>1, <1>2, <1>3 DEF Own, Ended, Uses, Recorded, Stopped, Stopping, At, Typed
<1>8. Locks(t)'
  BY <1>4, <1>5 DEF Locks
<1> QED BY <1>6, <1>7, <1>8 DEF Own

(* A turn, or the caller's cancellation: the task stays where it is.       *)
LEMMA Staying ==
    ASSUME Inv, NEW t \in Tasks, Again(t) \/ CallerCancels(t)
    PROVE  Alone(t) /\ Typed' /\ Own(t)'
<1>1. Typed /\ Own(t) /\ TypeOK
  BY OwnOfInv DEF Inv
<1>2. /\ rec' \in [Tasks -> Record]
      /\ \A u \in Tasks \ {t} : rec'[u] = rec[u]
      /\ rec'[t].at = rec[t].at /\ rec'[t].attempt = rec[t].attempt
      /\ rec[t].cancel => rec'[t].cancel
  <2>1. CASE Again(t)
    <3>1. [rec[t] EXCEPT !.turn = @ + 1] \in Record
      BY <1>1, RecordFields DEF Record
    <3> QED BY <1>1, <2>1, <3>1, RecordFields DEF Again, Record
  <2>2. CASE CallerCancels(t)
    <3>1. [rec[t] EXCEPT !.cancel = TRUE] \in Record
      BY <1>1, RecordFields DEF Record
    <3> QED BY <1>1, <2>2, <3>1, RecordFields DEF CallerCancels, Record
  <2> QED BY <2>1, <2>2
<1>3. /\ ~At(t, {"new", "done"})
      /\ UNCHANGED <<result, records, lock, holding, slots, entry, runs, ext, stop>>
  BY DEF Again, CallerCancels, TaskOnly, runVars, At
<1>4. Alone(t) /\ Typed'
  BY <1>1, <1>2, <1>3 DEF Alone, Typed, At
<1> QED BY <1>1, <1>2, <1>3, <1>4 DEF Own, Ended, Uses, Locks, SessionFor, Recorded, Stopped,
           Stopping, Cancelled, At, Typed

(* The recovery of the output gives up the slot, and is not recorded.      *)
LEMMA Recovering ==
    ASSUME Inv, NEW t \in Tasks,
           \/ Recovers(t)
           \/ NotFormatted(t)
           \/ At(t, {"format_queued"}) /\ Goes(t, "correct_queued")
              /\ UNCHANGED <<result, records, lock, holding, slots>> /\ TaskOnly
    PROVE  Alone(t) /\ Typed' /\ Own(t)'
<1>1. Typed /\ Own(t) /\ TypeOK
  BY OwnOfInv DEF Inv
<1>2. /\ rec' \in [Tasks -> Record]
      /\ \A u \in Tasks \ {t} : rec'[u] = rec[u]
      /\ rec'[t].at \in {"format_queued", "correct_queued"}
      /\ rec'[t].attempt = rec[t].attempt /\ rec'[t].cancel = rec[t].cancel
  <2>1. CASE Recovers(t)
    <3> DEFINE r == [at |-> "format_queued", attempt |-> rec[t].attempt, turn |-> 0, cancel |-> rec[t].cancel]
    <3>1. rec' = [rec EXCEPT ![t] = r]
      BY <2>1 DEF Recovers, Requeues
    <3>2. r \in Record
      BY <1>1, RecordFields DEF Record, Phases
    <3> QED BY <1>1, <3>1, <3>2, RecordFields
  <2>2. CASE Goes(t, "correct_queued")
    BY <1>1, <2>2, GoesEffect DEF Phases
  <2> QED BY <2>1, <2>2 DEF NotFormatted
<1>3. /\ ~At(t, {"new", "done", "queued"})
      /\ UNCHANGED <<result, slots, entry, runs, ext, stop>>
  BY ReleaseEffect, <1>1 DEF Recovers, NotFormatted, TaskOnly, runVars, At
<1>4. /\ lock' \in [Shared -> Tasks \cup {Nobody}]
      /\ \A x \in Shared : lock[x] # t => lock'[x] = lock[x]
      /\ holding' = [holding EXCEPT ![t] = Nobody] /\ records' = records
  <2>1. CASE Releases(t, FALSE)
    <3>1. records' = [records EXCEPT ![t] = records[t] + 0]
      BY <1>1, <2>1, ReleaseEffect
    <3>2. records' = records
      BY <1>1, <3>1 DEF Typed
    <3> QED BY <1>1, <2>1, <3>2, ReleaseEffect
  <2>2. CASE At(t, {"format_queued"}) /\ UNCHANGED <<records, lock, holding>>
    BY <1>1, <2>2 DEF Own, Uses, At, Typed
  <2> QED
    <3>1. CASE Recovers(t) \/ NotFormatted(t)
      BY <2>1, <3>1 DEF Recovers, NotFormatted
    <3>2. CASE At(t, {"format_queued"}) /\ UNCHANGED <<records, lock, holding>>
      BY <2>2, <3>2
    <3> QED BY <3>1, <3>2
<1>5. Alone(t) /\ Typed'
  BY <1>1, <1>2, <1>3, <1>4 DEF Alone, Typed, At
<1> QED BY <1>1, <1>2, <1>3, <1>4, <1>5 DEF Own, Ended, Uses, Locks, Recorded, Stopped,
           Stopping, At, Typed

-----------------------------------------------------------------------------
(* Every step of a task.                                                   *)
LEMMA TaskSteps ==
    ASSUME Inv, NEW t \in Tasks, Submit(t) \/ Work(t) \/ Unserved(t) \/ CallerCancels(t)
    PROVE  Alone(t) /\ Typed' /\ Own(t)'
<1>0. Own(t)
  BY OwnOfInv
<1>1. CASE Submit(t)
  BY <1>1, Submits
<1>2. CASE Granted(t)
  BY <1>2, Grants
<1>3. CASE Withdrawn(t)
  <2>1. holding[t] = Nobody /\ ~At(t, {"done"})
    BY <1>0, <1>3 DEF Own, Uses, Withdrawn, At
  <2> QED BY <1>3, <2>1, Finishing DEF Withdrawn
<1>4. CASE NoServe(t)
  BY <1>4, Finishing DEF NoServe, At
<1>5. CASE Locked(t)
  BY <1>5, Locking
<1>6. CASE Interrupted(t)
  BY <1>6, Finishing DEF Interrupted, At
<1>7. CASE Succeeds(t)
  BY <1>7, Finishing DEF Succeeds, At
<1>8. CASE Again(t) \/ CallerCancels(t)
  BY <1>8, Staying
<1>9. CASE Fails(t)
  BY <1>9, Retrying DEF Fails, At
<1>10. CASE Recovers(t) \/ NotFormatted(t)
  BY <1>10, Recovering
<1>11. CASE NotCorrected(t)
  BY <1>11, Retrying DEF NotCorrected, At
<1>12. CASE Unserved(t)
  <2>0. holding[t] = Nobody /\ UNCHANGED <<lock, holding, slots>> /\ TaskOnly
    BY <1>0, <1>12 DEF Own, Uses, Unserved, At
  <2>1. CASE At(t, {"queued"}) /\ Finishes(t, "failure") /\ Records(t, TRUE)
    BY <2>0, <2>1, Finishing DEF At
  <2>2. CASE At(t, {"format_queued"}) /\ Goes(t, "correct_queued") /\ UNCHANGED <<result, records>>
    BY <2>0, <2>2, Recovering
  <2>3. CASE At(t, {"correct_queued"}) /\ RetriesOrFinishes(t, "failure") /\ Records(t, ~HasRetry(t))
    BY <2>0, <2>3, Retrying DEF At
  <2> QED BY <1>12, <2>1, <2>2, <2>3 DEF Unserved
<1> QED
  BY <1>1, <1>2, <1>3, <1>4, <1>5, <1>6, <1>7, <1>8, <1>9, <1>10, <1>11, <1>12 DEF Work

-----------------------------------------------------------------------------
(* The invariant.                                                          *)

StopType == [at : {"idle", "waiting", "told"}, matched : SUBSET Tasks, of : 0..MaxRun, quiet : BOOLEAN]
RunsTyped == entry \in 0..MaxRun /\ runs \in Runs /\ ext \subseteq Runs /\ stop \in StopType
Parts == Typed /\ RunsTyped /\ (\A t \in Tasks : Own(t)) /\ RunsStopped /\ MatchedAreDone

(* The parts, for every task, make up the invariant.                        *)
LEMMA InvOfParts == Parts => Inv
<1> SUFFICES ASSUME Parts PROVE Inv
  OBVIOUS
<1>1. TypeOK
  BY DEF Parts, Typed, RunsTyped, StopType, TypeOK, Record, Phases
<1>2. DoneHasEnded /\ SlotsAreUsed /\ LocksAreHeld /\ TasksStopped
  BY DEF Parts, Own, Ended, DoneHasEnded, Uses, SlotsAreUsed, Locks, LocksAreHeld, Stopped, TasksStopped
<1>3. RecordedOnce
  <2> SUFFICES ASSUME NEW t \in Tasks
      PROVE records[t] = CASE result[t] = Nobody -> 0
                           [] result[t] = "cancelled" -> IF records[t] = 0 THEN 0 ELSE 1
                           [] OTHER -> 1
    BY DEF RecordedOnce
  <2>1. Ended(t) /\ Recorded(t)
    BY DEF Parts, Own
  <2> QED BY <2>1 DEF Ended, Recorded
<1> QED BY <1>1, <1>2, <1>3 DEF Parts, Inv

(* The same of the next state.                                             *)
LEMMA InvOfNextParts == Parts' => Inv'
BY InvOfParts, PTL

(* The runs are of their type.                                              *)
LEMMA RunsAreTyped == Inv => RunsTyped
BY DEF Inv, TypeOK, RunsTyped, StopType

(* The invariant holds initially.                                           *)
LEMMA InitInv == Init => Inv
<1> SUFFICES ASSUME Init PROVE Inv
  OBVIOUS
<1>1. New \in Record
  BY DEF New, Record, Phases
<1>2. Typed
  BY <1>1 DEF Init, Typed, New
<1>3. ~Stopping /\ RunsStopped /\ MatchedAreDone
  BY DEF Init, Stopping, RunsStopped, MatchedAreDone
<1>4. \A t \in Tasks : Own(t)
  BY <1>3 DEF Init, Own, Ended, Uses, Locks, Recorded, Stopped, At, New
<1>5. RunsTyped
  BY DEF Init, RunsTyped, StopType
<1> QED BY <1>2, <1>3, <1>4, <1>5, InvOfParts DEF Parts

(* A step of one task leaves what holds of the others as it is.            *)
LEMMA TaskStepInv ==
    ASSUME Inv, NEW t \in Tasks, Alone(t), Typed', Own(t)'
    PROVE  Inv'
<1>1. \A u \in Tasks : Own(u)
  BY OwnOfInv
<1>2. ASSUME NEW u \in Tasks \ {t} PROVE Own(u)'
  <2>1. /\ Own(u) /\ rec'[u] = rec[u] /\ result'[u] = result[u]
        /\ records'[u] = records[u] /\ holding'[u] = holding[u]
        /\ UNCHANGED <<ext, stop>>
    BY <1>1 DEF Alone
  <2>2. SessionFor(u)' = SessionFor(u) /\ SessionFor(u) \in Shared \cup {Nobody}
    BY <2>1 DEF SessionFor
  <2>3. Locks(u)'
    BY <2>1, <2>2 DEF Own, Locks, Alone, At
  <2> QED BY <2>1, <2>3 DEF Own, Ended, Uses, Recorded, Stopped, Stopping, Cancelled, At
<1>3. \A u \in Tasks : Own(u)'
  BY <1>2
<1>4. RunsStopped'
  BY DEF Inv, RunsStopped, Stopping, Alone
<1>5. MatchedAreDone'
  <2> SUFFICES ASSUME stop.quiet PROVE stop.at = "told" /\ \A u \in stop.matched : At(u, {"done"})'
    BY DEF MatchedAreDone, Alone
  <2>1. stop.at = "told" /\ \A u \in stop.matched : At(u, {"done"})
    BY DEF Inv, MatchedAreDone
  <2>2. stop.matched \subseteq Tasks
    BY RunsAreTyped DEF RunsTyped, StopType
  <2> QED BY <2>1, <2>2 DEF Alone, At
<1>6. RunsTyped'
  BY RunsAreTyped DEF RunsTyped, Alone
<1> QED BY <1>3, <1>4, <1>5, <1>6, InvOfNextParts DEF Parts

(* A run ends, the next starts.                                            *)
LEMMA RunSteps ==
    ASSUME Inv, RunEnds \/ RunStarts
    PROVE  Inv'
<1>1. TypeOK /\ DoneHasEnded /\ SlotsAreUsed /\ LocksAreHeld /\ RecordedOnce /\ TasksStopped
      /\ MatchedAreDone /\ RunsStopped
  BY DEF Inv
<1>2. UNCHANGED <<rec, result, records, lock, holding, slots, ext, stop>>
  <2>1. CASE RunEnds
    BY <2>1 DEF RunEnds, taskVars
  <2>2. CASE RunStarts
    BY <2>2 DEF RunStarts, taskVars
  <2> QED BY <2>1, <2>2
<1>3. \/ entry' = 0 /\ runs' = runs
      \/ entry' = runs + 1 /\ runs' = runs + 1 /\ runs < MaxRun
  BY DEF RunEnds, RunStarts
<1>4. TypeOK'
  BY <1>1, <1>2, <1>3 DEF TypeOK
<1>5. RunsStopped'
  <2>1. CASE RunEnds
    BY <2>1 DEF RunEnds, RunsStopped
  <2>2. CASE RunStarts
    <3> SUFFICES ASSUME Stopping' PROVE entry' > StopRun
      BY DEF RunsStopped
    <3>1. Stopping
      BY <1>2 DEF Stopping
    <3>2. stop.at # "idle"
      BY <1>1, <3>1 DEF Stopping, MatchedAreDone
    <3> QED BY <2>2, <3>2 DEF RunStarts
  <2> QED BY <2>1, <2>2
<1>6. (DoneHasEnded /\ SlotsAreUsed /\ LocksAreHeld /\ RecordedOnce /\ TasksStopped /\ MatchedAreDone)'
  BY <1>1, <1>2 DEF DoneHasEnded, SlotsAreUsed, LocksAreHeld, RecordedOnce, TasksStopped,
     MatchedAreDone, Stopping, SessionFor, Cancelled, At
<1> QED BY <1>4, <1>5, <1>6 DEF Inv

(* The stop matches what has begun; what begins later finds the event set. *)
LEMMA StopStep ==
    ASSUME Inv, Stop
    PROVE  Inv'
<1>1. Typed /\ TypeOK /\ \A t \in Tasks : Own(t)
  BY OwnOfInv DEF Inv
<1>2. UNCHANGED <<result, records, lock, holding, slots, entry, runs>> /\ stop.at = "idle" /\ ~stop.quiet
  BY DEF Stop, Inv, MatchedAreDone
<1>3. CASE Newer
  <2>1. UNCHANGED <<rec, ext>> /\ stop' = [stop EXCEPT !.at = "told"]
    BY <1>3 DEF Stop
  <2>2. /\ stop' \in StopType
        /\ stop'.at = "told" /\ stop'.quiet = stop.quiet
    BY <1>1, <2>1 DEF TypeOK, StopType
  <2>3. ~Stopping' /\ RunsStopped' /\ MatchedAreDone'
    BY <1>2, <2>2 DEF Stopping, RunsStopped, MatchedAreDone
  <2>4. Typed' /\ \A t \in Tasks : Own(t)'
    BY <1>1, <1>2, <2>1, <2>3 DEF Typed, Own, Ended, Uses, Locks, SessionFor, Recorded, Stopped, At
  <2>5. RunsTyped'
    BY <1>1, <1>2, <2>1, <2>2 DEF TypeOK, RunsTyped
  <2> QED BY <2>3, <2>4, <2>5, InvOfNextParts DEF Parts
<1>4. CASE ~Newer
  <2>1. /\ ext' = ext \cup ({entry} \ {0})
        /\ stop' = [at |-> "waiting", matched |-> Matched, of |-> entry, quiet |-> FALSE]
        /\ rec' = [t \in Tasks |-> IF t \in Matched THEN [rec[t] EXCEPT !.cancel = TRUE] ELSE rec[t]]
    BY <1>4 DEF Stop
  <2>2. ASSUME NEW t \in Tasks
        PROVE  /\ rec'[t] \in Record /\ rec'[t].at = rec[t].at /\ rec'[t].attempt = rec[t].attempt
    <3>1. rec[t] \in Record
      BY <1>1, RecordFields
    <3>2. [rec[t] EXCEPT !.cancel = TRUE] \in Record
      BY <3>1 DEF Record
    <3> QED BY <2>1, <3>1, <3>2 DEF Record
  <2>3. Typed'
    BY <1>1, <1>2, <2>1, <2>2 DEF Typed
  <2>4. ASSUME NEW t \in Tasks PROVE Own(t)'
    <3>1. Stopped(t)'
      BY <2>1, <2>2 DEF Stopped, Matched, At
    <3> QED BY <1>1, <1>2, <2>2, <3>1 DEF Own, Ended, Uses, Locks, SessionFor, Recorded, At
  <2>5. RunsStopped'
    BY <1>1, <1>2, <1>4, <2>1 DEF RunsStopped, Newer, TypeOK
  <2>6. MatchedAreDone'
    BY <2>1 DEF MatchedAreDone
  <2>7. RunsTyped'
    BY <1>1, <1>2, <2>1 DEF TypeOK, Matched, RunsTyped, StopType
  <2> QED BY <2>3, <2>4, <2>5, <2>6, <2>7, InvOfNextParts DEF Parts
<1> QED BY <1>3, <1>4

(* The stop answers once every matched task is done, or its wait is over.   *)
LEMMA StopReportsStep ==
    ASSUME Inv, StopReports
    PROVE  Inv'
<1>1. TypeOK /\ DoneHasEnded /\ SlotsAreUsed /\ LocksAreHeld /\ RecordedOnce /\ TasksStopped
      /\ RunsStopped
  BY DEF Inv
<1>2. UNCHANGED <<rec, result, records, lock, holding, slots, entry, runs, ext>>
  BY DEF StopReports, taskVars, runVars
<1> DEFINE q == /\ \A t \in stop.matched : At(t, {"done"})
                /\ stop.of = 0 \/ entry # stop.of
<1>3. stop.at = "waiting" /\ stop' = [stop EXCEPT !.at = "told", !.quiet = q]
  BY DEF StopReports
<1>4. q \in BOOLEAN
  OBVIOUS
<1>5. /\ stop'.at = "told" /\ stop'.matched = stop.matched /\ stop'.quiet = q
      /\ stop' \in [at : {"idle", "waiting", "told"}, matched : SUBSET Tasks, of : 0..MaxRun,
                    quiet : BOOLEAN]
  <2> HIDE DEF q
  <2> QED BY <1>1, <1>3, <1>4 DEF TypeOK
<1>6. Stopping /\ (stop'.quiet => \A t \in stop.matched : At(t, {"done"}))
  BY <1>3, <1>5 DEF Stopping
<1>7. TypeOK' /\ MatchedAreDone'
  BY <1>1, <1>2, <1>5, <1>6 DEF TypeOK, MatchedAreDone, At
<1>8. (DoneHasEnded /\ SlotsAreUsed /\ LocksAreHeld /\ RecordedOnce /\ TasksStopped /\ RunsStopped)'
  BY <1>1, <1>2, <1>5, <1>6 DEF DoneHasEnded, SlotsAreUsed, LocksAreHeld, RecordedOnce, TasksStopped,
     RunsStopped, SessionFor, Cancelled, At
<1> QED BY <1>7, <1>8 DEF Inv

(* Every step preserves the invariant.                                      *)
LEMMA InvStep == Inv /\ [Next]_vars => Inv'
<1> SUFFICES ASSUME Inv, [Next]_vars PROVE Inv'
  OBVIOUS
<1>1. ASSUME NEW t \in Tasks, Submit(t) \/ Work(t) \/ Unserved(t) \/ CallerCancels(t)
      PROVE  Inv'
  BY <1>1, TaskSteps, TaskStepInv
<1>2. CASE RunEnds \/ RunStarts
  BY <1>2, RunSteps
<1>3. CASE Stop
  BY <1>3, StopStep
<1>4. CASE StopReports
  BY <1>4, StopReportsStep
<1>5. CASE UNCHANGED vars
  BY <1>5 DEF vars, taskVars, runVars, Inv, TypeOK, DoneHasEnded, SlotsAreUsed, LocksAreHeld,
     RecordedOnce, RunsStopped, TasksStopped, MatchedAreDone, Stopping, SessionFor, Cancelled, At
<1> QED BY <1>1, <1>2, <1>3, <1>4, <1>5 DEF Next

(* The inductive invariant holds of every reachable state.                 *)
THEOREM InvHolds == Spec => []Inv
<1> QED BY InitInv, InvStep, PTL DEF Spec

(* Every variable of the task service keeps its type.                      *)
THEOREM TypeCorrect == Spec => []TypeOK
<1>1. Inv => TypeOK
  BY DEF Inv
<1> QED BY InvHolds, <1>1, PTL

(* Two messages are never under way in one session (task_service.py:1057). *)
THEOREM SessionsAreSerial == Spec => []SessionsSerial
<1>1. Inv => SessionsSerial
  BY DEF Inv, LocksAreHeld, SessionsSerial
<1> QED BY InvHolds, <1>1, PTL

(* A task's end is recorded once, however many sessions it took.           *)
THEOREM EndsAreRecordedOnce == Spec => []RecordedOnce
<1>1. Inv => RecordedOnce
  BY DEF Inv
<1> QED BY InvHolds, <1>1, PTL

(* A stop that found nothing active is right: its tasks are done, were     *)
(* never submitted, or wait for a slot they will not take.                 *)
LEMMA QuietOfInv == Inv => QuietIsQuiet
<1> SUFFICES ASSUME Inv, stop.quiet, NEW t \in Tasks, RunOf[t] <= StopRun
             PROVE  holding[t] = Nobody
  BY DEF QuietIsQuiet
<1>1. At(t, {"new", "done", "queued"})
  BY DEF Inv, TasksStopped, MatchedAreDone, Stopping, At
<1> QED BY <1>1 DEF Inv, SlotsAreUsed, At

(* A stop that found nothing active is right, and stays so.                *)
THEOREM QuietStaysQuiet == Spec => []QuietIsQuiet
BY InvHolds, QuietOfInv, PTL

-----------------------------------------------------------------------------
(* The refinement of TaskOutcome.                                          *)

OutcomeVars == <<holding, slots, result, records, stop.quiet>>
StoppedTasks == {t \in Tasks : RunOf[t] <= StopRun}

(* A task that is not done has no result, and no slot while it waits.      *)
LEMMA WaitsWithout ==
    ASSUME Inv, NEW t \in Tasks
    PROVE  /\ ~At(t, {"done"}) => result[t] = Nobody
           /\ At(t, Queues) => holding[t] = Nobody
BY DEF Inv, DoneHasEnded, SlotsAreUsed, At

(* Recording nothing changes no record.                                    *)
LEMMA RecordsOrNot ==
    ASSUME Inv, NEW t \in Tasks, NEW b \in BOOLEAN, Records(t, b)
    PROVE  IF b THEN Outcome!Recorded(t) ELSE UNCHANGED records
<1>1. records \in [Tasks -> Nat]
  BY DEF Inv, TypeOK
<1>2. CASE b
  BY <1>2 DEF Records, Outcome!Recorded
<1>3. CASE ~b
  <2>1. records' = [records EXCEPT ![t] = records[t] + 0]
    BY <1>3 DEF Records
  <2>2. records[t] + 0 = records[t]
    BY <1>1
  <2> QED BY <1>1, <1>3, <2>1, <2>2
<1> QED BY <1>2, <1>3

(* With its slot a task gives up the session, and is recorded when it ends.*)
LEMMA ReleaseMaps ==
    ASSUME Inv, NEW t \in Tasks, NEW b \in BOOLEAN, Releases(t, b), TaskOnly
    PROVE  /\ Outcome!Pool!Give(t) /\ UNCHANGED stop.quiet
           /\ IF b THEN Outcome!Recorded(t) ELSE UNCHANGED records
BY RecordsOrNot DEF Releases, TaskOnly, Pool!Give, Outcome!Pool!Give

(* An attempt that ends with its slot: the end of the task,                *)
LEMMA EndMaps ==
    ASSUME Inv, NEW t \in Tasks, ~At(t, {"done"}), TaskOnly,
           Releases(t, TRUE), \E s \in Statuses : Finishes(t, s)
    PROVE  Outcome!Next
<1>1. PICK s \in Statuses : Finishes(t, s)
  OBVIOUS
<1>2. result[t] = Nobody
  BY WaitsWithout
<1>3. Outcome!Gets(t, s)
  BY <1>1, <1>2 DEF Finishes, TaskOnly, Outcome!Gets
<1>4. Outcome!End(t, s)
  BY <1>3, ReleaseMaps DEF Outcome!End
<1> QED BY <1>4 DEF Outcome!Next

(* or a pause before the next session or the next message;                 *)
LEMMA PauseMaps ==
    ASSUME Inv, NEW t \in Tasks, TaskOnly, Releases(t, FALSE), UNCHANGED result
    PROVE  Outcome!Next
<1>1. Outcome!Pause(t)
  BY ReleaseMaps DEF Outcome!Pause
<1> QED BY <1>1 DEF Outcome!Next

(* a failed one is either.                                                 *)
LEMMA FailureMaps ==
    ASSUME Inv, NEW t \in Tasks, ~At(t, {"done"}), TaskOnly,
           Releases(t, ~HasRetry(t)),
           NEW s \in {"failure", "timeout"}, RetriesOrFinishes(t, s)
    PROVE  Outcome!Next
<1>1. CASE HasRetry(t)
  <2>1. (~HasRetry(t)) = FALSE
    BY <1>1
  <2>2. Releases(t, FALSE)
    BY <2>1
  <2>3. UNCHANGED result
    BY <1>1 DEF RetriesOrFinishes, Retries
  <2> QED BY <2>2, <2>3, PauseMaps
<1>2. CASE ~HasRetry(t)
  <2>1. (~HasRetry(t)) = TRUE
    BY <1>2
  <2>2. Releases(t, TRUE)
    BY <2>1
  <2>3. \E status \in Statuses : Finishes(t, status)
    BY <1>2 DEF RetriesOrFinishes
  <2> QED BY <2>2, <2>3, EndMaps
<1> QED BY <1>1, <1>2

(* Both instances of LeasePool count alike.                                *)
LEMMA SameCount == \A S : Outcome!Pool!Cardinality(S) = Pool!Cardinality(S)
BY DEF Outcome!Pool!Cardinality, Pool!Cardinality

(* A task that is served holds nothing yet, and its execution was not said *)
(* to be quiet: a stopped task in the queue finds its cancellation first.  *)
LEMMA GrantMaps ==
    ASSUME Inv, NEW t \in Tasks, Granted(t)
    PROVE  Outcome!Next
<1>1. result[t] = Nobody
  BY WaitsWithout DEF Granted, At
<1>2. ~(stop.quiet /\ t \in StoppedTasks)
  BY DEF Inv, TasksStopped, MatchedAreDone, Stopping, StoppedTasks, Granted, At
<1>3. ASSUME NEW m \in Models, Pool!Take(t, m) PROVE Outcome!Pool!Take(t, m)
  <2>1. Outcome!Pool!HoldersOf(m) = Pool!HoldersOf(m)
    BY DEF Pool!HoldersOf, Outcome!Pool!HoldersOf
  <2> QED BY <1>3, <2>1, SameCount DEF Pool!Take, Outcome!Pool!Take
<1>4. UNCHANGED <<result, records, stop.quiet>>
  BY DEF Granted, TaskOnly
<1>5. Outcome!Begin(t)
  BY <1>1, <1>2, <1>3, <1>4 DEF Granted, Outcome!Begin, StoppedTasks
<1> QED BY <1>5 DEF Outcome!Next

(* A task that waits is withdrawn, or gets no model.                       *)
LEMMA WaitMaps ==
    ASSUME Inv, NEW t \in Tasks, Withdrawn(t) \/ Unserved(t)
    PROVE  [Outcome!Next]_OutcomeVars
<1>1. /\ result[t] = Nobody /\ holding[t] = Nobody
      /\ UNCHANGED <<holding, slots, stop, stop.quiet>>
  BY WaitsWithout DEF Withdrawn, Unserved, At, TaskOnly
<1>2. ASSUME NEW s \in {"failure", "cancelled"}, Finishes(t, s),
             Outcome!Recorded(t) \/ (s = "cancelled" /\ UNCHANGED records)
      PROVE  Outcome!Next
  <2>1. Outcome!GiveUp(t, s)
    BY <1>1, <1>2 DEF Outcome!GiveUp, Outcome!Gets, Finishes
  <2> QED BY <2>1 DEF Outcome!Next
<1>3. CASE Withdrawn(t)
  BY <1>2, <1>3 DEF Withdrawn
<1>4. CASE At(t, {"queued"}) /\ Finishes(t, "failure") /\ Records(t, TRUE)
  BY <1>2, <1>4, RecordsOrNot
<1>5. CASE Goes(t, "correct_queued") /\ UNCHANGED <<result, records>>
  BY <1>1, <1>5 DEF OutcomeVars
<1>6. CASE RetriesOrFinishes(t, "failure") /\ Records(t, ~HasRetry(t))
  <2>1. CASE HasRetry(t)
    <3>1. (~HasRetry(t)) = FALSE
      BY <2>1
    <3>2. UNCHANGED records
      BY <1>6, <3>1, RecordsOrNot
    <3> QED BY <1>1, <1>6, <2>1, <3>2 DEF RetriesOrFinishes, Retries, OutcomeVars
  <2>2. CASE ~HasRetry(t)
    <3>1. (~HasRetry(t)) = TRUE
      BY <2>2
    <3>2. Outcome!Recorded(t)
      BY <1>6, <3>1, RecordsOrNot
    <3> QED BY <1>2, <1>6, <2>2, <3>2 DEF RetriesOrFinishes
  <2> QED BY <2>1, <2>2
<1> QED BY <1>3, <1>4, <1>5, <1>6 DEF Unserved

(* Every step of one task is a step of TaskOutcome, or none.               *)
LEMMA TaskMaps ==
    ASSUME Inv, NEW t \in Tasks, Submit(t) \/ Work(t) \/ Unserved(t) \/ CallerCancels(t)
    PROVE  [Outcome!Next]_OutcomeVars
<1>1. CASE Submit(t) \/ Locked(t) \/ Again(t) \/ CallerCancels(t)
  BY <1>1 DEF Submit, Locked, Again, CallerCancels, TaskOnly, OutcomeVars
<1>2. CASE Granted(t)
  BY <1>2, GrantMaps
<1>3. CASE Withdrawn(t) \/ Unserved(t)
  BY <1>3, WaitMaps
<1>4. CASE NoServe(t) \/ Interrupted(t) \/ Succeeds(t)
  <2>1. ~At(t, {"done"}) /\ TaskOnly /\ Releases(t, TRUE)
    BY <1>4 DEF NoServe, Interrupted, Succeeds, At
  <2>2. \E s \in Statuses : Finishes(t, s)
    BY <1>4 DEF NoServe, Interrupted, Succeeds
  <2> QED BY <2>1, <2>2, EndMaps
<1>5. CASE Recovers(t) \/ NotFormatted(t)
  BY <1>5, PauseMaps DEF Recovers, NotFormatted
<1>6. CASE Fails(t) \/ NotCorrected(t)
  <2>1. ~At(t, {"done"}) /\ TaskOnly /\ Releases(t, ~HasRetry(t))
    BY <1>6 DEF Fails, NotCorrected, At
  <2>2. \E s \in {"failure", "timeout"} : RetriesOrFinishes(t, s)
    BY <1>6 DEF Fails, NotCorrected
  <2> QED BY <2>1, <2>2, FailureMaps
<1> QED BY <1>1, <1>2, <1>3, <1>4, <1>5, <1>6 DEF Work

(* The runs of the scan do not show; of the stop, only what it is told.    *)
LEMMA StopMaps ==
    ASSUME Inv, RunEnds \/ RunStarts \/ Stop \/ StopReports
    PROVE  [Outcome!Next]_OutcomeVars
<1>1. UNCHANGED <<result, records, holding, slots>>
  BY DEF RunEnds, RunStarts, Stop, StopReports, taskVars
<1>2. CASE RunEnds \/ RunStarts
  BY <1>1, <1>2 DEF RunEnds, RunStarts, OutcomeVars
<1>3. CASE Stop
  <2>1. stop.quiet = FALSE
    BY <1>3 DEF Inv, TypeOK, MatchedAreDone, Stop
  <2>2. stop'.quiet = FALSE
    <3>1. CASE Newer
      BY <1>3, <2>1, <3>1 DEF Stop, Inv, TypeOK
    <3>2. CASE ~Newer
      BY <1>3, <3>2 DEF Stop
    <3> QED BY <3>1, <3>2
  <2> QED BY <1>1, <2>1, <2>2 DEF OutcomeVars
<1>4. CASE StopReports
  <2>1. stop.quiet = FALSE
    BY <1>4 DEF Inv, TypeOK, MatchedAreDone, StopReports
  <2>2. stop'.quiet \in BOOLEAN /\ Inv'
    BY <1>4, StopReportsStep DEF Inv, TypeOK
  <2>3. CASE stop'.quiet
    <3>0. QuietIsQuiet'
      BY <2>2, QuietOfInv, PTL
    <3>1. \A t \in StoppedTasks : holding'[t] = Nobody
      BY <2>3, <3>0 DEF QuietIsQuiet, StoppedTasks
    <3>2. Outcome!FallQuiet
      BY <1>1, <2>2, <2>3, <3>1 DEF Outcome!FallQuiet, StoppedTasks
    <3> QED BY <3>2 DEF Outcome!Next
  <2>4. CASE ~stop'.quiet
    BY <1>1, <2>1, <2>2, <2>4 DEF OutcomeVars
  <2> QED BY <2>3, <2>4
<1> QED BY <1>2, <1>3, <1>4

(* The task service implements TaskOutcome: one result for each task, with *)
(* which it gives up its slot and is recorded (_finish_record,             *)
(* task_service.py:2594), and no beginning after a quiet stop (776-880).   *)
THEOREM ServiceGivesOutcomes == Spec => ImplementsTaskOutcome
<1>1. Init => Outcome!Init
  BY DEF Init, Outcome!Init, Outcome!Pool!Init
<1>2. Inv /\ [Next]_vars => [Outcome!Next]_OutcomeVars
  <2> SUFFICES ASSUME Inv, [Next]_vars PROVE [Outcome!Next]_OutcomeVars
    OBVIOUS
  <2>1. CASE UNCHANGED vars
    BY <2>1 DEF vars, taskVars, OutcomeVars
  <2> QED BY <2>1, TaskMaps, StopMaps DEF Next
<1> QED BY <1>1, <1>2, InvHolds, PTL
       DEF Spec, ImplementsTaskOutcome, Outcome!Spec, OutcomeVars

=============================================================================
