----------------------------- MODULE TaskService -----------------------------
(***************************************************************************)
(* The Agent's task service: the life of a model task from its submission  *)
(* to its one result, through fresh sessions, the recovery of its JSON     *)
(* output and the cancellation of its execution.                           *)
(*                                                                         *)
(* Models are those of LeasePool, which ModelPool implements: a task takes *)
(* a slot for every session it talks to, and for nothing else.  Within a   *)
(* session all messages take one lock; a session that the task opened      *)
(* itself has a lock that nobody else knows.                               *)
(*                                                                         *)
(* Abstracted: prompts and answers, which model serves a task, token usage *)
(* and statistics, the reports of lease states.  The release of a lease    *)
(* does not suspend, so it is one step with what surrounds it.             *)
(***************************************************************************)
EXTENDS Naturals, FiniteSets

CONSTANTS
    Tasks,
    Models,        \* model rows, each with the slots of Slots
    Slots,
    Shared,        \* sessions that tasks continue
    SessionOf,     \* the session each task continues, Nobody for a new one
    RunOf,         \* the revision of the scan's run that submits the task
    MaxRun,        \* bound: runs of the scan
    StopRun,       \* the revision the stop command names
    Attempts,      \* sessions a task may use, by its policy
    Validations,   \* its validation retries within a session
    Corrections,   \* its output_retry_count
    Cancellers,    \* tasks whose caller may be cancelled
    Nobody

Runs == 1..MaxRun
Statuses == {"success", "failure", "timeout", "cancelled"}

ASSUME TaskAssumption ==
    /\ Nobody \notin Tasks \cup Models \cup Shared \cup Statuses
    /\ Slots \in [Models -> Nat]
    /\ SessionOf \in [Tasks -> Shared \cup {Nobody}]
    /\ MaxRun \in Nat \ {0} /\ RunOf \in [Tasks -> Runs] /\ StopRun \in Runs
    /\ Attempts \in [Tasks -> Nat \ {0}] /\ Cancellers \subseteq Tasks
    /\ Validations \in [Tasks -> Nat] /\ Corrections \in [Tasks -> Nat]

VARIABLES
    rec,       \* where each task is: _TaskRecord and the frame of its worker
    result,    \* its result, Nobody while it has none
    records,   \* completion records written for it
    lock,      \* the task that talks in a shared session
    holding,   \* the model row a task holds a slot of
    slots,
    entry,     \* the run TaskManager knows, 0 when none
    runs,      \* runs so far
    ext,       \* runs whose cancel event is set
    stop       \* the stop command

taskVars == <<rec, result, records, lock, holding, slots>>
runVars  == <<entry, runs, ext>>
vars == <<taskVars, runVars, stop>>

Queues  == {"queued", "format_queued", "correct_queued"}
Talking == {"talking", "formatting", "correcting"}
Leased  == {"locking", "correct_locking"} \cup Talking

Pool == INSTANCE LeasePool

New == [at |-> "new", attempt |-> 1, turn |-> 0, cancel |-> FALSE]

Init ==
    /\ rec = [t \in Tasks |-> New]
    /\ result = [t \in Tasks |-> Nobody] /\ records = [t \in Tasks |-> 0]
    /\ lock = [s \in Shared |-> Nobody]
    /\ holding = [t \in Tasks |-> Nobody] /\ slots = Slots
    /\ entry = 1 /\ runs = 1 /\ ext = {}
    /\ stop = [at |-> "idle", matched |-> {}, of |-> 0, quiet |-> FALSE]

-----------------------------------------------------------------------------
At(t, phases) == rec[t].at \in phases
Goes(t, to) == rec' = [rec EXCEPT ![t].at = to]

(* _CombinedCancelEvent                                                    *)
OwnCancelOnly(t) == rec[t].cancel   \* faulty variant
Cancelled(t) == rec[t].cancel \/ RunOf[t] \in ext

SessionFor(t) == IF rec[t].attempt = 1 THEN SessionOf[t] ELSE Nobody
Unlocks(t) == lock' = [s \in Shared |-> IF lock[s] = t THEN Nobody ELSE lock[s]]
Records(t, once) == records' = [records EXCEPT ![t] = @ + IF once THEN 1 ELSE 0]

(* release_model_lease; record_completion                                  *)
Releases(t, record) == Unlocks(t) /\ Pool!Give(t) /\ Records(t, record)

(* _finish_record                                                          *)
Finishes(t, status) ==
    /\ Goes(t, "done")
    /\ result' = [result EXCEPT ![t] = status]

(* It queues again, with its turns before it.                              *)
Requeues(t, to, attempt) ==
    rec' = [rec EXCEPT ![t] = [at |-> to, attempt |-> attempt, turn |-> 0, cancel |-> @.cancel]]

MayRetry(t) == rec[t].attempt <= Attempts[t]   \* faulty variant
HasRetry(t) == rec[t].attempt < Attempts[t]
Retries(t) ==
    /\ Requeues(t, "queued", rec[t].attempt + 1)
    /\ UNCHANGED result

(* The attempt has failed: the task queues for a fresh session, or ends.   *)
RetriesOrFinishes(t, status) == IF HasRetry(t) THEN Retries(t) ELSE Finishes(t, status)

TaskOnly == UNCHANGED <<runVars, stop>>

-----------------------------------------------------------------------------
(* A component submits a task, from its run or after its run was cancelled *)
(* and did not wait for it (submit_task).                                  *)
Submit(t) ==
    /\ At(t, {"new"}) /\ (entry = RunOf[t] \/ RunOf[t] \in ext)
    /\ Goes(t, "queued")
    /\ UNCHANGED <<result, records, lock, holding, slots>> /\ TaskOnly

(* acquire_model_lease: granted; cancelled; no model or its wait is over   *)
PhaseAfter(phase) ==
    CASE phase = "queued" -> "locking" [] phase = "format_queued" -> "formatting"
      [] phase = "correct_queued" -> "correct_locking"

Granted(t) ==
    /\ At(t, Queues) /\ ~Cancelled(t)
    /\ \E m \in Models : Pool!Take(t, m)
    /\ Goes(t, PhaseAfter(rec[t].at))
    /\ UNCHANGED <<result, records, lock>> /\ TaskOnly

Withdrawn(t) ==
    /\ At(t, Queues) /\ Cancelled(t)
    /\ Finishes(t, "cancelled")
    /\ UNCHANGED <<records, lock, holding, slots>> /\ TaskOnly

Unserved(t) ==
    /\ \/ At(t, {"queued"}) /\ Finishes(t, "failure") /\ Records(t, TRUE)
       \/ At(t, {"format_queued"}) /\ Goes(t, "correct_queued") /\ UNCHANGED <<result, records>>
       \/ At(t, {"correct_queued"}) /\ RetriesOrFinishes(t, "failure")
          /\ Records(t, ~HasRetry(t))
    /\ UNCHANGED <<lock, holding, slots>> /\ TaskOnly

(* The Serve does not start: that consumes no session.                     *)
NoServe(t) ==
    /\ At(t, {"talking"})
    /\ Releases(t, TRUE) /\ Finishes(t, "failure")
    /\ TaskOnly

(* async with session_lock; correction_lock.acquire                        *)
NoLock(t) ==   \* faulty variant
    /\ At(t, {"locking", "correct_locking"})
    /\ UNCHANGED lock
    /\ Goes(t, IF At(t, {"locking"}) THEN "talking" ELSE "correcting")
    /\ UNCHANGED <<result, records, holding, slots>> /\ TaskOnly
Locked(t) ==
    /\ At(t, {"locking", "correct_locking"})
    /\ LET s == SessionFor(t) IN
       IF s = Nobody THEN UNCHANGED lock
       ELSE lock[s] = Nobody /\ lock' = [lock EXCEPT ![s] = t]
    /\ Goes(t, IF At(t, {"locking"}) THEN "talking" ELSE "correcting")
    /\ UNCHANGED <<result, records, holding, slots>> /\ TaskOnly

(* OperationDeadline.wait: cancellation takes priority over an answer      *)
Interrupted(t) ==
    /\ At(t, Talking) /\ Cancelled(t)
    /\ Releases(t, TRUE) /\ Finishes(t, "cancelled")
    /\ TaskOnly

(* The answer is what the task asked for.                                  *)
Succeeds(t) ==
    /\ At(t, Talking) /\ (At(t, {"talking"}) => ~Cancelled(t))
    /\ Releases(t, TRUE) /\ Finishes(t, "success")
    /\ TaskOnly

(* Another message in the session: the validator was not content, or the   *)
(* corrected JSON still does not match.                                    *)
Again(t) ==
    /\ \/ At(t, {"talking"}) /\ ~Cancelled(t) /\ rec[t].turn < Validations[t]
       \/ At(t, {"correcting"}) /\ rec[t].turn + 1 < Corrections[t]
    /\ rec' = [rec EXCEPT ![t].turn = @ + 1]
    /\ UNCHANGED <<result, records, lock, holding, slots>> /\ TaskOnly

(* The request fails or times out, or the answer is refused.               *)
Fails(t) ==
    /\ At(t, {"talking"}) /\ ~Cancelled(t)
    /\ Releases(t, ~HasRetry(t))
    /\ \E status \in {"failure", "timeout"} : RetriesOrFinishes(t, status)
    /\ TaskOnly

(* The answer has no valid JSON: the slot is released before a formatter   *)
(* queues for one.                                                         *)
KeepsSlot(t) ==   \* faulty variant
    /\ At(t, {"talking"}) /\ ~Cancelled(t) /\ Corrections[t] > 0
    /\ Unlocks(t) /\ Requeues(t, "format_queued", rec[t].attempt)
    /\ UNCHANGED <<result, records, holding, slots>> /\ TaskOnly
Recovers(t) ==
    /\ At(t, {"talking"}) /\ ~Cancelled(t) /\ Corrections[t] > 0
    /\ Releases(t, FALSE)
    /\ Requeues(t, "format_queued", rec[t].attempt)
    /\ UNCHANGED result /\ TaskOnly

NotFormatted(t) ==
    /\ At(t, {"formatting"})
    /\ Releases(t, FALSE) /\ Goes(t, "correct_queued")
    /\ UNCHANGED result /\ TaskOnly

AlwaysRecords(t) ==   \* faulty variant
    /\ At(t, {"correcting"})
    /\ Releases(t, TRUE)
    /\ \E status \in {"failure", "timeout"} : RetriesOrFinishes(t, status)
    /\ TaskOnly
NotCorrected(t) ==
    /\ At(t, {"correcting"})
    /\ Releases(t, ~HasRetry(t))
    /\ \E status \in {"failure", "timeout"} : RetriesOrFinishes(t, status)
    /\ TaskOnly

-----------------------------------------------------------------------------
(* Cancellation.                                                           *)

(* run_task: the caller is cancelled                                       *)
CallerCancels(t) ==
    /\ t \in Cancellers /\ ~At(t, {"new", "done"}) /\ ~rec[t].cancel
    /\ rec' = [rec EXCEPT ![t].cancel = TRUE]
    /\ UNCHANGED <<result, records, lock, holding, slots>> /\ TaskOnly

(* The run of the scan ends, and the next one starts.                      *)
RunEnds ==
    /\ entry # 0 /\ entry' = 0
    /\ entry \in ext \/ \A t \in Tasks : RunOf[t] = entry => At(t, {"new", "done"})
    /\ UNCHANGED <<runs, ext, taskVars, stop>>

RunStarts ==
    /\ entry = 0 /\ runs < MaxRun
    /\ stop.at # "idle" => runs + 1 > StopRun   \* commands arrive in their order
    /\ entry' = runs + 1 /\ runs' = runs + 1
    /\ UNCHANGED <<ext, taskVars, stop>>

(* handle_stop, cancel_execution: only this execution, up to the revision  *)
Matched == {t \in Tasks : RunOf[t] <= StopRun /\ ~At(t, {"new", "done"})}

Newer == entry > StopRun
Stop ==
    /\ stop.at = "idle"
    /\ IF Newer
       THEN stop' = [stop EXCEPT !.at = "told"] /\ UNCHANGED <<ext, rec>>
       ELSE /\ ext' = ext \cup ({entry} \ {0})
            /\ stop' = [at |-> "waiting", matched |-> Matched, of |-> entry, quiet |-> FALSE]
            /\ rec' = [t \in Tasks |-> IF t \in Matched THEN [rec[t] EXCEPT !.cancel = TRUE]
                                                        ELSE rec[t]]
    /\ UNCHANGED <<result, records, lock, holding, slots, entry, runs>>

(* It waits a bounded time, and reports whether anything is still active.  *)
StopReports ==
    /\ stop.at = "waiting"
    /\ stop' = [stop EXCEPT !.at = "told",
                  !.quiet = /\ \A t \in stop.matched : At(t, {"done"})
                            /\ stop.of = 0 \/ entry # stop.of]
    /\ UNCHANGED <<taskVars, runVars>>

-----------------------------------------------------------------------------
Work(t) ==
    \/ Granted(t) \/ Withdrawn(t) \/ NoServe(t) \/ Locked(t) \/ Interrupted(t)
    \/ Succeeds(t) \/ Again(t) \/ Fails(t) \/ Recovers(t)
    \/ NotFormatted(t) \/ NotCorrected(t)

Next ==
    \/ \E t \in Tasks : Submit(t) \/ Work(t) \/ Unserved(t) \/ CallerCancels(t)
    \/ RunEnds \/ RunStarts \/ Stop \/ StopReports

Spec == Init /\ [][Next]_vars

(* A task takes a slot or a lock that stays free, and every message ends   *)
(* by its deadline.  That a wait for a model is given up is not assumed.   *)
FairSpec == Spec /\ \A t \in Tasks : WF_vars(Work(t))

-----------------------------------------------------------------------------
(* Properties.                                                             *)

(* Records, results, locks and slots have their types.                     *)
TypeOK ==
    /\ rec \in [Tasks -> [at : {"new", "done"} \cup Queues \cup Leased,
                          attempt : Nat, turn : Nat, cancel : BOOLEAN]]
    /\ \A t \in Tasks : rec[t].attempt <= Attempts[t]
    /\ result \in [Tasks -> Statuses \cup {Nobody}] /\ records \in [Tasks -> Nat]
    /\ lock \in [Shared -> Tasks \cup {Nobody}]
    /\ holding \in [Tasks -> Models \cup {Nobody}] /\ slots = Slots
    /\ entry \in 0..MaxRun /\ runs \in Runs /\ ext \subseteq Runs
    /\ stop \in [at : {"idle", "waiting", "told"}, matched : SUBSET Tasks, of : 0..MaxRun,
                 quiet : BOOLEAN]

(* Messages of one session are sent one after another, corrections of the  *)
(* JSON output included.                                                   *)
SessionsSerial ==
    \A t, u \in Tasks :
        At(t, {"talking", "correcting"}) /\ At(u, {"talking", "correcting"})
        /\ SessionFor(t) # Nobody /\ SessionFor(t) = SessionFor(u) => t = u

(* However many sessions a task took, its end is recorded once; a task     *)
(* that was cancelled while it queued may leave no record.                 *)
RecordedOnce ==
    \A t \in Tasks : records[t] = CASE result[t] = Nobody -> 0
                                    [] result[t] = "cancelled" -> IF records[t] = 0 THEN 0 ELSE 1
                                    [] OTHER -> 1

(* Once a stop has reported that nothing is active, no task of the stopped *)
(* executions holds a model, whatever they submit afterwards.              *)
QuietIsQuiet ==
    stop.quiet => \A t \in Tasks : RunOf[t] <= StopRun => holding[t] = Nobody

(* Every task ends, though it may queue three times for a slot and twice   *)
(* for its session before it does.                                         *)
EveryTaskEnds == \A t \in Tasks : At(t, {"queued"}) ~> result[t] # Nobody

(* Seen from outside, the service implements TaskOutcome: however sessions *)
(* fail, are corrected, cancelled or stopped, a task gets one result, with *)
(* which it gives back its slot and is recorded, and a stop that was told  *)
(* that its executions are quiet is never belied.                          *)
Outcome == INSTANCE TaskOutcome WITH
    Stopped <- {t \in Tasks : RunOf[t] <= StopRun}, quiet <- stop.quiet
ImplementsTaskOutcome == Outcome!Spec

=============================================================================
