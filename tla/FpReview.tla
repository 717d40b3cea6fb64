------------------------------ MODULE FpReview ------------------------------
(***************************************************************************)
(* The review of a scan's findings for false positives: the server's job,  *)
(* the dispatches that the findings, the end of the scan and the user set  *)
(* off, the Agent's queue of items with its worker, and the reports that   *)
(* go back.                                                                *)
(*                                                                         *)
(* Store calls are serialised (SQLite), what a handler does between two of *)
(* them is not.  A report that the outbox delivers is handled to its end   *)
(* before the next of the scan; progress is posted directly and may be     *)
(* lost.  One Agent process stays connected; ScanExecution has the rest.   *)
(*                                                                         *)
(* Abstracted: methods, verdicts, counters, stage outputs (handled as      *)
(* results are), the model pool's placeholders.                            *)
(***************************************************************************)
EXTENDS Naturals, Sequences, FiniteSets

CONSTANTS
    Items,        \* findings of the scan
    Early,        \* those stored before reviews were switched on: nothing dispatches them
    Concurrency,  \* items a worker runs at once
    MaxJob,       \* bound: review jobs of the scan
    Others,       \* what dispatches beside the findings: the user, the end of the scan
    Manual, Final,
    Stops,        \* whether the user stops reviews
    Nobody

ASSUME ReviewAssumption ==
    /\ Concurrency \in Nat \ {0} /\ MaxJob \in Nat \ {0} /\ Stops \in BOOLEAN
    /\ Early \subseteq Items
    /\ Others \subseteq {Manual, Final} /\ {Manual, Final, Nobody} \cap Items = {}
    /\ Manual # Final

VARIABLES
    job,       \* fp_review_jobs: status and execution revision
    found,     \* findings the server knows
    reviewed,  \* findings with an effective result
    call,      \* the handlers that dispatch, and the callback of their answer
    stop,      \* the stop handler, and the jobs it cancelled
    cmds,      \* commands under way to the Agent
    taking,    \* the items the command worker still has to queue
    known,     \* the revision the Agent's reporter knows for each job
    active,    \* _fp_review_active_items
    event,     \* _fp_review_cancel_events: the event's number, 0 when none
    raised,    \* events that are set
    queue,     \* _fp_review_queues
    flight,    \* items a worker runs
    tried,     \* findings that were reviewed, with whatever outcome
    worker,    \* _fp_review_tasks
    progress,  \* handlers of progress reports
    out,       \* the outbox
    post       \* the handler of the report under way

jobVars == <<job, found, reviewed>>
agentVars == <<active, event, raised, queue, flight, tried, worker>>
vars == <<jobVars, call, stop, cmds, taking, known, agentVars, progress, out, post>>

Jobs == 1..MaxJob
Callers == Items \cup Others

Idle == [at |-> "idle", job |-> 0, rev |-> 0, force |-> FALSE, items |-> {}, ev |-> <<0, 0>>, next |-> Nobody]
Over == [Idle EXCEPT !.at = "over"]
Free == [Idle EXCEPT !.at = "items"]
Quiet == [at |-> "gone", had |-> FALSE, good |-> FALSE, ends |-> "complete", cancelled |-> FALSE,
          size |-> 0, cleared |-> 0]

Init ==
    /\ job = [j \in Jobs |-> [status |-> "none", rev |-> 0]]
    /\ found = Early /\ reviewed = {}
    /\ call = [c \in Callers |-> IF c \in Early THEN Over ELSE Idle]
    /\ stop = [at |-> "idle", jobs |-> {}]
    /\ cmds = <<>> /\ taking = Free
    /\ known = [j \in Jobs |-> 0] /\ active = {}
    /\ event = [j \in Jobs |-> [there |-> FALSE, no |-> 0]] /\ raised = {}
    /\ queue = [j \in Jobs |-> <<>>] /\ flight = [j \in Jobs |-> {}] /\ tried = {}
    /\ worker = [j \in Jobs |-> Quiet]
    /\ progress = {} /\ out = <<>> /\ post = Nobody

-----------------------------------------------------------------------------
(* The server: which job, which revision, which items.                     *)

Running == {"pending", "running"}
Latest == Cardinality({j \in Jobs : job[j].status # "none"})

Sets(j, status) == job' = [job EXCEPT ![j].status = status]

AgentOnly == UNCHANGED <<jobVars, call, stop, out, post>>
ServerOnly == UNCHANGED <<taking, known, agentVars, progress>>

(* agent_vulnerability: the finding is stored                              *)
Report(v) ==
    /\ call[v].at = "idle" /\ v \notin found
    /\ found' = found \cup {v}
    /\ call' = [call EXCEPT ![v].at = "start"]
    /\ UNCHANGED <<job, reviewed, stop, cmds, out, post>> /\ ServerOnly

(* _ensure_fp_review_job_for_scan                                          *)
Unresolved == found \ reviewed
Confirmed == IF Unresolved # {} THEN Unresolved ELSE found
Refused(c) ==
    \/ Confirmed = {}
    \/ c # Manual /\ (Unresolved = {} \/ (Latest > 0 /\ job[Latest].status = "cancelled"))
Fresh == Latest = 0 \/ job[Latest].status = "cancelled"

(* For a finding, for the user, or once all findings were delivered.       *)
Asks(c) ==
    /\ call[c].at = IF c \in Items THEN "start" ELSE "idle"
    /\ c = Final => \A v \in Items : call[v].at \notin {"idle", "start", "ensured"}

Ensure(c) ==
    /\ Asks(c)
    /\ IF Refused(c)
       THEN call' = [call EXCEPT ![c] = Over] /\ UNCHANGED job
       ELSE LET j == IF Fresh THEN Latest + 1 ELSE Latest IN
            /\ j \in Jobs
            /\ Sets(j, "running")
            /\ IF c \in Items /\ c \in reviewed THEN call' = [call EXCEPT ![c] = Over]
               ELSE call' = [call EXCEPT ![c] = [at |-> "ensured", job |-> j, rev |-> 0,
                      force |-> c = Manual \/ (~Fresh /\ job[j].status \notin Running),
                      items |-> IF c \in Items THEN {c} ELSE Confirmed, ev |-> <<0, 0>>, next |-> Nobody]]
    /\ UNCHANGED <<found, reviewed, stop, cmds, out, post>> /\ ServerOnly

(* acquire_fp_review_execution                                             *)
Acquired(c) == job[call[c].job].rev + IF ~call[c].force /\ job[call[c].job].rev > 0 THEN 0 ELSE 1
Acquire(c) ==
    /\ call[c].at = "ensured"
    /\ job' = [job EXCEPT ![call[c].job].rev = Acquired(c)]
    /\ call' = [call EXCEPT ![c].at = "acquired", ![c].rev = Acquired(c)]
    /\ UNCHANGED <<found, reviewed, stop, cmds, out, post>> /\ ServerOnly

Send(c) ==
    /\ c \in Others /\ call[c].at = "acquired"
    /\ cmds' = Append(cmds, [type |-> "fp_review", call |-> call[c]])
    /\ call' = [call EXCEPT ![c] = Over]
    /\ UNCHANGED <<jobVars, stop, out, post>> /\ ServerOnly

(* stop_fp_review: cancelled before the Agent is told                      *)
StopReviews ==
    /\ Stops /\ stop.at = "idle" /\ Latest > 0
    /\ LET js == {j \in Jobs : job[j].status \in Running} IN
       /\ job' = [j \in Jobs |-> IF j \in js THEN [job[j] EXCEPT !.status = "cancelled"] ELSE job[j]]
       /\ stop' = [at |-> "told", jobs |-> js]
    /\ UNCHANGED <<found, reviewed, call, cmds, out, post>> /\ ServerOnly

TellStop ==
    /\ stop.at = "told"
    /\ \E order \in [1..Cardinality(stop.jobs) -> stop.jobs] :
         /\ \A i, k \in DOMAIN order : i < k => order[i] < order[k]
         /\ cmds' = cmds \o [i \in DOMAIN order |->
                       [type |-> "fp_review_stop", call |-> [Idle EXCEPT !.job = order[i]]]]
    /\ stop' = [stop EXCEPT !.at = "over"]
    /\ UNCHANGED <<jobVars, call, out, post>> /\ ServerOnly

-----------------------------------------------------------------------------
(* The Agent: enqueue_fp_review, from the command worker and from the      *)
(* callbacks of delivered findings.                                        *)

Highest(a, b) == IF a > b THEN a ELSE b
KnowsNext(j, rev) == known' = [known EXCEPT ![j] = Highest(@, rev + 1)]   \* faulty variant
Knows(j, rev) == known' = [known EXCEPT ![j] = Highest(@, rev)]

AcceptsNewer(j, rev, v) == rev > known[j] /\ <<j, v>> \notin active   \* faulty variant
Accepts(j, rev, v) == rev >= known[j] /\ <<j, v>> \notin active

(* The event of a job's items; a new one when the job has none.            *)
EventOf(j) == <<j, IF event[j].there THEN event[j].no ELSE event[j].no + 1>>

EntersUnfenced(j, v) ==   \* faulty variant
    /\ active' = active
    /\ event' = [event EXCEPT ![j] = [there |-> TRUE, no |-> EventOf(j)[2]]]

(* Up to the registration of a placeholder, which may suspend.             *)
Enters(j, v) ==
    /\ active' = active \cup {<<j, v>>}
    /\ event' = [event EXCEPT ![j] = [there |-> TRUE, no |-> EventOf(j)[2]]]

Ignored == UNCHANGED <<active, event>>

(* The rest: the item is queued, and has a worker.                         *)
Hires(j) == worker' = [worker EXCEPT ![j] = IF @.at = "gone" THEN [Quiet EXCEPT !.at = "loop"] ELSE @]
Joins(j, v, ev) ==
    /\ queue' = [queue EXCEPT ![j] = Append(@, [item |-> v, ev |-> ev])]
    /\ Hires(j)

(* _enqueue_vulnerability_downstream, when the finding was delivered       *)
CalledBack(v) ==
    /\ v \in Items /\ call[v].at = "acquired"
    /\ LET j == call[v].job IN
       /\ Knows(j, call[v].rev)
       /\ IF Accepts(j, call[v].rev, v)
          THEN Enters(j, v) /\ call' = [call EXCEPT ![v].at = "registering", ![v].ev = EventOf(j)]
          ELSE Ignored /\ call' = [call EXCEPT ![v] = Over]
    /\ UNCHANGED <<jobVars, stop, cmds, taking, raised, queue, flight, tried, worker, out, post, progress>>

CallbackQueues(v) ==
    /\ v \in Items /\ call[v].at = "registering"
    /\ Joins(call[v].job, v, call[v].ev)
    /\ call' = [call EXCEPT ![v] = Over]
    /\ UNCHANGED <<jobVars, stop, cmds, taking, known, active, event, raised, flight, tried, out, post, progress>>

(* handle_fp_review: one item after the other                              *)
TakeReview ==
    /\ taking = Free /\ cmds # <<>> /\ Head(cmds).type = "fp_review"
    /\ taking' = [Head(cmds).call EXCEPT !.at = "items", !.force = FALSE] /\ cmds' = Tail(cmds)
    /\ Knows(taking'.job, taking'.rev)
    /\ UNCHANGED <<agentVars, progress>> /\ AgentOnly

Rest(items) == IF items = {} THEN Free
               ELSE [taking EXCEPT !.at = "items", !.items = items, !.ev = <<0, 0>>, !.next = Nobody]
TakeItem(v) ==
    /\ taking.at = "items" /\ v \in taking.items
    /\ IF Accepts(taking.job, taking.rev, v)
       THEN /\ Enters(taking.job, v)
            /\ taking' = [taking EXCEPT !.at = "registering", !.items = @ \ {v},
                                        !.ev = EventOf(taking.job), !.next = v]
       ELSE Ignored /\ taking' = Rest(taking.items \ {v})
    /\ Knows(taking.job, taking.rev)
    /\ UNCHANGED <<cmds, raised, queue, flight, tried, worker, progress>> /\ AgentOnly

QueueItem ==
    /\ taking.at = "registering"
    /\ Joins(taking.job, taking.next, taking.ev)
    /\ taking' = Rest(taking.items)
    /\ UNCHANGED <<cmds, known, active, event, raised, flight, tried, progress>> /\ AgentOnly

-----------------------------------------------------------------------------
(* The Agent: _run_fp_review_worker.                                       *)

UserCancelled(j) == event[j].there /\ <<j, event[j].no>> \in raised
WorkerIs(j, at) == worker[j].at = at

AgentStep == UNCHANGED <<found, reviewed, call, stop, cmds, taking, known, post>>

(* Reporter._queue_post: a newer report takes the place of a pending one.  *)
Places(msg) == {i \in DOMAIN out : out[i].key = msg.key}
Reports(msg) ==
    out' = IF Places(msg) = {} THEN Append(out, msg)
           ELSE [i \in DOMAIN out |-> IF i \in Places(msg) THEN msg ELSE out[i]]

Launch(j) ==
    /\ WorkerIs(j, "loop") /\ queue[j] # <<>> /\ Cardinality(flight[j]) < Concurrency
    /\ flight' = [flight EXCEPT ![j] = @ \cup {[item |-> Head(queue[j]).item,
                                               ev |-> Head(queue[j]).ev, at |-> "new"]}]
    /\ queue' = [queue EXCEPT ![j] = Tail(@)]
    /\ worker' = [worker EXCEPT ![j].had = TRUE]
    /\ UNCHANGED <<job, active, event, raised, tried, out, progress>> /\ AgentStep

Moves(j, f, to) == flight' = [flight EXCEPT ![j] = (@ \ {f}) \cup {[f EXCEPT !.at = to]}]

(* run_item.  Its progress report matters when the job is not shown as     *)
(* running; otherwise, or when it is lost, the review just goes on.        *)
Started(j, f) ==
    /\ f \in flight[j] /\ f.at = "new"
    /\ job[j].rev = known[j] /\ job[j].status \in {"complete", "error"}
    /\ Moves(j, f, "told")
    /\ progress' = progress \cup {[job |-> j, item |-> f.item]}
    /\ UNCHANGED <<job, active, event, raised, queue, tried, worker, out>> /\ AgentStep

Reviewed(j, f, outcome) ==
    /\ f \in flight[j] /\ f.at \in {"new", "told"}
    /\ [job |-> j, item |-> f.item] \notin progress
    /\ outcome = "cancelled" => f.ev \in raised
    /\ Moves(j, f, outcome)
    /\ active' = active \ {<<j, f.item>>}
    /\ tried' = tried \cup {f.item}
    /\ IF outcome = "success"
       THEN Reports([key |-> <<"result", j, f.item>>, rev |-> known[j], status |-> "running"])
       ELSE UNCHANGED out
    /\ UNCHANGED <<job, event, raised, queue, worker, progress>> /\ AgentStep

Outcomes == {"success", "error", "cancelled"}
Ended(f) == f.at \in Outcomes

(* The worker takes note of an item that has ended.                        *)
Collect(j, f) ==
    /\ WorkerIs(j, "loop") /\ f \in flight[j] /\ Ended(f)
    /\ flight' = [flight EXCEPT ![j] = @ \ {f}]
    /\ worker' = [worker EXCEPT ![j].good = @ \/ f.at = "success",
                                ![j].ends = IF f.at = "cancelled" /\ UserCancelled(j)
                                            THEN "cancelled" ELSE @,
                                ![j].at = IF f.at = "cancelled" /\ UserCancelled(j)
                                          THEN "cancelling" ELSE @]
    /\ UNCHANGED <<job, active, event, raised, queue, tried, out, progress>> /\ AgentStep

(* handle_fp_review_stop                                                   *)
Interrupted(j) ==
    worker' = [worker EXCEPT ![j] =
        CASE @.at = "loop" -> [@ EXCEPT !.at = "cancelling", !.cancelled = TRUE,
                                        !.ends = IF event[j].there THEN "cancelled" ELSE "error"]
          [] @.at \in {"cancelling", "gone"} -> @
          [] OTHER -> Quiet]   \* finish and clean-up are abandoned
TakeStop ==
    /\ taking = Free /\ cmds # <<>> /\ Head(cmds).type = "fp_review_stop"
    /\ LET j == Head(cmds).call.job IN
       /\ raised' = raised \cup (IF event[j].there THEN {<<j, event[j].no>>} ELSE {})
       /\ Interrupted(j)
    /\ cmds' = Tail(cmds)
    /\ UNCHANGED <<taking, known, active, event, queue, flight, tried, progress>> /\ AgentOnly

CancelItem(j, f) ==
    /\ WorkerIs(j, "cancelling") /\ f \in flight[j]
    /\ flight' = [flight EXCEPT ![j] = @ \ {f}]
    /\ active' = IF Ended(f) THEN active ELSE active \ {<<j, f.item>>}
    /\ UNCHANGED <<job, event, raised, queue, tried, worker, out, progress>> /\ AgentStep

Ending(j) == IF UserCancelled(j) THEN "cancelled"
             ELSE IF worker[j].ends = "complete" /\ ~worker[j].good THEN "error" ELSE worker[j].ends

(* The worker ends: it clears what is queued when the user stopped it,     *)
(* reports, and makes room, or way for a worker of what came meanwhile.    *)
WindsUp(j) ==
    /\ flight[j] = {}
    /\ \/ WorkerIs(j, "loop") /\ queue[j] = <<>>
       \/ WorkerIs(j, "cancelling")
    /\ IF Ending(j) = "cancelled"
       THEN /\ worker' = [worker EXCEPT ![j].at = "clearing", ![j].ends = "cancelled",
                                        ![j].size = Len(queue[j])]
            /\ UNCHANGED out
       ELSE /\ worker' = [worker EXCEPT ![j].at = "finishing"]
            /\ IF worker[j].had
               THEN Reports([key |-> <<"finish", j>>, rev |-> known[j], status |-> Ending(j)])
               ELSE UNCHANGED out
    /\ UNCHANGED <<job, active, event, raised, queue, flight, tried, progress>> /\ AgentStep

Clear(j) ==
    /\ WorkerIs(j, "clearing")
    /\ IF Len(queue[j]) # worker[j].size   \* deque mutated during iteration
       THEN worker' = [worker EXCEPT ![j] = Quiet] /\ UNCHANGED <<active, queue, out>>
       ELSE IF worker[j].cleared < worker[j].size
       THEN /\ worker' = [worker EXCEPT ![j].cleared = @ + 1]
            /\ active' = active \ {<<j, queue[j][worker[j].cleared + 1].item>>}
            /\ UNCHANGED <<queue, out>>
       ELSE /\ worker' = [worker EXCEPT ![j].at = "finishing"]
            /\ queue' = [queue EXCEPT ![j] = <<>>]
            /\ IF worker[j].had
               THEN Reports([key |-> <<"finish", j>>, rev |-> known[j], status |-> "cancelled"])
               ELSE UNCHANGED out
            /\ UNCHANGED active
    /\ UNCHANGED <<job, event, raised, flight, tried, progress>> /\ AgentStep

NeverAgain(j) == FALSE   \* faulty variant
WorksAgain(j) == queue[j] # <<>> /\ ~worker[j].cancelled
Leaves(j) ==
    /\ WorkerIs(j, "finishing")
    /\ worker' = [worker EXCEPT ![j] = IF WorksAgain(j) THEN [Quiet EXCEPT !.at = "loop"] ELSE Quiet]
    /\ event' = IF queue[j] = <<>> THEN [event EXCEPT ![j].there = FALSE] ELSE event
    /\ UNCHANGED <<job, active, raised, queue, flight, tried, out, progress>> /\ AgentStep

-----------------------------------------------------------------------------
(* The server handles what the Agent reports.                              *)

Handles == UNCHANGED <<found, call, stop, cmds, taking, known, agentVars>>

(* agent_fp_review_progress                                                *)
WriteProgress(p) ==
    /\ p \in progress /\ progress' = progress \ {p}
    /\ Sets(p.job, "running")
    /\ UNCHANGED <<reviewed, out, post>> /\ Handles

(* agent_fp_review_result, agent_fp_review_finish: refused, or read        *)
Refuses(msg) == job[msg.key[2]].rev # msg.rev \/ job[msg.key[2]].status = "cancelled"
Deliver ==
    /\ post = Nobody /\ out # <<>>
    /\ IF Refuses(Head(out))
       THEN out' = Tail(out) /\ UNCHANGED post
       ELSE post' = [msg |-> Head(out), was |-> job[Head(out).key[2]].status] /\ UNCHANGED out
    /\ UNCHANGED <<job, reviewed, progress>> /\ Handles

(* and written.  A cancellation nobody asked for is an error.              *)
Write ==
    /\ post # Nobody
    /\ LET j == post.msg.key[2] IN
       IF post.msg.key[1] = "finish"
       THEN /\ Sets(j, IF post.msg.status = "cancelled" THEN "error" ELSE post.msg.status)
            /\ UNCHANGED reviewed
       ELSE /\ IF post.was \in Running THEN UNCHANGED job ELSE Sets(j, "running")
            /\ reviewed' = reviewed \cup {post.msg.key[3]}
    /\ post' = Nobody
    /\ out' = IF Head(out) = post.msg THEN Tail(out) ELSE out
    /\ UNCHANGED progress /\ Handles

-----------------------------------------------------------------------------
Server ==
    \/ \E c \in Callers : Ensure(c) \/ Acquire(c) \/ Send(c)
    \/ TellStop \/ Deliver \/ Write \/ \E p \in progress : WriteProgress(p)

Enqueuers ==
    \/ \E v \in Items : CalledBack(v) \/ CallbackQueues(v) \/ TakeItem(v)
    \/ TakeReview \/ QueueItem \/ TakeStop

Work(j) ==
    \/ Launch(j) \/ WindsUp(j) \/ Clear(j) \/ Leaves(j)
    \/ \E f \in flight[j] :
         \/ Started(j, f) \/ Collect(j, f) \/ CancelItem(j, f)
         \/ \E outcome \in Outcomes : Reviewed(j, f, outcome)

Next ==
    \/ \E v \in Items : Report(v)
    \/ StopReviews \/ Server \/ Enqueuers \/ \E j \in Jobs : Work(j)

Spec == Init /\ [][Next]_vars

-----------------------------------------------------------------------------
(* Properties.                                                             *)

CallType ==
    [at : {"idle", "start", "ensured", "acquired", "registering", "items", "over"}, job : Nat, rev : Nat,
     force : BOOLEAN, items : SUBSET Items, ev : Nat \X Nat, next : Items \cup {Nobody}]
FlightType == [item : Items, ev : Nat \X Nat, at : {"new", "told", "success", "error", "cancelled"}]
WorkerType ==
    [at : {"gone", "loop", "cancelling", "clearing", "finishing"}, had : BOOLEAN, good : BOOLEAN,
     ends : {"complete", "error", "cancelled"}, cancelled : BOOLEAN, size : Nat, cleared : Nat]

(* A handler names a job that exists, an item waits for or runs with an    *)
(* event of its own job, and the Agent knows no revision from the future.  *)
TypeOK ==
    /\ job \in [Jobs -> [status : {"none", "complete", "error", "cancelled"} \cup Running, rev : Nat]]
    /\ reviewed \subseteq found /\ found \subseteq Items
    /\ call \in [Callers -> CallType] /\ taking \in CallType
    /\ \A c \in Callers : call[c].at \in {"ensured", "acquired", "registering"} => call[c].job \in 1..Latest
    /\ \A j \in Jobs : known[j] <= job[j].rev
    /\ active \subseteq (Jobs \X Items) /\ event \in [Jobs -> [there : BOOLEAN, no : Nat]]
    /\ worker \in [Jobs -> WorkerType]
    /\ \A j \in Jobs :
          /\ \A i \in DOMAIN queue[j] : queue[j][i].item \in found /\ queue[j][i].ev[1] = j
          /\ \A f \in flight[j] : f \in FlightType /\ f.item \in found /\ f.ev[1] = j
    /\ tried \subseteq found

(* Nothing that was taken for review is left behind by a review that the   *)
(* user has not stopped.                                                   *)
Registering(j, v) ==
    \/ call[v].at = "registering" /\ call[v].job = j
    \/ taking.at = "registering" /\ taking.job = j /\ taking.next = v
InQueue(j, v) == \E i \in DOMAIN queue[j] : queue[j][i].item = v
InFlight(j, v) == \E f \in flight[j] : f.item = v /\ ~Ended(f)

NothingStranded ==
    \A j \in Jobs \ stop.jobs :
        /\ queue[j] # <<>> => ~WorkerIs(j, "gone")
        /\ \A v \in Items : <<j, v>> \in active =>
              Registering(j, v) \/ InQueue(j, v) \/ InFlight(j, v)

(* An item is queued or reviewed once at a time.                           *)
OnceAtATime ==
    \A j \in Jobs \ stop.jobs : \A v \in Items :
        /\ Cardinality({i \in DOMAIN queue[j] : queue[j][i].item = v})
           + Cardinality({f \in flight[j] : f.item = v /\ ~Ended(f)}) <= 1

Settled ==
    /\ \A c \in Callers : call[c].at = "over" \/ (c = Manual /\ call[c].at = "idle")
    /\ cmds = <<>> /\ taking = Free /\ out = <<>> /\ post = Nobody /\ progress = {}
    /\ stop.at # "told"
Idled == \A j \in Jobs : WorkerIs(j, "gone")

(* Once the scan has ended and its dispatches came to an end, every finding *)
(* was reviewed, whatever was merged, refused as stale or taken twice.     *)
AllReviewed == Settled /\ Idled /\ stop.jobs = {} => found \subseteq tried

(* The same, unless the user asked for a review of his own meanwhile.      *)
NoneForgotten == (\A c \in Others \ {Final} : call[c].at = "idle") => AllReviewed

-----------------------------------------------------------------------------
(* What one would expect and the code does not do.                         *)

(* A job that is shown as running, is.                                     *)
RunningRuns ==
    Settled => \A j \in Jobs \ stop.jobs : job[j].status = "running" => ~WorkerIs(j, "gone")

(* What the user stopped stays stopped.                                    *)
StopStays == [][\A j \in Jobs : job[j].status = "cancelled" => job'[j].status = "cancelled"]_vars

=============================================================================
