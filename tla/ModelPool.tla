------------------------------ MODULE ModelPool ------------------------------
(***************************************************************************)
(* The Agent's model pool (task_agent/model_pool.py): OpenCode tasks queue *)
(* for a lease on one of the configured model rows.  A row has a number of *)
(* slots, a capability and time windows; the execution target behind it    *)
(* (its identity) has a quota circuit breaker.  All pool state is changed  *)
(* in critical sections that contain no await, so every action below is    *)
(* one critical section (or one step of a caller outside of it).           *)
(*                                                                         *)
(* Abstracted: weights, the health penalty and the order in which equally  *)
(* admissible rows are preferred (any admissible row may be picked);       *)
(* statistics and snapshots; the length of a cooldown and of a wait        *)
(* budget (they run out at an arbitrary moment).                           *)
(***************************************************************************)
EXTENDS Integers, FiniteSets

CONSTANTS
    Requests,     \* logical tasks; each asks for leases under its own task id
    Rows,         \* model row ids: naturals, in the order of the configuration
    Idents,       \* execution targets (model, default flag, tool, executable)
    Off,          \* a row that is absent, disabled or has no model
    Configs,      \* the configurations an administrator may apply
    Windowed,     \* rows whose time windows open and close
    Priority,     \* normalize_priority(...) of each request, 1..100
    Required,     \* required capability of each request
    Strict,       \* strict_capability of each request
    Waits,        \* wait_when_unavailable of each request
    Budgeted,     \* requests that carry a ModelQuotaWaitBudget
    Planners,     \* requests announced by register_planned_task
    Grouped,      \* planned requests that share one queue_group
    MaxAttempts,  \* total_session_attempts: leases one request may ask for
    MaxChanges    \* bound: configuration changes

Capabilities == 0..2
RowConf == [ident : Idents, cap : Capabilities, max : Nat \ {0}]

ASSUME PoolAssumption ==
    /\ Rows \subseteq Nat /\ IsFiniteSet(Rows) /\ IsFiniteSet(Requests)
    /\ Off \notin RowConf /\ Off \notin Idents /\ Off \notin Rows
    /\ Configs # {} /\ Configs \subseteq [Rows -> RowConf \cup {Off}]
    /\ Windowed \subseteq Rows
    /\ Priority \in [Requests -> 1..100]
    /\ Required \in [Requests -> Capabilities]
    /\ Strict \in [Requests -> BOOLEAN] /\ Waits \in [Requests -> BOOLEAN]
    /\ Budgeted \subseteq Requests
    /\ Planners \subseteq Requests /\ Grouped \subseteq Planners
    /\ MaxAttempts \in Nat \ {0} /\ MaxChanges \in Nat

VARIABLES
    cfg,      \* what the callable cli_config() returns now
    dirty,    \* applied, but refresh_configured_model_pool has not run yet
    changes,  \* configurations applied so far
    window,   \* rows inside their time window
    bound,    \* identity of the health state each row id points to
    circuit,  \* the health state of each identity
    phase,    \* where each request's caller is
    attempts, \* leases each request has asked for
    ticket,   \* sequence number in _pending_requests, 0 when not pending
    tickets,  \* _pending_sequence
    flagged,  \* requests whose cancel_event is set
    budget,   \* the quota wait budget of each request
    avoid,    \* avoid_model_identities of each request
    plan,     \* sequence number in _planned_tasks, 0 when not registered
    plans,    \* _planned_sequence
    running,  \* _running_by_model
    total,    \* _global_running
    active,   \* attempt whose lease is in _active_tasks, 0 when none
    leases    \* every ModelLease object a request was given

confVars   == <<cfg, dirty, changes, window>>
healthVars == <<bound, circuit>>
callVars   == <<phase, attempts, flagged, budget, avoid>>
queueVars  == <<ticket, tickets, plan, plans>>
leaseVars  == <<running, total, active, leases>>
vars == <<confVars, healthVars, callVars, queueVars, leaseVars>>

Circuit == [gen : Nat, quota : {"closed", "open", "elapsed"}, probe : BOOLEAN]
NoLease == [row |-> 0, ident |-> Off, gen |-> 0, probe |-> FALSE]
Lease == [row : Rows, ident : Idents, gen : Nat, probe : BOOLEAN]
Phases == {"new", "idle", "notifying", "waiting", "leased",
           "done", "failed", "cancelled"}
Outcomes == {"success", "failure", "quota", "none"}   \* timeout acts as failure
Attempts == 1..MaxAttempts

Init ==
    /\ cfg \in Configs /\ dirty = FALSE /\ changes = 0 /\ window = Rows
    /\ bound = [r \in Rows |-> Off]
    /\ circuit = [i \in Idents |-> [gen |-> 0, quota |-> "closed", probe |-> FALSE]]
    /\ phase = [q \in Requests |-> IF q \in Planners THEN "new" ELSE "idle"]
    /\ attempts = [q \in Requests |-> 0] /\ flagged = {}
    /\ budget = [q \in Requests |-> "paused"] /\ avoid = [q \in Requests |-> {}]
    /\ ticket = [q \in Requests |-> 0] /\ tickets = 0
    /\ plan = [q \in Requests |-> 0] /\ plans = 0
    /\ running = [r \in Rows |-> 0] /\ total = 0
    /\ active = [q \in Requests |-> 0]
    /\ leases = [q \in Requests |-> [k \in Attempts |-> NoLease]]

-----------------------------------------------------------------------------
(* The configuration and the health states.                                *)

Configured == {r \in Rows : cfg[r] # Off}
InWindow == Configured \cap window
RowsOf(i) == {r \in Configured : cfg[r].ident = i}
IsFirst(r, i) == r \in RowsOf(i) /\ \A s \in RowsOf(i) : r <= s

(* _ensure_global_models_locked visits the configured rows in order; a row *)
(* whose target changed takes over the state of an id that still points to *)
(* the new target, else a new state is made.  One target never has two     *)
(* states, so a state is named by its identity; that of target i is found  *)
(* unless every id that pointed to it was visited, and re-pointed, before  *)
(* the first row of i.                                                     *)
FoundUnderOwnId(i) == \E f \in Rows : IsFirst(f, i) /\ bound[f] = i   \* faulty variant
Found(i) ==
    \E f, k \in Rows : /\ IsFirst(f, i)
                       /\ bound[k] = i
                       /\ k \notin Configured \/ k >= f
FreshCircuit(i) == [gen |-> circuit[i].gen + 1, quota |-> "closed", probe |-> FALSE]
Ensured == [i \in Idents |-> IF RowsOf(i) # {} /\ ~Found(i) THEN FreshCircuit(i)
                                                             ELSE circuit[i]]
Rebound == [r \in Rows |-> IF r \in Configured THEN cfg[r].ident ELSE bound[r]]
EnsureModels == bound' = Rebound /\ circuit' = Ensured

(* The loop itself, on the objects _model_health_by_id points to (<<>> when*)
(* an id is absent): Visited[n] is the table when the rows below n have    *)
(* been through _ensure_model_health_locked.                               *)
Object(r) == IF bound[r] = Off THEN <<>> ELSE <<bound[r], circuit[bound[r]].gen>>
Visit(health, r) ==
    LET i == cfg[r].ident
        others == {k \in Rows \ {r} : health[k] # <<>> /\ health[k][1] = i}
    IN  IF r \notin Configured \/ (health[r] # <<>> /\ health[r][1] = i) THEN health
        ELSE [health EXCEPT ![r] = IF others # {} THEN health[CHOOSE k \in others : TRUE]
                                                  ELSE <<i, circuit[i].gen + 1>>]
HighestRow == CHOOSE r \in Rows : \A s \in Rows : s <= r
Visited[n \in 0..HighestRow + 1] ==
    IF n = 0 THEN [r \in Rows |-> Object(r)]
    ELSE IF n - 1 \in Rows THEN Visit(Visited[n - 1], n - 1) ELSE Visited[n - 1]
AfterLoop == Visited[HighestRow + 1]

(* _quota_circuit_available_locked *)
NeverHalfOpen(c) == c.quota = "closed"   \* faulty variant
CircuitAvailable(c) == c.quota = "closed" \/ (c.quota = "elapsed" /\ ~c.probe)

-----------------------------------------------------------------------------
(* Which rows a request may be given.                                      *)

Satisfies(rows, cap) == {r \in rows : cfg[r].cap >= cap}

(* _eligible_options_for_request_locked *)
Eligible(q) ==
    IF /\ ~Strict[q]
       /\ Satisfies(InWindow, Required[q]) = {}
       /\ Satisfies(Configured, Required[q]) = {}
    THEN InWindow
    ELSE Satisfies(InWindow, Required[q])

AvailableRows(q) == {r \in Eligible(q) : CircuitAvailable(Ensured[cfg[r].ident])}
Untried(q) == {r \in AvailableRows(q) : cfg[r].ident \notin avoid[q]}

(* _request_blocked_by_quota_circuits_locked *)
QuotaBlocked(q) == Eligible(q) # {} /\ AvailableRows(q) = {}

(* _planned_order_allows_option_locked: p is _planned_tasks at the call.   *)
PlanAllowsAmongPending(p, q, r) ==   \* faulty variant
    p[q] = 0 \/ q \notin Grouped \/
    \A e \in Grouped : ticket[e] > 0 /\ p[e] > 0 /\ p[e] < p[q] => ~(cfg[r].cap >= Required[e])
PlanAllows(p, q, r) ==
    \/ p[q] = 0 \/ q \notin Grouped
    \/ \A e \in Grouped : p[e] > 0 /\ p[e] < p[q] => ~(cfg[r].cap >= Required[e])

(* _available_options *)
HasOneSlotTooMany(r) == running[r] <= cfg[r].max   \* faulty variant
HasSlot(r) == running[r] < cfg[r].max

(* _choose_available_for_request_locked *)
Choices(p, q) ==
    LET selection == IF Untried(q) # {} THEN Untried(q) ELSE AvailableRows(q)
    IN  {r \in selection : HasSlot(r) /\ PlanAllows(p, q, r)}

Pending == {q \in Requests : ticket[q] > 0}
Precedes(a, b) ==
    \/ Priority[a] > Priority[b]
    \/ Priority[a] = Priority[b] /\ ticket[a] < ticket[b]

(* _consume_planned_task_locked and the removals from _pending_requests    *)
Cleared(p, gone) == [q \in Requests |-> IF q \in gone THEN 0 ELSE p[q]]
Consumed(p, q) == [p EXCEPT ![q] = 0]
Paused(gone) == [q \in Requests |->
                   IF q \in gone /\ budget[q] = "counting" THEN "paused" ELSE budget[q]]

-----------------------------------------------------------------------------
(* Planned tasks.                                                          *)

RegisterPlan(q) ==
    /\ phase[q] = "new"
    /\ phase' = [phase EXCEPT ![q] = "idle"]
    /\ plan' = [plan EXCEPT ![q] = plans + 1] /\ plans' = plans + 1
    /\ UNCHANGED <<confVars, healthVars, attempts, flagged, budget, avoid,
                   ticket, tickets, leaseVars>>

(* clear_planned_task, called by the owner of the entry: when it drops the *)
(* task before it asks for a lease, and in the finally after it ended.     *)
ClearPlan(q) ==
    /\ plan[q] > 0
    /\ \/ phase[q] = "idle" /\ attempts[q] = 0
       \/ phase[q] \in {"done", "failed", "cancelled"}
    /\ plan' = [plan EXCEPT ![q] = 0]
    /\ phase' = [phase EXCEPT ![q] = IF @ = "idle" THEN "cancelled" ELSE @]
    /\ UNCHANGED <<confVars, healthVars, attempts, flagged, budget, avoid,
                   ticket, tickets, plans, leaseVars>>

-----------------------------------------------------------------------------
(* acquire_model_lease: the first pass, on_queued, and the waiting loop.   *)

(* _grant_lease_locked: q's k-th lease is on row r.                        *)
Grant(q, k, r) ==
    LET i == cfg[r].ident
        probe == Ensured[i].quota = "elapsed" /\ ~Ensured[i].probe
    IN  /\ bound' = Rebound
        /\ circuit' = [Ensured EXCEPT ![i].probe = @ \/ probe]
        /\ running' = [running EXCEPT ![r] = @ + 1] /\ total' = total + 1
        /\ active' = [active EXCEPT ![q] = k]
        /\ leases' = [leases EXCEPT ![q][k] = [row |-> r, ident |-> i,
                          gen |-> Ensured[i].gen, probe |-> probe]]
        /\ phase' = [phase EXCEPT ![q] = "leased"]

(* _fail_pending_request_locked *)
Fail(q) ==
    /\ EnsureModels
    /\ phase' = [phase EXCEPT ![q] = "failed"]
    /\ budget' = Paused({q})
    /\ plan' = Consumed(plan, q)
    /\ UNCHANGED leaseVars

NoModel(q) == Configured = {} /\ ~Waits[q]

Asks(q) == phase[q] = "idle"

SubmitCancelled(q) ==
    /\ Asks(q) /\ q \in flagged
    /\ phase' = [phase EXCEPT ![q] = "cancelled"]
    /\ UNCHANGED <<confVars, healthVars, attempts, flagged, budget, avoid,
                   queueVars, leaseVars>>

Submit(q) ==
    /\ Asks(q) /\ q \notin flagged
    /\ attempts' = [attempts EXCEPT ![q] = @ + 1]
    /\ tickets' = tickets + 1
    /\ \/ NoModel(q) /\ Fail(q) /\ UNCHANGED ticket
       \/ /\ ~NoModel(q) /\ Pending = {}
          /\ \E r \in Choices(plan, q) : Grant(q, attempts[q] + 1, r)
          /\ plan' = Consumed(plan, q)
          /\ UNCHANGED <<ticket, budget>>
       \/ /\ ~NoModel(q) /\ (Pending # {} \/ Choices(plan, q) = {})
          /\ EnsureModels
          /\ ticket' = [ticket EXCEPT ![q] = tickets + 1]
          /\ phase' = [phase EXCEPT ![q] = "notifying"]
          /\ UNCHANGED <<budget, plan, leaseVars>>
    /\ UNCHANGED <<confVars, flagged, avoid, plans>>

(* The on_queued callback has returned.                                    *)
Notified(q) ==
    /\ phase[q] = "notifying"
    /\ phase' = [phase EXCEPT ![q] = "waiting"]
    /\ UNCHANGED <<confVars, healthVars, attempts, flagged, budget, avoid,
                   queueVars, leaseVars>>

Leave(q) ==
    /\ phase' = [phase EXCEPT ![q] = "cancelled"]
    /\ ticket' = [ticket EXCEPT ![q] = 0]
    /\ UNCHANGED <<confVars, healthVars, attempts, flagged, avoid, tickets, plans,
                   leaseVars>>

PollCancelled(q) ==
    /\ phase[q] = "waiting" /\ q \in flagged
    /\ budget' = Paused({q}) /\ plan' = Consumed(plan, q)
    /\ Leave(q)

(* The awaiting coroutine is cancelled; the finally withdraws the request. *)
Withdraw(q) ==
    /\ phase[q] \in {"notifying", "waiting"}
    /\ IF ticket[q] > 0
       THEN budget' = Paused({q}) /\ plan' = Consumed(plan, q)
       ELSE UNCHANGED <<budget, plan>>
    /\ Leave(q)

WaitOver(q) == QuotaBlocked(q) /\ (budget[q] = "spent" \/ ~Waits[q])

PollFailedKeepsTicket(q) ==   \* faulty variant
    /\ phase[q] = "waiting" /\ q \notin flagged
    /\ NoModel(q) \/ WaitOver(q)
    /\ Fail(q)
    /\ UNCHANGED <<confVars, attempts, flagged, avoid, ticket, tickets, plans>>
PollFailed(q) ==
    /\ phase[q] = "waiting" /\ q \notin flagged
    /\ NoModel(q) \/ WaitOver(q)
    /\ Fail(q)
    /\ ticket' = [ticket EXCEPT ![q] = 0]
    /\ UNCHANGED <<confVars, attempts, flagged, avoid, tickets, plans>>

(* quota_wait_budget.start or .pause                                       *)
BudgetTicks(q) ==
    budget' = [budget EXCEPT ![q] =
                 IF q \notin Budgeted \/ @ = "spent" THEN @
                 ELSE IF QuotaBlocked(q) THEN "counting" ELSE "paused"]

(* _next_runnable_pending_locked after _prune_cancelled_pending_locked     *)
Pruned == Pending \cap flagged
Runnable(q, p) == q \in Pending \ Pruned /\ Choices(p, q) # {}
IsRunnable(q, p) == Runnable(q, p)   \* faulty variant
IsNext(q, p) == Runnable(q, p) /\ \A e \in Requests : Runnable(e, p) => ~Precedes(e, q)

Poll(q) ==
    LET p == Cleared(plan, Pruned) IN
    /\ phase[q] = "waiting" /\ q \notin flagged
    /\ ~NoModel(q) /\ ~WaitOver(q)
    /\ BudgetTicks(q)
    /\ \/ /\ IsNext(q, p)
          /\ \E r \in Choices(p, q) : Grant(q, attempts[q], r)
          /\ ticket' = Cleared(ticket, Pruned \cup {q})
          /\ plan' = Consumed(p, q)
       \/ /\ ~IsNext(q, p)
          /\ EnsureModels
          /\ ticket' = Cleared(ticket, Pruned) /\ plan' = p
          /\ UNCHANGED <<phase, leaseVars>>
    /\ UNCHANGED <<confVars, attempts, flagged, avoid, tickets, plans>>

-----------------------------------------------------------------------------
(* release_model_lease.                                                    *)

(* _apply_model_health_outcome_locked finds the state by row id or among   *)
(* all ids; a release without a health outcome looks under the row id only.*)
TrackedByIdentity(l) == \E r \in Rows : bound[r] = l.ident   \* faulty variant
Tracked(l) == circuit[l.ident].gen = l.gen /\ \E r \in Rows : bound[r] = l.ident
TrackedAtRow(l) == circuit[l.ident].gen = l.gen /\ bound[l.row] = l.ident

HealthAfter(l, h) ==
    LET quota == CASE h = "success" -> "closed"
                   [] h = "quota"   -> "open"
                   [] OTHER         -> circuit[l.ident].quota
        applies == IF h = "none" THEN l.probe /\ TrackedAtRow(l) ELSE Tracked(l)
    IN  IF applies
        THEN [circuit EXCEPT ![l.ident] = [@ EXCEPT !.quota = quota, !.probe = FALSE]]
        ELSE circuit

Less(n) == IF n > 0 THEN n - 1 ELSE 0

IsAlwaysHeld(q, k) == TRUE   \* faulty variant
IsHeld(q, k) == active[q] = k

ReleaseLease(q, k, h) ==
    IF IsHeld(q, k)
    THEN LET l == leases[q][k] IN
         /\ running' = [running EXCEPT ![l.row] = Less(@)] /\ total' = Less(total)
         /\ active' = [active EXCEPT ![q] = 0]
         /\ circuit' = HealthAfter(l, h)
         /\ UNCHANGED <<bound, leases>>
    ELSE UNCHANGED <<healthVars, leaseVars>>

OneSessionMore(q) == attempts[q] <= MaxAttempts   \* faulty variant
HasFreshSession(q) == attempts[q] < MaxAttempts

(* The task's attempt ends; a failed one may be followed by a fresh        *)
(* session, which avoids the target when the model or its output failed.   *)
Release(q) ==
    /\ phase[q] = "leased"
    /\ \E h \in Outcomes :
         /\ ReleaseLease(q, attempts[q], h)
         /\ \/ phase' = [phase EXCEPT ![q] = "done"] /\ UNCHANGED avoid
            \/ /\ h # "success" /\ HasFreshSession(q)
               /\ phase' = [phase EXCEPT ![q] = "idle"]
               /\ \/ avoid' = [avoid EXCEPT ![q] = @ \cup {leases[q][attempts[q]].ident}]
                  \/ h = "none" /\ UNCHANGED avoid
    /\ UNCHANGED <<confVars, attempts, flagged, budget, queueVars>>

(* A duplicate or late release of a lease that is no longer held.          *)
LateRelease(q) ==
    /\ \E k \in Attempts, h \in Outcomes :
         /\ leases[q][k] # NoLease
         /\ phase[q] = "leased" => k # attempts[q]
         /\ ReleaseLease(q, k, h)
    /\ UNCHANGED <<confVars, callVars, queueVars>>

-----------------------------------------------------------------------------
(* The environment: cancellation, time, configuration.                     *)

SetCancel(q) ==
    /\ q \notin flagged /\ phase[q] \notin {"done", "failed", "cancelled"}
    /\ flagged' = flagged \cup {q}
    /\ UNCHANGED <<confVars, healthVars, phase, attempts, budget, avoid, queueVars,
                   leaseVars>>

BudgetExpires(q) ==
    /\ budget[q] = "counting"
    /\ budget' = [budget EXCEPT ![q] = "spent"]
    /\ UNCHANGED <<confVars, healthVars, phase, attempts, flagged, avoid, queueVars,
                   leaseVars>>

Cooldown(i) ==
    /\ circuit[i].quota = "open" /\ \E r \in Rows : bound[r] = i
    /\ circuit' = [circuit EXCEPT ![i].quota = "elapsed"]
    /\ UNCHANGED <<confVars, bound, callVars, queueVars, leaseVars>>

WindowMoves(r) ==
    /\ r \in Windowed
    /\ window' = IF r \in window THEN window \ {r} ELSE window \cup {r}
    /\ UNCHANGED <<cfg, dirty, changes, healthVars, callVars, queueVars, leaseVars>>

ApplyConfig(c) ==
    /\ changes < MaxChanges /\ c # cfg
    /\ cfg' = c /\ dirty' = TRUE /\ changes' = changes + 1
    /\ UNCHANGED <<window, healthVars, callVars, queueVars, leaseVars>>

(* refresh_configured_model_pool                                           *)
Refresh ==
    /\ dirty
    /\ dirty' = FALSE
    /\ circuit' = Ensured
    /\ bound' = [r \in Rows |-> IF r \in Configured THEN cfg[r].ident ELSE Off]
    /\ UNCHANGED <<cfg, changes, window, callVars, queueVars, leaseVars>>

-----------------------------------------------------------------------------
RequestStep(q) ==
    \/ RegisterPlan(q) \/ ClearPlan(q)
    \/ SubmitCancelled(q) \/ Submit(q) \/ Notified(q)
    \/ PollCancelled(q) \/ PollFailed(q) \/ Poll(q) \/ Withdraw(q)
    \/ Release(q) \/ LateRelease(q)

Environment ==
    \/ \E q \in Requests : SetCancel(q) \/ BudgetExpires(q)
    \/ \E i \in Idents : Cooldown(i)
    \/ \E r \in Rows : WindowMoves(r)
    \/ \E c \in Configs : ApplyConfig(c)
    \/ Refresh

Next == (\E q \in Requests : RequestStep(q)) \/ Environment

Spec == Init /\ [][Next]_vars

(* A waiting request polls every 0.2 s, callbacks return, a task's attempt *)
(* has a timeout and its finally releases the lease, owners clear their    *)
(* planned entries, clocks run, and an applied configuration is refreshed. *)
Fairness ==
    /\ \A q \in Requests :
         /\ WF_vars(Notified(q)) /\ WF_vars(Release(q)) /\ WF_vars(ClearPlan(q))
         /\ WF_vars(PollCancelled(q) \/ PollFailed(q) \/ Poll(q))
         /\ WF_vars(BudgetExpires(q))
    /\ \A i \in Idents : WF_vars(Cooldown(i))
    /\ WF_vars(Refresh)

FairSpec == Spec /\ Fairness

-----------------------------------------------------------------------------
(* Properties.                                                             *)

(* Every variable has its type: the state _running_by_model,               *)
(* _active_tasks, _pending_requests, _planned_tasks and _model_health_by_id*)
(* can be in.                                                              *)
TypeOK ==
    /\ cfg \in Configs /\ dirty \in BOOLEAN /\ changes \in 0..MaxChanges
    /\ window \subseteq Rows
    /\ bound \in [Rows -> Idents \cup {Off}]
    /\ circuit \in [Idents -> Circuit]
    /\ phase \in [Requests -> Phases]
    /\ attempts \in [Requests -> 0..MaxAttempts]
    /\ flagged \subseteq Requests
    /\ budget \in [Requests -> {"paused", "counting", "spent"}]
    /\ avoid \in [Requests -> SUBSET Idents]
    /\ ticket \in [Requests -> Nat] /\ tickets \in Nat
    /\ plan \in [Requests -> Nat] /\ plans \in Nat
    /\ running \in [Rows -> Nat] /\ total \in Nat
    /\ active \in [Requests -> 0..MaxAttempts]
    /\ leases \in [Requests -> [Attempts -> Lease \cup {NoLease}]]

(* The slot counters are exactly the leases in _active_tasks: no late,     *)
(* duplicate or cancelled release and no configuration change ever loses a *)
(* slot or frees one twice (model_pool.py _grant_lease_locked,             *)
(* release_model_lease).                                                   *)
HoldersOf(r) == {q \in Requests : active[q] > 0 /\ leases[q][active[q]].row = r}
Holders == {q \in Requests : active[q] > 0}
SlotsMatchLeases ==
    /\ \A r \in Rows : running[r] = Cardinality(HoldersOf(r))
    /\ total = Cardinality(Holders)

(* A caller inside the waiting loop is still in _pending_requests unless it*)
(* was cancelled, a caller with a lease is in _active_tasks under its      *)
(* newest attempt, and nobody else occupies the queue or a slot: pruning,  *)
(* withdrawal and granting by one task never lose another task's request.  *)
QueueMatchesCallers ==
    \A q \in Requests :
        /\ phase[q] \in {"notifying", "waiting"} /\ q \notin flagged => ticket[q] > 0
        /\ ticket[q] > 0 => phase[q] \in {"notifying", "waiting"}
        /\ active[q] > 0 <=> phase[q] = "leased"
        /\ active[q] > 0 => active[q] = attempts[q]

Granted(q) == active[q] = 0 /\ active'[q] > 0

(* No overtaking: when a task is granted a lease, no live pending task that*)
(* ranks before it (priority, then arrival) could have been granted one.   *)
OutranksGranted(e, q) ==
    \/ Priority[e] > Priority[q]
    \/ Priority[e] = Priority[q] /\ (ticket[q] = 0 \/ ticket[e] < ticket[q])
NoOvertaking ==
    [][\A q \in Requests : Granted(q) =>
         \A e \in (Pending \ flagged) \ {q} :
            OutranksGranted(e, q) => Choices(Cleared(plan, Pruned), e) = {}]_vars

(* Group order: a planned task of a queue group is not granted a row that  *)
(* an earlier planned task of its group, not cancelled, could use.         *)
GroupOrder ==
    [][\A q \in Grouped : Granted(q) /\ plan[q] > 0 =>
         \A e \in Grouped : plan'[e] > 0 /\ plan[e] < plan[q] =>
             ~(cfg[leases'[q][active'[q]].row].cap >= Required[e])]_vars

(* Health fence: a release changes at most the circuit of the target it    *)
(* leased, and only if that target's health state is still the one it was  *)
(* leased under; a replaced target is not touched by a late release.       *)
HealthFence ==
    [][\A q \in Requests : active[q] > 0 /\ active'[q] = 0 =>
         LET l == leases[q][active[q]] IN
         \A i \in Idents : circuit'[i] # circuit[i] =>
             i = l.ident /\ circuit[i].gen = l.gen]_vars

(* Whatever rows an update moves, swaps of targets included, the code's    *)
(* loop over the rows (_ensure_global_models_locked) leaves every row id   *)
(* with the health state that the closed form EnsureModels names: the one  *)
(* its target already had, or a fresh one, and one for all its rows.       *)
EnsuredIsTheLoop ==
    \A r \in Rows : AfterLoop[r] =
        IF Rebound[r] = Off THEN <<>> ELSE <<Rebound[r], Ensured[Rebound[r]].gen>>

(* Every wait ends: a queued task is eventually granted a lease, fails or  *)
(* is cancelled, although circuits open, probes fail and others release.   *)
WaitEnds ==
    \A q \in Requests : phase[q] \in {"notifying", "waiting"}
                            ~> phase[q] \notin {"notifying", "waiting"}

(* Expected, but not so after a rename of the row: a quota circuit that    *)
(* half-opened does not stay blocked by a probe that is gone.              *)
ProbeRecovers == \A i \in Idents : circuit[i].probe ~> ~circuit[i].probe

-----------------------------------------------------------------------------
(* The pool implements the reconfigurable semaphore of LeasePool: what a   *)
(* task holds is its lease in _active_tasks, whatever the counters say.    *)
HeldRow(q) == IF active[q] > 0 THEN leases[q][active[q]].row ELSE Off
SlotsOf(r) == IF cfg[r] = Off THEN 0 ELSE cfg[r].max

Semaphore == INSTANCE LeasePool WITH
    Tasks <- Requests, Models <- Rows, Nobody <- Off,
    holding <- [q \in Requests |-> HeldRow(q)],
    slots <- [r \in Rows |-> SlotsOf(r)]

(* Every behaviour of the pool is one of the semaphore: the slot counters, *)
(* the identity check of a release and the re-read configuration never let *)
(* more tasks onto a row than its slots at the moment of the grant.        *)
ImplementsLeasePool == Semaphore!Spec

=============================================================================
