---------------------------- MODULE ServeManager ----------------------------
(***************************************************************************)
(* The one OpenCode process that all the prompts of an Agent share         *)
(* (OpenCodeServeManager): prompts, model listings and skill updates       *)
(* acquire it, restart it when it is idle and has to be replaced, and the  *)
(* prompts of a directory share the graph MCP of their scan.               *)
(*                                                                         *)
(* One directory and one MCP role, one process key (tool, executable,      *)
(* environment): keys differ in the managed configuration only.  The event *)
(* channels, ports, markers and the adoption of a listener whose launcher  *)
(* exited are left out.  Everything runs on one event loop: what happens   *)
(* between two awaits is one step.                                         *)
(***************************************************************************)
EXTENDS Naturals, FiniteSets

CONSTANTS
    Prompts, Listers, Updaters,  \* who acquires the process
    ScanOf,      \* of a prompt: the scan whose graph it reads
    MaxChanges,  \* bound: changes of the managed configuration
    MaxCrashes,  \* bound: crashes of the process
    Nobody

Actors == Prompts \cup Listers \cup Updaters

Processes == [conf : 0..MaxChanges, unusable : BOOLEAN]   \* as the users see it

ASSUME ServeAssumption ==
    /\ MaxChanges \in Nat /\ MaxCrashes \in Nat /\ IsFiniteSet(Actors)
    /\ Nobody \notin Actors /\ Nobody \notin Processes /\ DOMAIN ScanOf = Prompts
    /\ Prompts \cap Listers = {} /\ Prompts \cap Updaters = {} /\ Listers \cap Updaters = {}

VARIABLES
    serve,     \* the process: _proc, _key, whether it passed the health gate,
               \* and whether it was declared unusable
    dirty,     \* _dirty
    restart,   \* _restart_required
    moved,     \* _serve_config_generation has moved since a reload began
    wanted,    \* the managed configuration in force
    lock,      \* who holds _lock
    sessions,  \* _active_sessions
    listings,  \* _active_model_listings
    at,        \* where an actor is
    key,       \* the configuration in its key
    retried,   \* listings that restarted the process once
    mcp,       \* the directory's entry of _scan_mcp_states
    cond,      \* its entry of _scan_mcp_conditions
    mine,      \* the condition whose lock a prompt holds, or on which it waits
    lease,     \* a prompt's MCP lease
    live,      \* scans whose MCP is connected in the process
    crashes

flags == <<dirty, restart, moved>>
graph == <<mcp, cond, mine, lease>>
vars == <<serve, flags, wanted, lock, sessions, listings, at, key, retried, graph, live, crashes>>

NoServe == [at |-> "none", cfg |-> 0, ready |-> FALSE, broken |-> FALSE]
NoState == [there |-> FALSE, scan |-> Nobody, under |-> 0, refs |-> 0, on |-> FALSE, pending |-> FALSE]

Init ==
    /\ serve = NoServe /\ dirty = FALSE /\ restart = FALSE /\ moved = FALSE /\ wanted = 0
    /\ lock = Nobody /\ sessions = 0 /\ listings = 0
    /\ at = [a \in Actors |-> "idle"] /\ key = [a \in Actors |-> 0] /\ retried = {}
    /\ mcp = NoState /\ cond = [there |-> FALSE, no |-> 0]
    /\ mine = [p \in Prompts |-> 0] /\ lease = [p \in Prompts |-> "none"]
    /\ live = {} /\ crashes = 0

-----------------------------------------------------------------------------
(* The process.                                                            *)

Up == serve.at = "up"
Moves(a, to) == at' = [at EXCEPT ![a] = to]
Stays == UNCHANGED <<key, retried>>
Ends(a) ==
    /\ Moves(a, "over")
    /\ key' = [key EXCEPT ![a] = 0] /\ retried' = retried \ {a}   \* its call returns
Idle == sessions = 0 /\ listings = 0

(* _mark_serve_restart_required                                            *)
Breaks == serve' = [serve EXCEPT !.broken = serve.at # "none"]
Marks == restart' = TRUE /\ Breaks
MayMark(breaks) == IF breaks THEN Marks ELSE UNCHANGED <<restart, serve>>

(* _reset_managed_mcp_process_state: whoever waits on the old condition is *)
(* not told.                                                               *)
ForgetsGraph == mcp' = NoState /\ cond' = [cond EXCEPT !.there = FALSE]
KeepsGraph == UNCHANGED <<mcp, cond>>

Fits(a) == Up /\ serve.cfg = key[a] /\ ~dirty /\ ~restart
SharedAnyway(a) == Up /\ sessions > 0       \* faulty variants
SharedWhenIdle(a) == Up /\ ~restart
Shared(a) == Up /\ sessions > 0 /\ ~restart

Begin(a) ==
    /\ at[a] = "idle"
    /\ Moves(a, "locking") /\ key' = [key EXCEPT ![a] = wanted]
    /\ UNCHANGED <<serve, flags, wanted, lock, sessions, listings, retried, graph, live, crashes>>

(* What a lock holder does about a process that has exited.                *)
Notices ==
    IF serve.at = "dead" THEN serve' = NoServe /\ ForgetsGraph
                         ELSE UNCHANGED serve /\ KeepsGraph

(* _acquire_session: the process is shared as it is                        *)
Reuse(p) ==
    /\ p \in Prompts /\ at[p] = "locking" /\ lock = Nobody
    /\ Fits(p) \/ Shared(p)
    /\ sessions' = sessions + 1 /\ Moves(p, "mcp")
    /\ UNCHANGED <<serve, flags, wanted, lock, listings, key, retried, graph, live, crashes>>

(* or has to be replaced, once it is idle.                                 *)
Reload(a) ==
    /\ at[a] = "locking" /\ lock = Nobody
    /\ \/ a \in Prompts /\ ~Fits(a) /\ ~Shared(a)
       \/ a \in Listers /\ (~Up \/ (sessions = 0 /\ (dirty \/ restart)))
       \/ a \in Updaters
    /\ IF a \in Updaters THEN UNCHANGED serve /\ KeepsGraph ELSE Notices
    /\ lock' = a /\ Moves(a, "draining") /\ moved' = FALSE
    /\ UNCHANGED <<dirty, restart, wanted, sessions, listings, key, retried, mine, lease, live, crashes>>

(* _acquire_model_listing never waits for sessions: it reads the process   *)
(* there is, and leaves the reload to the next one who finds it idle.      *)
ListNow(l) ==
    /\ l \in Listers /\ at[l] = "locking" /\ lock = Nobody
    /\ Up /\ (sessions > 0 \/ (~dirty /\ ~restart))
    /\ lock' = l /\ Moves(l, "probing")
    /\ dirty' = (dirty \/ restart) /\ moved' = (moved \/ (restart /\ ~dirty))
    /\ UNCHANGED <<serve, restart, wanted, sessions, listings, key, retried, graph, live, crashes>>

(* _wait_until_idle_locked, _stop_locked                                   *)
WithoutListings == sessions = 0   \* faulty variant
Drained == Idle

Drain(a) ==
    /\ at[a] = "draining" /\ Drained
    /\ ForgetsGraph /\ Moves(a, "stopping")
    /\ UNCHANGED <<serve, flags, wanted, lock, sessions, listings, key, retried, mine, lease, live, crashes>>

Stopped(a) ==
    /\ at[a] = "stopping"
    /\ serve' = NoServe /\ live' = {}
    /\ IF a \in Updaters   \* publish() and mark_dirty()
       THEN Ends(a) /\ lock' = Nobody /\ dirty' = TRUE /\ moved' = TRUE
       ELSE Moves(a, "spawning") /\ UNCHANGED <<lock, dirty, moved>> /\ Stays
    /\ UNCHANGED <<restart, wanted, sessions, listings, graph, crashes>>

StopFails(a) ==
    /\ at[a] = "stopping" /\ serve.at # "none"
    /\ Marks /\ Ends(a) /\ lock' = Nobody
    /\ UNCHANGED <<dirty, moved, wanted, sessions, listings, graph, live, crashes>>

(* _start_once_locked: the process is known before it is healthy.          *)
Spawn(a) ==
    /\ at[a] = "spawning"
    /\ serve' = [at |-> "up", cfg |-> key[a], ready |-> FALSE, broken |-> FALSE]
    /\ Moves(a, "health")
    /\ UNCHANGED <<flags, wanted, lock, sessions, listings, key, retried, graph, live, crashes>>

Healthy(a) ==
    /\ at[a] = "health" /\ Up
    /\ serve' = [serve EXCEPT !.ready = TRUE]
    /\ dirty' = (dirty /\ moved) /\ restart' = FALSE
    /\ IF a \in Prompts THEN sessions' = sessions + 1 /\ lock' = Nobody /\ Moves(a, "mcp")
                        ELSE Moves(a, "probing") /\ UNCHANGED <<sessions, lock>>
    /\ UNCHANGED <<moved, wanted, listings, key, retried, graph, live, crashes>>

StartFails(a) ==
    /\ at[a] \in {"spawning", "health"}
    /\ \/ serve' = NoServe /\ UNCHANGED restart
       \/ at[a] = "health" /\ serve.at # "none" /\ Marks   \* nor does it stop
    /\ Ends(a) /\ lock' = Nobody
    /\ UNCHANGED <<dirty, moved, wanted, sessions, listings, graph, live, crashes>>

(* _ensure_model_listing_health_locked                                     *)
Probed(l) ==
    /\ at[l] = "probing" /\ Up
    /\ serve' = [serve EXCEPT !.ready = TRUE]
    /\ listings' = listings + 1 /\ lock' = Nobody /\ Moves(l, "fetching")
    /\ UNCHANGED <<flags, wanted, sessions, key, retried, graph, live, crashes>>

NotProbed(l) ==
    /\ at[l] = "probing" /\ restart' = TRUE
    /\ IF sessions > 0 \/ l \in retried
       THEN /\ Ends(l) /\ lock' = Nobody
            /\ Breaks /\ UNCHANGED moved /\ KeepsGraph
       ELSE /\ Moves(l, "draining") /\ UNCHANGED <<lock, key>>
            /\ moved' = FALSE /\ retried' = retried \cup {l}
            /\ Notices
    /\ UNCHANGED <<dirty, wanted, sessions, listings, mine, lease, live, crashes>>

Fetched(l) ==
    /\ at[l] = "fetching"
    /\ listings' = listings - 1 /\ Ends(l)
    /\ UNCHANGED <<serve, flags, wanted, lock, sessions, graph, live, crashes>>

-----------------------------------------------------------------------------
(* The graph MCP of the directory: _acquire_scan_mcp, _release_scan_mcp.   *)

Process == UNCHANGED <<dirty, moved, wanted, lock, listings, crashes>>
Scan(p) == ScanOf[p]
CondOf(p) == IF mine[p] # 0 THEN mine[p] ELSE IF cond.there THEN cond.no ELSE cond.no + 1

(* The condition's lock is held across the requests to the process.        *)
LockFree(c) ==
    \A q \in Prompts : mine[q] = c => at[q] \notin {"connecting", "rejoining", "disconnecting"}

(* Who waits on condition c wants its lock again.                          *)
Wakes(p, c, to) ==
    at' = [a \in Actors |-> IF a = p THEN to
                            ELSE IF a \in Prompts /\ at[a] = "waiting" /\ mine[a] = c THEN "mcp" ELSE at[a]]

(* The entry may have been forgotten with the process it was made for.     *)
Mine(p) == mcp.there /\ mcp.scan = Scan(p) /\ mcp.under = mine[p]

NeverWaits(p) == FALSE   \* faulty variant
MustWait(p) == mcp.there /\ mcp.scan # Scan(p)

Enter(p) ==
    /\ at[p] = "mcp" /\ LockFree(CondOf(p))
    /\ mine' = [mine EXCEPT ![p] = CondOf(p)]
    /\ cond' = IF mine[p] = 0 THEN [there |-> TRUE, no |-> CondOf(p)] ELSE cond
    /\ \/ MustWait(p) /\ Moves(p, "waiting") /\ UNCHANGED mcp
       \/ ~MustWait(p) /\ mcp.there /\ Moves(p, "rejoining") /\ UNCHANGED mcp
       \/ /\ ~mcp.there /\ Moves(p, "connecting")
          /\ mcp' = [NoState EXCEPT !.there = TRUE, !.scan = Scan(p), !.under = CondOf(p), !.refs = 1]
    /\ UNCHANGED <<serve, restart, sessions, lease, live>> /\ Process /\ Stays

Leased(p, on) == lease' = [lease EXCEPT ![p] = IF on THEN "on" ELSE "off"] /\ Moves(p, "talking")

(* Other graphs are disconnected, then the scan's is connected.            *)
Connected(p) ==
    /\ at[p] = "connecting" /\ Up
    /\ live' = {Scan(p)} /\ mcp' = [mcp EXCEPT !.on = TRUE] /\ Leased(p, TRUE)
    /\ UNCHANGED <<serve, restart, sessions, cond, mine>> /\ Process /\ Stays

(* The listing fails, the connection fails, or its answer is lost.         *)
NotConnected(p, now) ==
    /\ at[p] = "connecting" /\ now \in {live, {}, {Scan(p)}} /\ (Up \/ now = live)
    /\ live' = now /\ Leased(p, FALSE)
    /\ mcp' = IF Mine(p) THEN [mcp EXCEPT !.pending = Scan(p) \in now] ELSE mcp
    /\ UNCHANGED <<serve, restart, sessions, cond, mine>> /\ Process /\ Stays

(* The entry of the same scan: its live state is looked up, and repaired;  *)
(* where it cannot be looked up, what the entry says is believed.          *)
Rejoined(p, on, now) ==
    /\ at[p] = "rejoining"
    /\ now \in {live, live \cup {Scan(p)}} /\ (Up \/ now = live)
    /\ Mine(p) /\ on => mcp.on \/ Scan(p) \in now
    /\ Mine(p) /\ ~on /\ mcp.on => Up /\ Scan(p) \notin live
    /\ live' = now /\ Leased(p, on)
    /\ mcp' = IF Mine(p) THEN [mcp EXCEPT !.refs = @ + 1, !.on = on, !.pending = ~on /\ Scan(p) \in now]
                         ELSE mcp
    /\ UNCHANGED <<serve, restart, sessions, cond, mine>> /\ Process /\ Stays

(* The message is answered, fails, times out or is cancelled.              *)
Finish(p, breaks) ==
    /\ at[p] = "talking" /\ Moves(p, "closing")
    /\ MayMark(breaks)
    /\ UNCHANGED <<sessions, graph, live>> /\ Process /\ Stays

AlwaysLast(p) == TRUE   \* faulty variant
LastOne(p) == mcp.refs <= 1

Close(p) ==
    /\ at[p] = "closing"
    /\ IF lease[p] = "none" \/ ~cond.there
       THEN Moves(p, "leaving") /\ UNCHANGED <<mcp, mine>>
       ELSE /\ LockFree(cond.no)
            /\ IF ~mcp.there \/ mcp.scan # Scan(p)
               THEN Moves(p, "leaving") /\ UNCHANGED <<mcp, mine>>
               ELSE IF LastOne(p)
               THEN Moves(p, "disconnecting") /\ mine' = [mine EXCEPT ![p] = cond.no] /\ UNCHANGED mcp
               ELSE Moves(p, "leaving") /\ mcp' = [mcp EXCEPT !.refs = @ - 1] /\ UNCHANGED mine
    /\ UNCHANGED <<serve, restart, sessions, cond, lease, live>> /\ Process /\ Stays

(* The last one disconnects, or fails to, within the budget or not.        *)
Disconnect(p, now, breaks) ==
    /\ at[p] = "disconnecting"
    /\ now \in {live, live \ {Scan(p)}}
    /\ live' = (IF mcp.on \/ mcp.pending THEN now ELSE live)
    /\ mcp' = NoState /\ Wakes(p, mine[p], "leaving")
    /\ MayMark(breaks)
    /\ UNCHANGED <<sessions, cond, mine, lease>> /\ Process /\ Stays

(* The budget ends before the condition's lock is free: the reference is   *)
(* not given back.                                                         *)
GiveUp(p) ==
    /\ at[p] = "closing" /\ lease[p] # "none" /\ cond.there /\ ~LockFree(cond.no)
    /\ Marks /\ Moves(p, "leaving")
    /\ UNCHANGED <<sessions, graph, live>> /\ Process /\ Stays

NeverLeaves(p) == UNCHANGED sessions   \* faulty variant
GivesBack(p) == sessions' = sessions - 1

Leave(p) ==
    /\ at[p] = "leaving"
    /\ GivesBack(p) /\ Ends(p)
    /\ lease' = [lease EXCEPT ![p] = "none"] /\ mine' = [mine EXCEPT ![p] = 0]
    /\ UNCHANGED <<serve, restart, mcp, cond, live>> /\ Process

-----------------------------------------------------------------------------
(* The deadline of a prompt, or its cancellation, at any await.            *)

Locks(a) == at[a] \in {"draining", "stopping", "spawning", "health"}

(* before the session counts,                                              *)
Withdraw(a) ==
    /\ a \in Prompts \cup Updaters /\ (at[a] = "locking" \/ Locks(a))
    /\ Ends(a) /\ lock' = IF Locks(a) THEN Nobody ELSE lock
    /\ IF at[a] = "stopping" /\ serve.at # "none"   \* the thread that stops it goes on
       THEN restart' = TRUE /\ serve' = [serve EXCEPT !.at = "dead", !.broken = TRUE] /\ live' = {}
       ELSE UNCHANGED <<restart, serve, live>>
    /\ UNCHANGED <<dirty, moved, wanted, sessions, listings, graph, crashes>>

(* or while it waits for its graph.                                        *)
Abandon(p, now, breaks) ==
    /\ at[p] \in {"mcp", "waiting", "connecting", "rejoining"}
    /\ IF at[p] = "connecting"
       THEN /\ Wakes(p, mine[p], "closing") /\ mcp' = NoState
            /\ now \in {live, {}, {Scan(p)}} /\ (Up \/ now = live) /\ live' = now
       ELSE Moves(p, "closing") /\ now = live /\ UNCHANGED <<mcp, live>>
    /\ MayMark(breaks)
    /\ UNCHANGED <<sessions, cond, mine, lease>> /\ Process /\ Stays

(* mark_serve_config_dirty                                                 *)
Change ==
    /\ wanted < MaxChanges
    /\ wanted' = wanted + 1 /\ dirty' = TRUE /\ moved' = TRUE
    /\ UNCHANGED <<serve, restart, lock, sessions, listings, at, key, retried, graph, live, crashes>>

Crash ==
    /\ Up /\ crashes < MaxCrashes
    /\ serve' = [serve EXCEPT !.at = "dead", !.ready = FALSE] /\ live' = {} /\ crashes' = crashes + 1
    /\ UNCHANGED <<flags, wanted, lock, sessions, listings, at, key, retried, graph>>

-----------------------------------------------------------------------------
Reachable(p) == {live, {}, {Scan(p)}, live \cup {Scan(p)}, live \ {Scan(p)}}

Prompt(p) ==
    \/ Reuse(p) \/ Enter(p) \/ Connected(p) \/ Close(p) \/ GiveUp(p) \/ Leave(p)
    \/ \E breaks \in BOOLEAN : Finish(p, breaks)
    \/ \E now \in Reachable(p) :
         \/ \E on \in BOOLEAN : Rejoined(p, on, now)
         \/ NotConnected(p, now) \/ \E breaks \in BOOLEAN : Disconnect(p, now, breaks)

Acquire(a) ==
    \/ Reload(a) \/ Drain(a) \/ Stopped(a) \/ StopFails(a)
    \/ Spawn(a) \/ Healthy(a) \/ StartFails(a)

List(l) == ListNow(l) \/ Probed(l) \/ NotProbed(l) \/ Fetched(l)

Deadline(p) ==
    \/ Withdraw(p)
    \/ \E now \in Reachable(p), breaks \in BOOLEAN : Abandon(p, now, breaks)

Step(a) ==
    \/ Acquire(a)
    \/ a \in Prompts /\ (Prompt(a) \/ Deadline(a))
    \/ a \in Listers /\ List(a)
    \/ a \in Updaters /\ Withdraw(a)

Next == (\E a \in Actors : Begin(a) \/ Step(a)) \/ Change \/ Crash

Spec == Init /\ [][Next]_vars

(* Answers, exits and deadlines arrive for whoever has begun.              *)
FairSpec == Spec /\ \A a \in Actors : WF_vars(Step(a))

-----------------------------------------------------------------------------
(* Properties.                                                             *)

Waits == {"idle", "locking", "draining", "stopping", "spawning", "health", "over"}
Counted(p) == at[p] \in {"mcp", "waiting", "connecting", "rejoining", "talking", "closing",
                         "disconnecting", "leaving"}

(* The counters count, and the lock is held by whoever is past it.         *)
TypeOK ==
    /\ serve \in [at : {"none", "up", "dead"}, cfg : 0..MaxChanges, ready : BOOLEAN, broken : BOOLEAN]
    /\ flags \in BOOLEAN \X BOOLEAN \X BOOLEAN /\ wanted \in 0..MaxChanges
    /\ sessions = Cardinality({p \in Prompts : Counted(p)})
    /\ listings = Cardinality({l \in Listers : at[l] = "fetching"})
    /\ \A a \in Actors : (Locks(a) \/ at[a] = "probing") <=> lock = a
    /\ \A p \in Prompts : at[p] \in Waits \/ Counted(p)
    /\ \A a \in Actors \ Prompts : at[a] \in Waits \cup {"probing", "fetching"}
    /\ mcp.refs \in 0..Cardinality(Prompts) /\ (mcp.there <=> mcp.refs > 0)

(* The process is stopped under nobody: whatever ends it while sessions or *)
(* listings use it is its own crash.                                       *)
NobodyIsCutOff == [][Up /\ serve'.at # "up" /\ crashes' = crashes => Idle]_vars

(* A process that was declared unusable gets no new session.               *)
BrokenIsReplaced == [][sessions' > sessions => ~serve'.broken]_vars

(* A prompt runs on the configuration it was made for, unless it shares    *)
(* the process with sessions that run already.                             *)
OnOwnConfig ==
    [][\A p \in Prompts :
          ~Counted(p) /\ Counted(p)' /\ sessions = 0 => serve'.cfg = key[p]]_vars

(* Prompts of different scans never read graphs of one directory at the    *)
(* same time,                                                              *)
Reads(p) == at[p] = "talking" /\ lease[p] = "on" /\ Up
GraphsApart == \A p, q \in Prompts : Reads(p) /\ Reads(q) => Scan(p) = Scan(q)

(* and nobody disconnects a graph that a prompt reads.                     *)
GraphStays == \A p \in Prompts : Reads(p) => Scan(p) \in live

(* Every prompt, listing and update comes to an end: deadlines bound the   *)
(* prompts, and the prompts everybody else.                                *)
EveryoneEnds == \A a \in Actors : at[a] # "idle" ~> at[a] = "over"

(* Expected, but not so after a start that was cancelled in its health     *)
(* gate: a session is given a process that passed the gate.                *)
PastHealthGate == [][sessions' > sessions => serve'.ready]_vars

-----------------------------------------------------------------------------
(* The manager implements SharedProcess: the users are the prompts in      *)
(* _active_sessions and the listings that fetch, and a process that has    *)
(* exited is gone, noticed or not.                                         *)
UsersNow == {a \in Actors : (a \in Prompts /\ Counted(a)) \/ (a \in Listers /\ at[a] = "fetching")}
ProcessNow == IF Up THEN [conf |-> serve.cfg, unusable |-> serve.broken] ELSE Nobody

Promise == INSTANCE SharedProcess WITH
    Users <- Actors, Sessions <- Prompts, Confs <- 0..MaxChanges, Gone <- Nobody,
    process <- ProcessNow, users <- UsersNow, exits <- crashes

(* Every behaviour of the manager is one of the shared process: through    *)
(* reloads, listings, skill updates, failed starts and stops, deadlines and*)
(* crashes, a process is stopped or replaced under nobody, nobody goes on  *)
(* with another one, and one declared unusable gets no new session.        *)
ImplementsSharedProcess == Promise!Spec

=============================================================================
