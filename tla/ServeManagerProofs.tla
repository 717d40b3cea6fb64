-------------------------- MODULE ServeManagerProofs --------------------------
(***************************************************************************)
(* Safety of the shared OpenCode process and of the graph MCP of its       *)
(* directory, for every number of prompts, listings and updates.           *)
(***************************************************************************)
EXTENDS ServeManager, FiniteSetTheorems, TLAPS

GraphPlaces == {"mcp", "waiting", "connecting", "rejoining", "talking", "closing",
                "disconnecting", "leaving"}
Places == Waits \cup GraphPlaces \cup {"probing", "fetching"}
Scans == {ScanOf[p] : p \in Prompts} \cup {Nobody}
ServeType == [at : {"none", "up", "dead"}, cfg : 0..MaxChanges, ready : BOOLEAN, broken : BOOLEAN]
McpType == [there : BOOLEAN, scan : Scans, under : Nat, refs : Nat, on : BOOLEAN, pending : BOOLEAN]

Typed ==
    /\ serve \in ServeType /\ dirty \in BOOLEAN /\ restart \in BOOLEAN /\ moved \in BOOLEAN
    /\ wanted \in 0..MaxChanges /\ key \in [Actors -> 0..MaxChanges]
    /\ at \in [Actors -> Places] /\ lock \in Actors \cup {Nobody}
    /\ mcp \in McpType /\ cond \in [there : BOOLEAN, no : Nat]
    /\ mine \in [Prompts -> Nat] /\ lease \in [Prompts -> {"none", "on", "off"}]
    /\ crashes \in Nat

-----------------------------------------------------------------------------
(* The process: who counts, who holds the lock, and what its holder finds. *)

Using == {p \in Prompts : Counted(p)}
Fetching == {l \in Listers : at[l] = "fetching"}
Holding(a) == Locks(a) \/ at[a] = "probing"
Replacing == {"stopping", "spawning", "health"}

Counts == sessions = Cardinality(Using) /\ listings = Cardinality(Fetching)
LockHeld == \A a \in Actors : Holding(a) <=> lock = a
Placed ==
    /\ \A p \in Prompts : at[p] \in Waits \cup GraphPlaces
    /\ \A a \in Actors \ Prompts : at[a] \in Waits \cup {"probing", "fetching"}

(* Whoever replaces the process is alone with it, and its start is clean.  *)
Ready(a) ==
    /\ at[a] \in Replacing => Idle /\ mcp = NoState /\ ~cond.there
    /\ at[a] = "spawning" => serve.at = "none"
    /\ at[a] = "health" => ~serve.broken /\ serve.at # "none" /\ serve.cfg = key[a]
AllReady == \A a \in Actors : Ready(a)

(* A process declared unusable is there, and marked to be replaced.        *)
Marked == serve.broken => restart /\ serve.at # "none"

(* Only who uses the process has a condition or a lease.                   *)
Owned ==
    \A p \in Prompts :
        /\ mine[p] # 0 => Counted(p)
        /\ lease[p] # "none" => at[p] \in {"talking", "closing", "disconnecting", "leaving"}

ProcessInv == Typed /\ Counts /\ LockHeld /\ Placed /\ AllReady /\ Marked /\ Owned

USE ServeAssumption DEF Waits, GraphPlaces, Places, Replacing

-----------------------------------------------------------------------------
(* Counting.                                                               *)

(* There are finitely many prompts and listings.                           *)
LEMMA Finite == IsFiniteSet(Prompts) /\ IsFiniteSet(Listers) /\ IsFiniteSet(Using) /\ IsFiniteSet(Fetching)
<1>1. IsFiniteSet(Prompts) /\ IsFiniteSet(Listers)
  BY FS_Subset DEF Actors
<1>2. Using \subseteq Prompts /\ Fetching \subseteq Listers
  BY DEF Using, Fetching
<1> QED BY <1>1, <1>2, FS_Subset

(* The counters are numbers, and zero when nobody counts.                  *)
LEMMA Counters ==
    ASSUME Counts
    PROVE  /\ sessions \in Nat /\ listings \in Nat
           /\ sessions = 0 <=> Using = {}
           /\ listings = 0 <=> Fetching = {}
           /\ Idle <=> Using = {} /\ Fetching = {}
BY Finite, FS_EmptySet, FS_CardinalityType DEF Counts, Idle

(* Who uses the process keeps it from being replaced.                      *)
LEMMA UsedIsKept ==
    ASSUME ProcessInv, NEW a \in Actors,
           (a \in Prompts /\ Counted(a)) \/ (a \in Listers /\ at[a] = "fetching")
    PROVE  ~Idle /\ \A b \in Actors : at[b] \notin Replacing
<1>1. ~Idle
  BY Counters DEF ProcessInv, Using, Fetching
<1> QED BY <1>1 DEF ProcessInv, AllReady, Ready

(* One at a time holds the lock.                                           *)
LEMMA LockIsFree ==
    ASSUME ProcessInv, NEW a \in Actors, lock = Nobody \/ lock = a
    PROVE  \A b \in Actors \ {a} : ~Holding(b) /\ at[b] \notin Replacing
BY DEF ProcessInv, LockHeld, Holding, Locks, Actors

(* One actor moves.                                                        *)
LEMMA MovesEffect ==
    ASSUME Typed, NEW a \in Actors, NEW to \in Places, Moves(a, to)
    PROVE  at' \in [Actors -> Places] /\ at'[a] = to /\ \A b \in Actors \ {a} : at'[b] = at[b]
BY DEF Typed, Moves

(* One actor's call returns.                                               *)
LEMMA EndsEffect ==
    ASSUME Typed, NEW a \in Actors, Ends(a)
    PROVE  /\ at' \in [Actors -> Places] /\ at'[a] = "over"
           /\ key' \in [Actors -> 0..MaxChanges]
           /\ \A b \in Actors \ {a} : at'[b] = at[b] /\ key'[b] = key[b]
BY DEF Typed, Ends, Moves

(* The process is marked to be replaced.                                   *)
LEMMA MarksEffect ==
    ASSUME ProcessInv, Marks
    PROVE  /\ serve' \in ServeType /\ restart' = TRUE
           /\ serve'.at = serve.at /\ serve'.cfg = serve.cfg /\ serve'.ready = serve.ready
           /\ serve'.broken = (serve.at # "none")
BY DEF ProcessInv, Typed, ServeType, Marks, Breaks

(* The counters follow one actor's step.                                   *)
LEMMA CountSame ==
    ASSUME Counts, UNCHANGED <<sessions, listings>>,
           \A p \in Prompts : Counted(p)' = Counted(p),
           \A l \in Listers : at'[l] = "fetching" <=> at[l] = "fetching"
    PROVE  Counts'
<1>1. Using' = Using /\ Fetching' = Fetching
  BY DEF Using, Fetching
<1> QED BY <1>1 DEF Counts

(* One more prompt counts,                                                 *)
LEMMA CountMore ==
    ASSUME Counts, NEW q \in Prompts, sessions' = sessions + 1, UNCHANGED listings,
           ~Counted(q), Counted(q)',
           \A p \in Prompts \ {q} : Counted(p)' = Counted(p),
           \A l \in Listers : at'[l] = "fetching" <=> at[l] = "fetching"
    PROVE  Counts'
<1>1. Using' = Using \cup {q} /\ q \notin Using /\ Fetching' = Fetching
  BY DEF Using, Fetching
<1>2. Cardinality(Using \cup {q}) = Cardinality(Using) + 1
  BY <1>1, Finite, FS_AddElement
<1> QED BY <1>1, <1>2 DEF Counts

(* or one fewer;                                                           *)
LEMMA CountLess ==
    ASSUME Counts, NEW q \in Prompts, sessions' = sessions - 1, UNCHANGED listings,
           Counted(q), ~Counted(q)',
           \A p \in Prompts \ {q} : Counted(p)' = Counted(p),
           \A l \in Listers : at'[l] = "fetching" <=> at[l] = "fetching"
    PROVE  Counts'
<1>1. Using' = Using \ {q} /\ q \in Using /\ Fetching' = Fetching
  BY DEF Using, Fetching
<1>2. Cardinality(Using \ {q}) = Cardinality(Using) - 1
  BY <1>1, Finite, FS_RemoveElement
<1> QED BY <1>1, <1>2 DEF Counts

(* one more listing,                                                       *)
LEMMA ListMore ==
    ASSUME Counts, NEW l \in Listers, listings' = listings + 1, UNCHANGED sessions,
           at[l] # "fetching", at'[l] = "fetching",
           \A p \in Prompts : Counted(p)' = Counted(p),
           \A k \in Listers \ {l} : at'[k] = "fetching" <=> at[k] = "fetching"
    PROVE  Counts'
<1>1. Fetching' = Fetching \cup {l} /\ l \notin Fetching /\ Using' = Using
  BY DEF Using, Fetching
<1>2. Cardinality(Fetching \cup {l}) = Cardinality(Fetching) + 1
  BY <1>1, Finite, FS_AddElement
<1> QED BY <1>1, <1>2 DEF Counts

(* or one fewer.                                                           *)
LEMMA ListLess ==
    ASSUME Counts, NEW l \in Listers, listings' = listings - 1, UNCHANGED sessions,
           at[l] = "fetching", at'[l] # "fetching",
           \A p \in Prompts : Counted(p)' = Counted(p),
           \A k \in Listers \ {l} : at'[k] = "fetching" <=> at[k] = "fetching"
    PROVE  Counts'
<1>1. Fetching' = Fetching \ {l} /\ l \in Fetching /\ Using' = Using
  BY DEF Using, Fetching
<1>2. Cardinality(Fetching \ {l}) = Cardinality(Fetching) - 1
  BY <1>1, Finite, FS_RemoveElement
<1> QED BY <1>1, <1>2 DEF Counts

-----------------------------------------------------------------------------
(* Steps of those who acquire the process.                                 *)

(* One actor moves; the lock, the counters and its own start are as its    *)
(* place says, and nobody else is replacing the process.                   *)
LEMMA ActorStep ==
    ASSUME ProcessInv, NEW a \in Actors,
           Typed', Counts', Marked', Ready(a)',
           \A b \in Actors \ {a} : at'[b] = at[b] /\ key'[b] = key[b],
           a \in Prompts => at'[a] \in Waits \cup GraphPlaces,
           a \notin Prompts => at'[a] \in Waits \cup {"probing", "fetching"},
           Holding(a)' <=> lock' = a,
           \A b \in Actors \ {a} : lock' = b <=> lock = b,
           \/ \A b \in Actors \ {a} : at[b] \notin Replacing
           \/ UNCHANGED <<serve, mcp, cond, sessions, listings>>,
           Owned'
    PROVE  ProcessInv'
<1>1. LockHeld'
  <2> SUFFICES ASSUME NEW b \in Actors, b # a PROVE Holding(b)' <=> lock' = b
    BY DEF LockHeld
  <2> QED BY DEF ProcessInv, LockHeld, Holding, Locks
<1>2. Placed'
  BY DEF ProcessInv, Placed, Actors
<1>3. AllReady'
  <2> SUFFICES ASSUME NEW b \in Actors, b # a PROVE Ready(b)'
    BY DEF AllReady
  <2> QED BY DEF ProcessInv, AllReady, Ready, Idle
<1> QED BY <1>1, <1>2, <1>3 DEF ProcessInv

(* Who does not use the process has neither condition nor lease.           *)
LEMMA OwnedStep ==
    ASSUME ProcessInv, NEW a \in Actors, UNCHANGED <<mine, lease>>,
           \A b \in Actors \ {a} : at'[b] = at[b],
           a \in Prompts => ~Counted(a)
    PROVE  Owned'
BY DEF ProcessInv, Owned, Counted, Actors

(* A call computes its key.                                                *)
LEMMA BeginStep ==
    ASSUME ProcessInv, NEW a \in Actors, Begin(a)
    PROVE  ProcessInv'
<1>1. at' \in [Actors -> Places] /\ at'[a] = "locking" /\ \A b \in Actors \ {a} : at'[b] = at[b]
  BY MovesEffect DEF Begin, ProcessInv
<1>2. at[a] = "idle" /\ key' \in [Actors -> 0..MaxChanges] /\ \A b \in Actors \ {a} : key'[b] = key[b]
  BY DEF Begin, ProcessInv, Typed
<1>3. UNCHANGED <<serve, flags, wanted, lock, sessions, listings, retried, graph, live, crashes>>
  BY DEF Begin
<1>4. Typed'
  BY <1>1, <1>2, <1>3 DEF ProcessInv, Typed, flags, graph
<1>5. Counts'
  BY <1>1, <1>2, <1>3, CountSame DEF ProcessInv, Counted, Actors
<1>6. Owned'
  BY <1>1, <1>2, <1>3, OwnedStep DEF graph, Counted
<1>7. Ready(a)' /\ Marked'
  BY <1>1, <1>3 DEF Ready, Marked, ProcessInv, flags
<1>8. lock' # a /\ ~Holding(a)'
  BY <1>1, <1>2, <1>3 DEF ProcessInv, LockHeld, Holding, Locks
<1> QED
  BY <1>1, <1>2, <1>3, <1>4, <1>5, <1>6, <1>7, <1>8, ActorStep DEF graph

(* A prompt shares the process.                                            *)
LEMMA ReuseStep ==
    ASSUME ProcessInv, NEW p \in Prompts, Reuse(p)
    PROVE  ProcessInv'
<1> p \in Actors
  BY DEF Actors
<1>1. at' \in [Actors -> Places] /\ at'[p] = "mcp" /\ \A b \in Actors \ {p} : at'[b] = at[b]
  BY MovesEffect DEF Reuse, ProcessInv
<1>2. at[p] = "locking" /\ lock = Nobody
  BY DEF Reuse
<1>3. UNCHANGED <<serve, flags, wanted, lock, listings, key, retried, graph, live, crashes>>
  BY DEF Reuse
<1>4. Typed'
  BY <1>1, <1>3 DEF ProcessInv, Typed, flags, graph
<1>5. Counts'
  BY <1>1, <1>2, <1>3, CountMore DEF ProcessInv, Counted, Actors, Reuse
<1>6. Owned'
  BY <1>1, <1>2, <1>3, OwnedStep DEF graph, Counted
<1>7. Ready(p)' /\ Marked'
  BY <1>1, <1>3 DEF Ready, Marked, ProcessInv, flags
<1>8. lock' # p /\ ~Holding(p)'
  BY <1>1, <1>2, <1>3 DEF Holding, Locks
<1>9. \A b \in Actors \ {p} : at[b] \notin Replacing
  BY <1>2, LockIsFree
<1> QED
  BY <1>1, <1>2, <1>3, <1>4, <1>5, <1>6, <1>7, <1>8, <1>9, ActorStep

(* What forgetting the graph, or noticing the end of the process, leaves.  *)
LEMMA ForgetEffect ==
    ASSUME Typed, ForgetsGraph \/ KeepsGraph
    PROVE  mcp' \in McpType /\ cond' \in [there : BOOLEAN, no : Nat]
<1>1. NoState \in McpType
  BY DEF NoState, McpType, Scans
<1>2. mcp \in McpType /\ cond \in [there : BOOLEAN, no : Nat]
  BY DEF Typed
<1>3. mcp' \in McpType
  BY <1>1, <1>2 DEF ForgetsGraph, KeepsGraph
<1>4. cond' \in [there : BOOLEAN, no : Nat]
  BY <1>2 DEF ForgetsGraph, KeepsGraph
<1> QED BY <1>3, <1>4

(* A forgotten graph leaves no entry.                                      *)
LEMMA ForgottenIsClean ==
    ASSUME Typed, ForgetsGraph
    PROVE  mcp' = NoState /\ ~cond'.there
BY DEF Typed, ForgetsGraph

(* An exited process is not an unusable one.                               *)
LEMMA NoticesEffect ==
    ASSUME Typed, Marked, Notices
    PROVE  /\ serve' \in ServeType /\ mcp' \in McpType /\ cond' \in [there : BOOLEAN, no : Nat]
           /\ serve'.broken => serve' = serve
<1>1. mcp' \in McpType /\ cond' \in [there : BOOLEAN, no : Nat]
  BY ForgetEffect DEF Notices
<1>2. NoServe \in ServeType /\ ~NoServe.broken
  BY DEF NoServe, ServeType
<1>3. serve \in ServeType /\ (serve' = NoServe \/ serve' = serve)
  BY DEF Typed, Notices
<1> QED BY <1>1, <1>2, <1>3

(* A call takes the lock to replace the process,                           *)
LEMMA ReloadStep ==
    ASSUME ProcessInv, NEW a \in Actors, Reload(a)
    PROVE  ProcessInv'
<1>1. at' \in [Actors -> Places] /\ at'[a] = "draining" /\ \A b \in Actors \ {a} : at'[b] = at[b]
  BY MovesEffect DEF Reload, ProcessInv
<1>2. at[a] = "locking" /\ lock = Nobody /\ lock' = a /\ moved' = FALSE
  BY DEF Reload
<1>3. UNCHANGED <<dirty, restart, wanted, sessions, listings, key, retried, mine, lease, live, crashes>>
  BY DEF Reload
<1>4. /\ serve' \in ServeType /\ mcp' \in McpType /\ cond' \in [there : BOOLEAN, no : Nat]
      /\ serve'.broken => serve' = serve
  <2>1. CASE a \in Updaters
    BY <2>1, ForgetEffect DEF Reload, ProcessInv, Typed
  <2>2. CASE a \notin Updaters
    BY <2>2, NoticesEffect DEF Reload, ProcessInv
  <2> QED BY <2>1, <2>2
<1>5. Typed' /\ Marked'
  <2>1. Typed'
    BY <1>1, <1>2, <1>3, <1>4 DEF ProcessInv, Typed
  <2>2. Marked'
    BY <1>3, <1>4 DEF ProcessInv, Marked
  <2> QED BY <2>1, <2>2
<1>6. Counts'
  BY <1>1, <1>2, <1>3, CountSame DEF ProcessInv, Counted, Actors
<1>7. Owned'
  BY <1>1, <1>2, <1>3, OwnedStep DEF Counted
<1>8. Ready(a)' /\ Holding(a)'
  BY <1>1 DEF Ready, Holding, Locks
<1>9. \A b \in Actors \ {a} : at[b] \notin Replacing /\ lock # b
  BY <1>2, LockIsFree
<1> QED
  BY <1>1, <1>2, <1>3, <1>5, <1>6, <1>7, <1>8, <1>9, ActorStep

(* Past the lock, its holder is alone.                                     *)
LEMMA HolderIsAlone ==
    ASSUME ProcessInv, NEW a \in Actors, Holding(a)
    PROVE  lock = a /\ \A b \in Actors \ {a} : ~Holding(b) /\ at[b] \notin Replacing /\ lock # b
BY LockIsFree DEF ProcessInv, LockHeld

(* finds it idle,                                                          *)
LEMMA DrainStep ==
    ASSUME ProcessInv, NEW a \in Actors, Drain(a)
    PROVE  ProcessInv'
<1>1. at' \in [Actors -> Places] /\ at'[a] = "stopping" /\ \A b \in Actors \ {a} : at'[b] = at[b]
  BY MovesEffect DEF Drain, ProcessInv
<1>2. at[a] = "draining" /\ Idle /\ mcp' = NoState /\ ~cond'.there
  BY ForgottenIsClean DEF Drain, Drained, ProcessInv
<1>3. UNCHANGED <<serve, flags, wanted, lock, sessions, listings, key, retried, mine, lease, live, crashes>>
  BY DEF Drain
<1>4. Typed' /\ Marked'
  BY <1>1, <1>3, ForgetEffect DEF ProcessInv, Typed, Marked, Drain, flags
<1>5. Counts'
  BY <1>1, <1>2, <1>3, CountSame DEF ProcessInv, Counted, Actors
<1>6. Owned'
  BY <1>1, <1>2, <1>3, OwnedStep DEF Counted
<1>7. Ready(a)' /\ Holding(a)' /\ Holding(a)
  BY <1>1, <1>2, <1>3 DEF Ready, Holding, Locks, Idle
<1> QED
  BY <1>1, <1>3, <1>4, <1>5, <1>6, <1>7, HolderIsAlone, ActorStep

(* stops it,                                                               *)
LEMMA StoppedStep ==
    ASSUME ProcessInv, NEW a \in Actors, Stopped(a)
    PROVE  ProcessInv'
<1>1. at[a] = "stopping" /\ Holding(a) /\ Idle /\ mcp = NoState /\ ~cond.there
  BY DEF Stopped, Holding, Locks, ProcessInv, AllReady, Ready
<1>2. UNCHANGED <<restart, wanted, sessions, listings, graph, crashes>> /\ serve' = NoServe
  BY DEF Stopped
<1>3. CASE a \in Updaters
  <2>1. Ends(a) /\ lock' = Nobody /\ dirty' = TRUE /\ moved' = TRUE
    BY <1>3 DEF Stopped
  <2>2. /\ at' \in [Actors -> Places] /\ at'[a] = "over" /\ key' \in [Actors -> 0..MaxChanges]
        /\ \A b \in Actors \ {a} : at'[b] = at[b] /\ key'[b] = key[b]
    BY <2>1, EndsEffect DEF ProcessInv
  <2>3. Typed' /\ Marked'
    BY <1>2, <2>1, <2>2 DEF ProcessInv, Typed, Marked, NoServe, ServeType, graph
  <2>4. Counts'
    BY <1>1, <1>2, <2>2, CountSame DEF ProcessInv, Counted, Actors
  <2>5. Owned'
    BY <1>1, <1>2, <2>2, OwnedStep DEF Counted, graph
  <2>6. Ready(a)' /\ ~Holding(a)' /\ lock' # a
    BY <2>1, <2>2 DEF Ready, Holding, Locks
  <2> QED
    BY <1>1, <2>1, <2>2, <2>3, <2>4, <2>5, <2>6, HolderIsAlone, ActorStep
<1>4. CASE a \notin Updaters
  <2>1. Moves(a, "spawning") /\ UNCHANGED <<lock, dirty, moved, key>>
    BY <1>4 DEF Stopped, Stays
  <2>2. at' \in [Actors -> Places] /\ at'[a] = "spawning" /\ \A b \in Actors \ {a} : at'[b] = at[b]
    BY <2>1, MovesEffect DEF ProcessInv
  <2>3. Typed' /\ Marked'
    BY <1>2, <2>1, <2>2 DEF ProcessInv, Typed, Marked, NoServe, ServeType, graph
  <2>4. Counts'
    BY <1>1, <1>2, <2>2, CountSame DEF ProcessInv, Counted, Actors
  <2>5. Owned'
    BY <1>1, <1>2, <2>2, OwnedStep DEF Counted, graph
  <2>6. Ready(a)' /\ Holding(a)'
    BY <1>1, <1>2, <2>1, <2>2 DEF Ready, Holding, Locks, Idle, NoServe, graph
  <2> QED
    BY <1>1, <2>1, <2>2, <2>3, <2>4, <2>5, <2>6, HolderIsAlone, ActorStep
<1> QED BY <1>3, <1>4

(* or fails to;                                                            *)
LEMMA StopFailsStep ==
    ASSUME ProcessInv, NEW a \in Actors, StopFails(a)
    PROVE  ProcessInv'
<1>1. at[a] = "stopping" /\ Holding(a) /\ Marks /\ Ends(a) /\ lock' = Nobody
  BY DEF StopFails, Holding, Locks
<1>2. UNCHANGED <<dirty, moved, wanted, sessions, listings, graph, live, crashes>>
  BY DEF StopFails
<1>3. /\ at' \in [Actors -> Places] /\ at'[a] = "over" /\ key' \in [Actors -> 0..MaxChanges]
      /\ \A b \in Actors \ {a} : at'[b] = at[b] /\ key'[b] = key[b]
  BY <1>1, EndsEffect DEF ProcessInv
<1>4. Typed' /\ Marked'
  BY <1>1, <1>2, <1>3, MarksEffect DEF ProcessInv, Typed, Marked, graph
<1>5. Counts'
  BY <1>1, <1>2, <1>3, CountSame DEF ProcessInv, Counted, Actors
<1>6. Owned'
  BY <1>1, <1>2, <1>3, OwnedStep DEF Counted, graph
<1>7. Ready(a)' /\ ~Holding(a)' /\ lock' # a
  BY <1>1, <1>3 DEF Ready, Holding, Locks
<1> QED
  BY <1>1, <1>3, <1>4, <1>5, <1>6, <1>7, HolderIsAlone, ActorStep

(* it starts a new one,                                                    *)
LEMMA SpawnStep ==
    ASSUME ProcessInv, NEW a \in Actors, Spawn(a)
    PROVE  ProcessInv'
<1>1. /\ at[a] = "spawning" /\ Holding(a) /\ Idle /\ mcp = NoState /\ ~cond.there
      /\ serve' = [at |-> "up", cfg |-> key[a], ready |-> FALSE, broken |-> FALSE]
  BY DEF Spawn, Holding, Locks, ProcessInv, AllReady, Ready
<1>2. UNCHANGED <<flags, wanted, lock, sessions, listings, key, retried, graph, live, crashes>>
  BY DEF Spawn
<1>3. at' \in [Actors -> Places] /\ at'[a] = "health" /\ \A b \in Actors \ {a} : at'[b] = at[b]
  BY MovesEffect DEF Spawn, ProcessInv
<1>4. Typed' /\ Marked'
  <2>1. serve' \in ServeType /\ ~serve'.broken
    BY <1>1 DEF ProcessInv, Typed, ServeType
  <2>2. Typed'
    BY <1>2, <1>3, <2>1 DEF ProcessInv, Typed, graph, flags
  <2> QED BY <2>1, <2>2 DEF Marked
<1>5. Counts'
  BY <1>1, <1>2, <1>3, CountSame DEF ProcessInv, Counted, Actors
<1>6. Owned'
  BY <1>1, <1>2, <1>3, OwnedStep DEF Counted, graph
<1>7. Ready(a)' /\ Holding(a)'
  BY <1>1, <1>2, <1>3 DEF Ready, Holding, Locks, Idle, graph
<1> QED
  BY <1>1, <1>2, <1>3, <1>4, <1>5, <1>6, <1>7, HolderIsAlone, ActorStep

(* which passes the health gate,                                           *)
LEMMA HealthyStep ==
    ASSUME ProcessInv, NEW a \in Actors, Healthy(a)
    PROVE  ProcessInv'
<1>1. /\ at[a] = "health" /\ Holding(a) /\ Idle /\ mcp = NoState /\ ~cond.there
      /\ ~serve.broken /\ serve' = [serve EXCEPT !.ready = TRUE]
      /\ dirty' = (dirty /\ moved) /\ restart' = FALSE
  BY DEF Healthy, Holding, Locks, ProcessInv, AllReady, Ready
<1>2. UNCHANGED <<moved, wanted, listings, key, retried, graph, live, crashes>>
  BY DEF Healthy
<1>3. serve' \in ServeType /\ ~serve'.broken /\ Marked'
  BY <1>1 DEF ProcessInv, Typed, ServeType, Marked
<1>4. dirty' \in BOOLEAN
  BY <1>1
<1>5. CASE a \in Prompts
  <2>1. sessions' = sessions + 1 /\ lock' = Nobody /\ Moves(a, "mcp")
    BY <1>5 DEF Healthy
  <2>2. at' \in [Actors -> Places] /\ at'[a] = "mcp" /\ \A b \in Actors \ {a} : at'[b] = at[b]
    BY <2>1, MovesEffect DEF ProcessInv
  <2>3. Typed'
    BY <1>1, <1>2, <1>3, <1>4, <2>1, <2>2 DEF ProcessInv, Typed, graph
  <2>4. Counts'
    BY <1>1, <1>2, <1>5, <2>1, <2>2, CountMore DEF ProcessInv, Counted, Actors
  <2>5. Owned'
    BY <1>1, <1>2, <2>2, OwnedStep DEF Counted, graph
  <2>6. Ready(a)' /\ ~Holding(a)' /\ lock' # a
    BY <2>1, <2>2 DEF Ready, Holding, Locks
  <2> QED
    BY <1>1, <1>2, <1>3, <1>5, <2>1, <2>2, <2>3, <2>4, <2>5, <2>6, HolderIsAlone, ActorStep
<1>6. CASE a \notin Prompts
  <2>1. UNCHANGED <<sessions, lock>> /\ Moves(a, "probing")
    BY <1>6 DEF Healthy
  <2>2. at' \in [Actors -> Places] /\ at'[a] = "probing" /\ \A b \in Actors \ {a} : at'[b] = at[b]
    BY <2>1, MovesEffect DEF ProcessInv
  <2>3. Typed'
    BY <1>1, <1>2, <1>3, <1>4, <2>1, <2>2 DEF ProcessInv, Typed, graph
  <2>4. Counts'
    BY <1>1, <1>2, <1>6, <2>1, <2>2, CountSame DEF ProcessInv, Counted, Actors
  <2>5. Owned'
    BY <1>1, <1>2, <2>2, OwnedStep DEF Counted, graph
  <2>6. Ready(a)' /\ Holding(a)'
    BY <2>1, <2>2 DEF Ready, Holding, Locks
  <2> QED
    BY <1>1, <1>2, <1>3, <1>6, <2>1, <2>2, <2>3, <2>4, <2>5, <2>6, HolderIsAlone, ActorStep
<1> QED BY <1>5, <1>6

(* or not.                                                                 *)
LEMMA StartFailsStep ==
    ASSUME ProcessInv, NEW a \in Actors, StartFails(a)
    PROVE  ProcessInv'
<1>1. at[a] \in {"spawning", "health"} /\ Holding(a) /\ Ends(a) /\ lock' = Nobody
  BY DEF StartFails, Holding, Locks
<1>2. UNCHANGED <<dirty, moved, wanted, sessions, listings, graph, live, crashes>>
  BY DEF StartFails
<1>3. serve' \in ServeType /\ restart' \in BOOLEAN /\ Marked'
  <2>1. CASE serve' = NoServe /\ UNCHANGED restart
    BY <2>1 DEF ProcessInv, Typed, ServeType, NoServe, Marked
  <2>2. CASE Marks
    BY <2>2, MarksEffect DEF Marked
  <2> QED BY <2>1, <2>2 DEF StartFails
<1>4. /\ at' \in [Actors -> Places] /\ at'[a] = "over" /\ key' \in [Actors -> 0..MaxChanges]
      /\ \A b \in Actors \ {a} : at'[b] = at[b] /\ key'[b] = key[b]
  BY <1>1, EndsEffect DEF ProcessInv
<1>5. Typed'
  BY <1>1, <1>2, <1>3, <1>4 DEF ProcessInv, Typed, graph
<1>6. Counts'
  BY <1>1, <1>2, <1>4, CountSame DEF ProcessInv, Counted, Actors
<1>7. Owned'
  BY <1>1, <1>2, <1>4, OwnedStep DEF Counted, graph
<1>8. Ready(a)' /\ ~Holding(a)' /\ lock' # a
  BY <1>1, <1>4 DEF Ready, Holding, Locks
<1> QED
  BY <1>1, <1>3, <1>4, <1>5, <1>6, <1>7, <1>8, HolderIsAlone, ActorStep

(* A listing takes the lock,                                               *)
LEMMA ListNowStep ==
    ASSUME ProcessInv, NEW l \in Actors, ListNow(l)
    PROVE  ProcessInv'
<1>1. /\ l \in Listers /\ at[l] = "locking" /\ lock = Nobody /\ lock' = l
      /\ dirty' = (dirty \/ restart) /\ moved' = (moved \/ (restart /\ ~dirty))
  BY DEF ListNow
<1>2. UNCHANGED <<serve, restart, wanted, sessions, listings, key, retried, graph, live, crashes>>
  BY DEF ListNow
<1>3. at' \in [Actors -> Places] /\ at'[l] = "probing" /\ \A b \in Actors \ {l} : at'[b] = at[b]
  BY MovesEffect DEF ListNow, ProcessInv
<1>4. Typed' /\ Marked'
  <2>1. dirty' \in BOOLEAN /\ moved' \in BOOLEAN
    BY <1>1
  <2>2. Typed'
    BY <1>1, <1>2, <1>3, <2>1 DEF ProcessInv, Typed, graph
  <2>3. Marked'
    BY <1>2 DEF ProcessInv, Marked
  <2> QED BY <2>2, <2>3
<1>5. Counts'
  BY <1>1, <1>2, <1>3, CountSame DEF ProcessInv, Counted, Actors
<1>6. Owned'
  BY <1>1, <1>2, <1>3, OwnedStep DEF Counted, graph
<1>7. Ready(l)' /\ Holding(l)'
  BY <1>3 DEF Ready, Holding, Locks
<1>8. \A b \in Actors \ {l} : at[b] \notin Replacing /\ lock # b
  BY <1>1, LockIsFree
<1>9. l \notin Prompts
  BY <1>1
<1> QED
  BY <1>1, <1>2, <1>3, <1>4, <1>5, <1>6, <1>7, <1>8, <1>9, ActorStep

(* finds the process healthy,                                              *)
LEMMA ProbedStep ==
    ASSUME ProcessInv, NEW l \in Listers, Probed(l)
    PROVE  ProcessInv'
<1> l \in Actors /\ l \notin Prompts
  BY DEF Actors
<1>1. /\ at[l] = "probing" /\ Holding(l) /\ lock' = Nobody /\ listings' = listings + 1
      /\ serve' = [serve EXCEPT !.ready = TRUE]
  BY DEF Probed, Holding
<1>2. UNCHANGED <<flags, wanted, sessions, key, retried, graph, live, crashes>>
  BY DEF Probed
<1>3. serve' \in ServeType /\ Marked'
  BY <1>1, <1>2 DEF ProcessInv, Typed, ServeType, Marked, flags
<1>4. at' \in [Actors -> Places] /\ at'[l] = "fetching" /\ \A b \in Actors \ {l} : at'[b] = at[b]
  BY MovesEffect DEF Probed, ProcessInv
<1>5. Typed'
  BY <1>1, <1>2, <1>3, <1>4 DEF ProcessInv, Typed, graph, flags
<1>6. Counts'
  BY <1>1, <1>2, <1>4, ListMore DEF ProcessInv, Counted, Actors
<1>7. Owned'
  BY <1>1, <1>2, <1>4, OwnedStep DEF Counted, graph
<1>8. Ready(l)' /\ ~Holding(l)' /\ lock' # l
  BY <1>1, <1>4 DEF Ready, Holding, Locks
<1> QED
  BY <1>1, <1>2, <1>3, <1>4, <1>5, <1>6, <1>7, <1>8, HolderIsAlone, ActorStep

(* or has it replaced;                                                     *)
LEMMA NotProbedStep ==
    ASSUME ProcessInv, NEW l \in Listers, NotProbed(l)
    PROVE  ProcessInv'
<1> l \in Actors /\ l \notin Prompts
  BY DEF Actors
<1>1. at[l] = "probing" /\ Holding(l) /\ restart' = TRUE
  BY DEF NotProbed, Holding
<1>2. UNCHANGED <<dirty, wanted, sessions, listings, mine, lease, live, crashes>>
  BY DEF NotProbed
<1>3. CASE sessions > 0 \/ l \in retried
  <2>1. Ends(l) /\ lock' = Nobody /\ Marks /\ UNCHANGED moved /\ KeepsGraph
    BY <1>1, <1>3 DEF NotProbed, Marks
  <2>2. /\ at' \in [Actors -> Places] /\ at'[l] = "over" /\ key' \in [Actors -> 0..MaxChanges]
        /\ \A b \in Actors \ {l} : at'[b] = at[b] /\ key'[b] = key[b]
    BY <2>1, EndsEffect DEF ProcessInv
  <2>3. Typed' /\ Marked'
    BY <1>2, <2>1, <2>2, MarksEffect DEF ProcessInv, Typed, Marked, KeepsGraph
  <2>4. Counts'
    BY <1>1, <1>2, <2>2, CountSame DEF ProcessInv, Counted, Actors
  <2>5. Owned'
    BY <1>1, <1>2, <2>2, OwnedStep DEF Counted
  <2>6. Ready(l)' /\ ~Holding(l)' /\ lock' # l
    BY <2>1, <2>2 DEF Ready, Holding, Locks
  <2> QED
    BY <1>1, <2>1, <2>2, <2>3, <2>4, <2>5, <2>6, HolderIsAlone, ActorStep
<1>4. CASE ~(sessions > 0 \/ l \in retried)
  <2>1. Moves(l, "draining") /\ UNCHANGED <<lock, key>> /\ moved' = FALSE /\ Notices
    BY <1>4 DEF NotProbed
  <2>2. at' \in [Actors -> Places] /\ at'[l] = "draining" /\ \A b \in Actors \ {l} : at'[b] = at[b]
    BY <2>1, MovesEffect DEF ProcessInv
  <2>3. /\ serve' \in ServeType /\ mcp' \in McpType /\ cond' \in [there : BOOLEAN, no : Nat]
        /\ serve'.broken => serve' = serve
    BY <2>1, NoticesEffect DEF ProcessInv
  <2>4. Typed'
    BY <1>1, <1>2, <2>1, <2>2, <2>3 DEF ProcessInv, Typed
  <2>5. Marked'
    BY <1>1, <2>3 DEF ProcessInv, Marked
  <2>6. Counts'
    BY <1>1, <1>2, <2>2, CountSame DEF ProcessInv, Counted, Actors
  <2>7. Owned'
    BY <1>1, <1>2, <2>2, OwnedStep DEF Counted
  <2>8. Ready(l)' /\ Holding(l)'
    BY <2>2 DEF Ready, Holding, Locks
  <2> QED
    BY <1>1, <2>1, <2>2, <2>4, <2>5, <2>6, <2>7, <2>8, HolderIsAlone, ActorStep
<1> QED BY <1>3, <1>4

(* it is answered.                                                         *)
LEMMA FetchedStep ==
    ASSUME ProcessInv, NEW l \in Listers, Fetched(l)
    PROVE  ProcessInv'
<1> l \in Actors /\ l \notin Prompts
  BY DEF Actors
<1>1. at[l] = "fetching" /\ ~Holding(l) /\ listings' = listings - 1 /\ Ends(l)
  BY DEF Fetched, Holding, Locks
<1>2. UNCHANGED <<serve, flags, wanted, lock, sessions, graph, live, crashes>>
  BY DEF Fetched
<1>3. /\ at' \in [Actors -> Places] /\ at'[l] = "over" /\ key' \in [Actors -> 0..MaxChanges]
      /\ \A b \in Actors \ {l} : at'[b] = at[b] /\ key'[b] = key[b]
  BY <1>1, EndsEffect DEF ProcessInv
<1>4. Typed' /\ Marked'
  BY <1>1, <1>2, <1>3 DEF ProcessInv, Typed, Marked, graph, flags
<1>5. Counts'
  BY <1>1, <1>2, <1>3, ListLess DEF ProcessInv, Counted, Actors
<1>6. Owned'
  BY <1>1, <1>2, <1>3, OwnedStep DEF Counted, graph
<1>7. Ready(l)' /\ ~Holding(l)' /\ lock' # l
  BY <1>1, <1>2, <1>3 DEF Ready, Holding, Locks, ProcessInv, LockHeld
<1>8. \A b \in Actors : at[b] \notin Replacing
  BY <1>1, UsedIsKept
<1> QED
  BY <1>1, <1>2, <1>3, <1>4, <1>5, <1>6, <1>7, <1>8, ActorStep

(* A deadline before the session counts.                                   *)
LEMMA WithdrawStep ==
    ASSUME ProcessInv, NEW a \in Actors, Withdraw(a)
    PROVE  ProcessInv'
<1>1. /\ at[a] = "locking" \/ Locks(a)
      /\ Ends(a) /\ lock' = IF Locks(a) THEN Nobody ELSE lock
  BY DEF Withdraw
<1>2. UNCHANGED <<dirty, moved, wanted, sessions, listings, graph, crashes>>
  BY DEF Withdraw
<1>3. /\ at' \in [Actors -> Places] /\ at'[a] = "over" /\ key' \in [Actors -> 0..MaxChanges]
      /\ \A b \in Actors \ {a} : at'[b] = at[b] /\ key'[b] = key[b]
  BY <1>1, EndsEffect DEF ProcessInv
<1>4. Holding(a) <=> Locks(a)
  BY <1>1 DEF Holding, Locks
<1>5. serve' \in ServeType /\ restart' \in BOOLEAN /\ Marked'
  <2>1. CASE at[a] = "stopping" /\ serve.at # "none"
    <3>1. restart' = TRUE /\ serve' = [serve EXCEPT !.at = "dead", !.broken = TRUE]
      BY <2>1 DEF Withdraw
    <3>2. serve' = [at |-> "dead", cfg |-> serve.cfg, ready |-> serve.ready, broken |-> TRUE]
      BY <3>1 DEF ProcessInv, Typed, ServeType
    <3> QED
      BY <3>1, <3>2 DEF ProcessInv, Typed, ServeType, Marked
  <2>2. CASE ~(at[a] = "stopping" /\ serve.at # "none")
    BY <2>2 DEF Withdraw, ProcessInv, Typed, Marked
  <2> QED BY <2>1, <2>2
<1>6. Typed'
  BY <1>1, <1>2, <1>3, <1>5 DEF ProcessInv, Typed, graph
<1>7. Counts'
  BY <1>1, <1>2, <1>3, CountSame DEF ProcessInv, Counted, Actors, Locks
<1>8. Owned'
  BY <1>1, <1>2, <1>3, OwnedStep DEF Counted, Locks, graph
<1>9. Ready(a)' /\ ~Holding(a)'
  BY <1>1, <1>3 DEF Ready, Holding, Locks
<1>10. CASE Locks(a)
  BY <1>1, <1>3, <1>4, <1>5, <1>6, <1>7, <1>8, <1>9, <1>10, HolderIsAlone, ActorStep
<1>11. CASE ~Locks(a)
  <2>1. UNCHANGED <<serve, mcp, cond, sessions, listings, lock>> /\ lock # a
    BY <1>1, <1>2, <1>4, <1>11 DEF Withdraw, Locks, graph, ProcessInv, LockHeld
  <2> QED
    BY <1>3, <1>5, <1>6, <1>7, <1>8, <1>9, <2>1, ActorStep
<1> QED BY <1>10, <1>11

(* A prompt gives its session back.                                        *)
LEMMA LeaveStep ==
    ASSUME ProcessInv, NEW p \in Prompts, Leave(p)
    PROVE  ProcessInv'
<1> p \in Actors /\ p \notin Listers
  BY DEF Actors
<1>1. /\ at[p] = "leaving" /\ Counted(p) /\ ~Holding(p) /\ sessions' = sessions - 1 /\ Ends(p)
      /\ lease' = [lease EXCEPT ![p] = "none"] /\ mine' = [mine EXCEPT ![p] = 0]
  BY DEF Leave, GivesBack, Counted, Holding, Locks
<1>2. UNCHANGED <<serve, restart, mcp, cond, live, dirty, moved, wanted, lock, listings, crashes>>
  BY DEF Leave, Process
<1>3. /\ at' \in [Actors -> Places] /\ at'[p] = "over" /\ key' \in [Actors -> 0..MaxChanges]
      /\ \A b \in Actors \ {p} : at'[b] = at[b] /\ key'[b] = key[b]
  BY <1>1, EndsEffect DEF ProcessInv
<1>4. Typed' /\ Marked'
  BY <1>1, <1>2, <1>3 DEF ProcessInv, Typed, Marked
<1>5. Counts'
  BY <1>1, <1>2, <1>3, CountLess DEF ProcessInv, Counted, Actors
<1>6. Owned'
  BY <1>1, <1>2, <1>3 DEF ProcessInv, Typed, Owned, Counted, Actors
<1>7. Ready(p)' /\ ~Holding(p)' /\ lock' # p
  BY <1>1, <1>2, <1>3 DEF Ready, Holding, Locks, ProcessInv, LockHeld
<1>8. \A b \in Actors : at[b] \notin Replacing
  BY <1>1, UsedIsKept
<1> QED
  BY <1>1, <1>2, <1>3, <1>4, <1>5, <1>6, <1>7, <1>8, ActorStep

(* A change of the configuration, a crash of the process.                  *)
LEMMA ChangeStep ==
    ASSUME ProcessInv, Change \/ Crash
    PROVE  ProcessInv'
<1>1. /\ UNCHANGED <<lock, sessions, listings, at, key, graph, restart>>
      /\ serve'.at = serve.at \/ (serve.at = "up" /\ serve'.at = "dead")
      /\ serve' \in ServeType /\ serve'.cfg = serve.cfg /\ serve'.broken = serve.broken
      /\ dirty' \in BOOLEAN /\ moved' \in BOOLEAN /\ wanted' \in 0..MaxChanges /\ crashes' \in Nat
  <2>1. CASE Change
    BY <2>1 DEF Change, ProcessInv, Typed
  <2>2. CASE Crash
    <3>1. serve' = [at |-> "dead", cfg |-> serve.cfg, ready |-> FALSE, broken |-> serve.broken]
      BY <2>2 DEF Crash, ProcessInv, Typed, ServeType
    <3>2. crashes' \in Nat
      BY <2>2 DEF Crash, ProcessInv, Typed
    <3>3. UNCHANGED <<lock, sessions, listings, at, key, graph, flags, wanted>> /\ serve.at = "up"
      BY <2>2 DEF Crash, Up
    <3> QED
      BY <3>1, <3>2, <3>3 DEF ProcessInv, Typed, ServeType, flags
  <2> QED BY <2>1, <2>2
<1>2. Typed'
  BY <1>1 DEF ProcessInv, Typed, graph
<1>3. Counts' /\ LockHeld' /\ Placed' /\ Owned'
  BY <1>1, CountSame DEF ProcessInv, LockHeld, Holding, Locks, Placed, Owned, Counted, graph
<1>4. AllReady'
  BY <1>1 DEF ProcessInv, AllReady, Ready, Idle, graph
<1>5. Marked'
  BY <1>1 DEF ProcessInv, Marked
<1> QED BY <1>2, <1>3, <1>4, <1>5 DEF ProcessInv

-----------------------------------------------------------------------------
(* The graph.  The references never exceed the prompts that have taken one *)
(* some time;                                                              *)

Entered == {p \in Prompts : at[p] \in {"connecting", "talking", "closing", "disconnecting",
                                       "leaving", "over"}}
RefsFit == mcp.refs <= Cardinality(Entered) /\ (mcp.there <=> mcp.refs > 0)

(* while the process is up, the prompts that hold a reference agree with   *)
(* the entry: one of them at a time talks to the process about it.         *)
Switching == {"connecting", "rejoining", "disconnecting"}
Holds(p) == at[p] = "connecting" \/ (at[p] \in {"talking", "closing"} /\ lease[p] # "none")
Held == {p \in Prompts : Holds(p)}

OnCondition(p) ==
    /\ mine[p] # 0 => cond.there /\ mine[p] = cond.no
    /\ at[p] \in Switching \cup {"waiting"} => mine[p] # 0
OnGraph(p) == at[p] \in Switching \/ Holds(p) => mcp.there /\ mcp.scan = Scan(p)
FirstOrLast(p) ==
    /\ at[p] \in {"connecting", "disconnecting"} => mcp.refs = 1
    /\ at[p] = "connecting" => ~mcp.on /\ Held \subseteq {p}
    /\ at[p] = "disconnecting" => Held = {}
Fed(p) == at[p] = "talking" /\ lease[p] = "on" => mcp.on

Graph ==
    /\ \A p \in Prompts : OnCondition(p) /\ OnGraph(p) /\ FirstOrLast(p) /\ Fed(p)
    /\ \A p, q \in Prompts : at[p] \in Switching /\ at[q] \in Switching => p = q
    /\ cond.there => cond.no > 0
    /\ mcp.there => cond.there /\ mcp.under = cond.no
    /\ Cardinality(Held) <= mcp.refs
    /\ mcp.on => mcp.scan \in live

GraphInv == Up => Graph
Inv == ProcessInv /\ RefsFit /\ GraphInv

USE DEF Switching

(* There are finitely many prompts in either.                              *)
LEMMA FiniteToo == IsFiniteSet(Entered) /\ IsFiniteSet(Held)
<1>1. Entered \subseteq Prompts /\ Held \subseteq Prompts
  BY DEF Entered, Held
<1> QED BY <1>1, Finite, FS_Subset

(* Their numbers are numbers,                                              *)
LEMMA HeldCounts == Cardinality(Held) \in Nat /\ Cardinality(Entered) \in Nat
BY FiniteToo, FS_CardinalityType

(* Who has entered stays so.                                               *)
LEMMA EntersOnly ==
    ASSUME IsFiniteSet(Entered'), Entered \subseteq Entered'
    PROVE  /\ Cardinality(Entered) \in Nat /\ Cardinality(Entered') \in Nat
           /\ Cardinality(Entered) <= Cardinality(Entered')
           /\ \A p \in Entered' \ Entered : Cardinality(Entered) + 1 <= Cardinality(Entered')
<1>1. /\ Cardinality(Entered) \in Nat /\ Cardinality(Entered') \in Nat
      /\ Cardinality(Entered) <= Cardinality(Entered')
  BY FiniteToo, FS_Subset, FS_CardinalityType
<1>2. ASSUME NEW p \in Entered' \ Entered
      PROVE  Cardinality(Entered) + 1 <= Cardinality(Entered')
  <2>1. Entered \cup {p} \subseteq Entered' /\ Cardinality(Entered \cup {p}) = Cardinality(Entered) + 1
    BY <1>2, FiniteToo, FS_AddElement
  <2> QED BY <2>1, FS_Subset
<1> QED BY <1>1, <1>2

(* also after a step.                                                      *)
LEMMA EnteredFinite == IsFiniteSet(Entered')
<1>1. Entered' \subseteq Prompts
  BY DEF Entered
<1> QED BY <1>1, Finite, FS_Subset

(* The same of those who hold a reference.                                 *)
LEMMA HeldFinite == IsFiniteSet(Held')
<1>1. Held' \subseteq Prompts
  BY DEF Held
<1> QED BY <1>1, Finite, FS_Subset

(* A process that nobody uses has no graph.                                *)
LEMMA NoGraph ==
    ASSUME ProcessInv', Idle', mcp' = NoState, ~cond'.there
    PROVE  Graph'
<1>1. \A p \in Prompts : ~Counted(p)'
  <2>1. Using' = {}
    <3>1. IsFiniteSet(Using')
      <4>1. Using' \subseteq Prompts
        BY DEF Using
      <4> QED BY <4>1, Finite, FS_Subset
    <3>2. sessions' = 0 /\ sessions' = Cardinality(Using')
      BY DEF ProcessInv, Counts, Idle
    <3> QED BY <3>1, <3>2, FS_EmptySet
  <2> QED BY <2>1 DEF Using
<1>2. Held' = {}
  BY <1>1 DEF Held, Holds, Counted
<1>3. Cardinality(Held') = 0
  BY <1>2, FS_EmptySet
<1>4. \A p \in Prompts : OnCondition(p)' /\ OnGraph(p)' /\ FirstOrLast(p)' /\ Fed(p)'
  BY <1>1, <1>2 DEF OnCondition, OnGraph, FirstOrLast, Fed, Holds, Counted, ProcessInv, Owned
<1> QED
  BY <1>1, <1>3, <1>4 DEF Graph, Counted, NoState

(* A step of an actor that does not use the graph leaves it as it is.      *)
LEMMA GraphKept ==
    ASSUME Graph, NEW a \in Actors, UNCHANGED <<mcp, cond, live>>,
           \A b \in Actors \ {a} : at'[b] = at[b],
           at[a] \in Waits \cup {"probing", "fetching", "leaving"},
           at'[a] \in Waits \cup {"probing", "fetching", "mcp"},
           \A p \in Prompts \ {a} : mine'[p] = mine[p] /\ lease'[p] = lease[p],
           a \in Prompts => mine'[a] = 0
    PROVE  Graph'
<1>1. \A p \in Prompts : Holds(p)' = Holds(p)
  BY DEF Holds, Actors
<1>2. Held' = Held
  BY <1>1 DEF Held
<1>3. \A p \in Prompts : OnCondition(p)' /\ OnGraph(p)' /\ FirstOrLast(p)' /\ Fed(p)'
  <2> SUFFICES ASSUME NEW p \in Prompts
               PROVE  OnCondition(p)' /\ OnGraph(p)' /\ FirstOrLast(p)' /\ Fed(p)'
    OBVIOUS
  <2>1. OnCondition(p) /\ OnGraph(p) /\ FirstOrLast(p) /\ Fed(p)
    BY DEF Graph
  <2>2. CASE p = a
    BY <2>2, <1>1 DEF OnCondition, OnGraph, FirstOrLast, Fed, Holds
  <2>3. CASE p # a
    <3>1. at'[p] = at[p] /\ mine'[p] = mine[p] /\ lease'[p] = lease[p]
      BY <2>3 DEF Actors
    <3> QED
      BY <1>1, <1>2, <2>1, <3>1 DEF OnCondition, OnGraph, FirstOrLast, Fed
  <2> QED BY <2>2, <2>3
<1>4. \A p, q \in Prompts : at'[p] \in Switching /\ at'[q] \in Switching => p = q
  BY DEF Graph, Actors
<1> QED
  BY <1>2, <1>3, <1>4 DEF Graph

(* A step of one who acquires, or leaves, the process.                     *)
LEMMA ActorGraph ==
    ASSUME Inv, ProcessInv', NEW a \in Actors,
           at[a] \in Waits \cup {"probing", "fetching", "leaving"},
           at'[a] \in Waits \cup {"probing", "fetching", "mcp"},
           at[a] \in {"over", "leaving"} => at'[a] = "over",
           \A b \in Actors \ {a} : at'[b] = at[b],
           \A p \in Prompts \ {a} : mine'[p] = mine[p] /\ lease'[p] = lease[p],
           a \in Prompts => mine'[a] \in {0, mine[a]},
           a \in Prompts /\ at[a] = "leaving" => mine'[a] = 0,
           mcp' = mcp \/ mcp' = NoState,
           \/ ~Up'
           \/ Up /\ UNCHANGED <<mcp, cond, live>>
           \/ Idle' /\ mcp' = NoState /\ ~cond'.there
    PROVE  Inv'
<1>1. RefsFit'
  <2>1. Entered \subseteq Entered'
    BY DEF Entered, Actors
  <2>2. /\ Cardinality(Entered) \in Nat /\ Cardinality(Entered') \in Nat
        /\ Cardinality(Entered) <= Cardinality(Entered')
    BY <2>1, EnteredFinite, EntersOnly
  <2>3. mcp.refs \in Nat /\ mcp.refs <= Cardinality(Entered) /\ (mcp.there <=> mcp.refs > 0)
    BY DEF Inv, RefsFit, ProcessInv, Typed, McpType
  <2>4. CASE mcp' = mcp
    BY <2>2, <2>3, <2>4 DEF RefsFit
  <2>5. CASE mcp' = NoState
    BY <2>2, <2>5 DEF RefsFit, NoState
  <2> QED BY <2>4, <2>5
<1>2. GraphInv'
  <2>1. CASE ~Up'
    BY <2>1 DEF GraphInv
  <2>2. CASE Up /\ UNCHANGED <<mcp, cond, live>>
    <3>1. a \in Prompts => mine'[a] = 0
      BY DEF Inv, ProcessInv, Owned, Counted
    <3> QED
      BY <2>2, <3>1, GraphKept DEF Inv, GraphInv
  <2>3. CASE Idle' /\ mcp' = NoState /\ ~cond'.there
    BY <2>3, NoGraph DEF GraphInv
  <2> QED BY <2>1, <2>2, <2>3
<1> QED BY <1>1, <1>2 DEF Inv

(* Who acquires the process has no condition yet.                          *)
Acquires(a) ==
    \/ Begin(a) \/ Acquire(a) \/ Withdraw(a)
    \/ a \in Prompts /\ Reuse(a)
    \/ a \in Listers /\ List(a)

(* Its place, before and after.                                            *)
LEMMA AcquireEffect ==
    ASSUME Inv, NEW a \in Actors, Acquires(a)
    PROVE  /\ ProcessInv' /\ UNCHANGED <<mine, lease>>
           /\ at[a] \in Waits \cup {"probing", "fetching"} /\ at[a] # "over"
           /\ at'[a] \in Waits \cup {"probing", "fetching", "mcp"}
           /\ \A b \in Actors \ {a} : at'[b] = at[b]
<1> ProcessInv /\ Typed
  BY DEF Inv, ProcessInv
<1>1. CASE Begin(a)
  BY <1>1, BeginStep, MovesEffect DEF Begin, graph
<1>2. CASE Reload(a)
  BY <1>2, ReloadStep, MovesEffect DEF Reload
<1>3. CASE Drain(a)
  BY <1>3, DrainStep, MovesEffect DEF Drain
<1>4. CASE Stopped(a)
  BY <1>4, StoppedStep, MovesEffect, EndsEffect DEF Stopped, graph
<1>5. CASE StopFails(a)
  BY <1>5, StopFailsStep, EndsEffect DEF StopFails, graph
<1>6. CASE Spawn(a)
  BY <1>6, SpawnStep, MovesEffect DEF Spawn, graph
<1>7. CASE Healthy(a)
  BY <1>7, HealthyStep, MovesEffect DEF Healthy, graph
<1>8. CASE StartFails(a)
  BY <1>8, StartFailsStep, EndsEffect DEF StartFails, graph
<1>9. CASE Withdraw(a)
  BY <1>9, WithdrawStep, EndsEffect DEF Withdraw, Locks, graph
<1>10. CASE a \in Prompts /\ Reuse(a)
  BY <1>10, ReuseStep, MovesEffect DEF Reuse, graph
<1>11. CASE a \in Listers /\ ListNow(a)
  BY <1>11, ListNowStep, MovesEffect DEF ListNow, graph
<1>12. CASE a \in Listers /\ Probed(a)
  BY <1>12, ProbedStep, MovesEffect DEF Probed, graph
<1>13. CASE a \in Listers /\ NotProbed(a)
  BY <1>13, NotProbedStep, MovesEffect, EndsEffect DEF NotProbed
<1>14. CASE a \in Listers /\ Fetched(a)
  BY <1>14, FetchedStep, EndsEffect DEF Fetched, graph
<1> QED
  BY <1>1, <1>2, <1>3, <1>4, <1>5, <1>6, <1>7, <1>8, <1>9, <1>10, <1>11, <1>12, <1>13, <1>14
  DEF Acquires, Acquire, List

(* The graph is forgotten only with the process, or while nobody uses it.  *)
LEMMA AcquireGraph ==
    ASSUME Inv, NEW a \in Actors, Acquires(a)
    PROVE  /\ mcp' = mcp \/ mcp' = NoState
           /\ \/ ~Up'
              \/ Up /\ UNCHANGED <<mcp, cond, live>>
              \/ Idle' /\ mcp' = NoState /\ ~cond'.there
<1> ProcessInv /\ Typed
  BY DEF Inv, ProcessInv
<1>1. CASE Begin(a)
  BY <1>1 DEF Begin, graph, Up
<1>2. CASE Reload(a)
  BY <1>2 DEF Reload, Notices, ForgetsGraph, KeepsGraph, Up, NoServe
<1>3. CASE Drain(a)
  <2>1. mcp' = NoState /\ ~cond'.there /\ Idle'
    BY <1>3, ForgottenIsClean DEF Drain, Drained, Idle
  <2> QED BY <2>1
<1>4. CASE Stopped(a)
  BY <1>4 DEF Stopped, graph, Up, NoServe
<1>5. CASE StopFails(a)
  BY <1>5, MarksEffect DEF StopFails, graph, Up
<1>6. CASE Spawn(a)
  BY <1>6 DEF Spawn, graph, ProcessInv, AllReady, Ready, Idle
<1>7. CASE Healthy(a)
  BY <1>7 DEF Healthy, graph, Up
<1>8. CASE StartFails(a)
  <2>1. UNCHANGED <<mcp, cond, live>> /\ (serve' = NoServe \/ Marks)
    BY <1>8 DEF StartFails, graph
  <2>2. CASE serve' = NoServe
    BY <2>1, <2>2 DEF Up, NoServe
  <2>3. CASE Marks
    BY <2>1, <2>3, MarksEffect DEF Up
  <2> QED BY <2>1, <2>2, <2>3
<1>9. CASE Withdraw(a)
  <2>1. mcp' = mcp /\ cond' = cond
    BY <1>9 DEF Withdraw, graph
  <2>2. CASE at[a] = "stopping" /\ serve.at # "none"
    <3>1. serve' = [serve EXCEPT !.at = "dead", !.broken = TRUE]
      BY <1>9, <2>2 DEF Withdraw
    <3>2. serve' = [at |-> "dead", cfg |-> serve.cfg, ready |-> serve.ready, broken |-> TRUE]
      BY <3>1 DEF Typed, ServeType
    <3> QED BY <2>1, <3>2 DEF Up
  <2>3. CASE ~(at[a] = "stopping" /\ serve.at # "none")
    BY <1>9, <2>1, <2>3 DEF Withdraw, Up
  <2> QED BY <2>2, <2>3
<1>10. CASE a \in Prompts /\ Reuse(a)
  BY <1>10 DEF Reuse, graph, Up
<1>11. CASE a \in Listers /\ ListNow(a)
  BY <1>11 DEF ListNow, graph, Up
<1>12. CASE a \in Listers /\ Probed(a)
  BY <1>12 DEF Probed, graph, Up
<1>13. CASE a \in Listers /\ NotProbed(a)
  <2>1. CASE sessions > 0 \/ a \in retried
    BY <1>13, <2>1, MarksEffect DEF NotProbed, KeepsGraph, Marks, Up
  <2>2. CASE ~(sessions > 0 \/ a \in retried)
    BY <1>13, <2>2 DEF NotProbed, Notices, ForgetsGraph, KeepsGraph, Up, NoServe
  <2> QED BY <2>1, <2>2
<1>14. CASE a \in Listers /\ Fetched(a)
  BY <1>14 DEF Fetched, graph, Up
<1> QED
  BY <1>1, <1>2, <1>3, <1>4, <1>5, <1>6, <1>7, <1>8, <1>9, <1>10, <1>11, <1>12, <1>13, <1>14
  DEF Acquires, Acquire, List

(* Who acquires the process preserves the invariant,                       *)
LEMMA AcquireInv ==
    ASSUME Inv, NEW a \in Actors, Acquires(a)
    PROVE  Inv'
BY AcquireEffect, AcquireGraph, ActorGraph

(* and so does who leaves it.                                              *)
LEMMA LeaveInv ==
    ASSUME Inv, NEW p \in Prompts, Leave(p)
    PROVE  Inv'
<1> p \in Actors /\ ProcessInv /\ Typed
  BY DEF Actors, Inv, ProcessInv
<1>1. ProcessInv'
  BY LeaveStep
<1>2. at[p] = "leaving" /\ at'[p] = "over" /\ \A b \in Actors \ {p} : at'[b] = at[b]
  BY EndsEffect DEF Leave
<1>3. \A q \in Prompts \ {p} : mine'[q] = mine[q] /\ lease'[q] = lease[q]
  BY DEF Leave, Typed
<1>4. mine'[p] = 0
  BY DEF Leave, Typed
<1>5. UNCHANGED <<serve, mcp, cond, live>>
  BY DEF Leave
<1> QED
  BY <1>1, <1>2, <1>3, <1>4, <1>5, ActorGraph DEF Up

-----------------------------------------------------------------------------
(* Steps of those who use the process.                                     *)

(* They change their own place, and that of whoever waits on a condition.  *)
Woken(b) == at'[b] = at[b] \/ (b \in Prompts /\ at[b] = "waiting" /\ at'[b] = "mcp")

(* A prompt moves and wakes the others.                                    *)
LEMMA WakesEffect ==
    ASSUME Typed, NEW p \in Prompts, NEW c, NEW to \in Places, Wakes(p, c, to)
    PROVE  at' \in [Actors -> Places] /\ at'[p] = to /\ \A b \in Actors \ {p} : Woken(b)
BY DEF Typed, Wakes, Woken, Actors

(* What they do to the process: at most, they have it replaced.            *)
LEMMA PromptProcess ==
    ASSUME ProcessInv, NEW p \in Prompts, Counted(p), Counted(p)', at' \in [Actors -> Places],
           \A b \in Actors \ {p} : Woken(b),
           UNCHANGED <<key, sessions>>, Process, Marks \/ UNCHANGED <<restart, serve>>,
           mcp' \in McpType, cond' \in [there : BOOLEAN, no : Nat], mine' \in [Prompts -> Nat],
           lease' \in [Prompts -> {"none", "on", "off"}],
           \A q \in Prompts \ {p} : mine'[q] = mine[q] /\ lease'[q] = lease[q],
           lease'[p] # "none" => at'[p] \in {"talking", "closing", "disconnecting", "leaving"}
    PROVE  ProcessInv'
<1> p \in Actors
  BY DEF Actors
<1>1. Typed'
  <2>1. serve' \in ServeType /\ restart' \in BOOLEAN
    BY MarksEffect DEF ProcessInv, Typed
  <2> QED BY <2>1 DEF ProcessInv, Typed, Process
<1>2. Counts'
  <2>1. \A q \in Prompts : Counted(q)' = Counted(q)
    BY DEF Counted, Woken, Actors
  <2>2. \A l \in Listers : at'[l] = at[l]
    BY DEF Woken, Actors
  <2> QED BY <2>1, <2>2, CountSame DEF Process, ProcessInv
<1>3. LockHeld'
  <2> SUFFICES ASSUME NEW b \in Actors PROVE Holding(b)' <=> lock' = b
    BY DEF LockHeld
  <2>1. Holding(b) <=> lock = b
    BY DEF ProcessInv, LockHeld
  <2>2. Holding(b)' = Holding(b)
    BY DEF Holding, Locks, Woken, Counted
  <2> QED BY <2>1, <2>2 DEF Process
<1>4. Placed'
  <2>1. \A q \in Prompts : at'[q] \in Waits \cup GraphPlaces
    BY DEF ProcessInv, Placed, Woken, Actors, Counted
  <2>2. \A a \in Actors \ Prompts : at'[a] \in Waits \cup {"probing", "fetching"}
    BY DEF ProcessInv, Placed, Woken
  <2> QED BY <2>1, <2>2 DEF Placed
<1>5. AllReady'
  <2>1. \A b \in Actors : at[b] \notin Replacing
    BY UsedIsKept
  <2>2. \A b \in Actors : at'[b] \notin Replacing
    BY <2>1 DEF Woken, Counted
  <2> QED BY <2>2 DEF AllReady, Ready
<1>6. Marked'
  BY MarksEffect DEF ProcessInv, Marked
<1>7. Owned'
  <2>1. \A q \in Prompts : Counted(q) => Counted(q)'
    BY DEF Counted, Woken, Actors
  <2>2. ASSUME NEW q \in Prompts, q # p
        PROVE  lease'[q] # "none" => at'[q] \in {"talking", "closing", "disconnecting", "leaving"}
    BY <2>2 DEF ProcessInv, Owned, Woken, Actors
  <2> QED BY <2>1, <2>2 DEF ProcessInv, Owned
<1> QED
  BY <1>1, <1>2, <1>3, <1>4, <1>5, <1>6, <1>7 DEF ProcessInv

(* The process is up after such a step only if it was before.              *)
LEMMA StaysUp ==
    ASSUME ProcessInv, Marks \/ UNCHANGED <<restart, serve>>, Up'
    PROVE  Up
BY MarksEffect DEF Up

(* Whoever has the condition's lock is the only one who has.               *)
LEMMA NobodySwitches ==
    ASSUME Graph, NEW c, LockFree(c), c = cond.no \/ ~cond.there
    PROVE  \A q \in Prompts : at[q] \notin Switching
BY DEF Graph, OnCondition, LockFree

(* Finish, Close without a graph, GiveUp: one prompt goes on, and the      *)
(* graph's entry stays.                                                    *)
LEMMA EntryStays ==
    ASSUME Inv, ProcessInv', NEW p \in Prompts, UNCHANGED <<graph, live>>,
           at[p] \in {"mcp", "waiting", "rejoining", "talking", "closing"},
           at'[p] \in {"closing", "leaving"}, at'[p] = "closing" => at[p] # "closing",
           Up' => Up, \A b \in Actors \ {p} : at'[b] = at[b]
    PROVE  Inv'
<1>1. RefsFit'
  <2>1. Entered \subseteq Entered'
    BY DEF Entered, Actors
  <2>2. /\ Cardinality(Entered) \in Nat /\ Cardinality(Entered') \in Nat
        /\ Cardinality(Entered) <= Cardinality(Entered')
    BY <2>1, EnteredFinite, EntersOnly
  <2> QED
    BY <2>2 DEF Inv, RefsFit, ProcessInv, Typed, McpType, graph
<1>2. GraphInv'
  <2> SUFFICES ASSUME Up' PROVE Graph'
    BY DEF GraphInv
  <2>1. Graph
    BY DEF Inv, GraphInv
  <2>2. \A q \in Prompts : Holds(q)' => Holds(q)
    BY DEF Holds, Actors, graph, Inv, ProcessInv, Owned
  <2>3. Held' \subseteq Held /\ Cardinality(Held') <= Cardinality(Held) /\ Cardinality(Held') \in Nat
    <3>1. Held' \subseteq Held
      BY <2>2 DEF Held
    <3> QED BY <3>1, FiniteToo, HeldFinite, FS_Subset, FS_CardinalityType
  <2>4. Cardinality(Held') <= mcp.refs
    BY <2>1, <2>3, HeldCounts DEF Graph, Inv, ProcessInv, Typed, McpType
  <2>5. \A q \in Prompts : at'[q] \in Switching => at'[q] = at[q] /\ q # p
    BY DEF Actors
  <2>6. ASSUME NEW q \in Prompts PROVE OnCondition(q)' /\ OnGraph(q)' /\ FirstOrLast(q)' /\ Fed(q)'
    <3>1. OnCondition(q) /\ OnGraph(q) /\ FirstOrLast(q) /\ Fed(q)
      BY <2>1 DEF Graph
    <3>2. at'[q] = at[q] \/ (q = p /\ at'[q] \in {"closing", "leaving"})
      BY DEF Actors
    <3>3. OnCondition(q)'
      BY <3>1, <3>2 DEF OnCondition, graph
    <3>4. OnGraph(q)'
      BY <2>2, <3>1, <3>2 DEF OnGraph, graph
    <3>5. FirstOrLast(q)'
      BY <2>3, <3>1, <3>2 DEF FirstOrLast, graph
    <3>6. Fed(q)'
      BY <3>1, <3>2 DEF Fed, graph
    <3> QED BY <3>3, <3>4, <3>5, <3>6
  <2> QED
    BY <2>1, <2>4, <2>5, <2>6 DEF Graph, graph
<1> QED BY <1>1, <1>2 DEF Inv

(* The message is over.                                                    *)
LEMMA FinishStep ==
    ASSUME Inv, NEW p \in Prompts, NEW breaks \in BOOLEAN, Finish(p, breaks)
    PROVE  Inv'
<1> p \in Actors /\ ProcessInv /\ Typed
  BY DEF Actors, Inv, ProcessInv
<1>1. /\ at[p] = "talking" /\ at'[p] = "closing" /\ at' \in [Actors -> Places]
      /\ \A b \in Actors \ {p} : at'[b] = at[b]
  BY MovesEffect DEF Finish
<1>2. UNCHANGED <<sessions, graph, live, key>> /\ Process /\ (Marks \/ UNCHANGED <<restart, serve>>)
  BY DEF Finish, Stays, MayMark
<1>3. ProcessInv'
  <2>1. Counted(p) /\ Counted(p)' /\ \A b \in Actors \ {p} : Woken(b)
    BY <1>1 DEF Counted, Woken
  <2> QED BY <1>1, <1>2, <2>1, PromptProcess DEF Typed, graph
<1> QED BY <1>1, <1>2, <1>3, EntryStays, StaysUp

(* The budget of the release is over.                                      *)
LEMMA GiveUpStep ==
    ASSUME Inv, NEW p \in Prompts, GiveUp(p)
    PROVE  Inv'
<1> p \in Actors /\ ProcessInv /\ Typed
  BY DEF Actors, Inv, ProcessInv
<1>1. /\ at[p] = "closing" /\ at'[p] = "leaving" /\ at' \in [Actors -> Places]
      /\ \A b \in Actors \ {p} : at'[b] = at[b]
  BY MovesEffect DEF GiveUp
<1>2. UNCHANGED <<sessions, graph, live, key>> /\ Process /\ Marks
  BY DEF GiveUp, Stays
<1>3. ProcessInv'
  <2>1. Counted(p) /\ Counted(p)' /\ \A b \in Actors \ {p} : Woken(b)
    BY <1>1 DEF Counted, Woken
  <2> QED BY <1>1, <1>2, <2>1, PromptProcess DEF Typed, graph
<1> QED BY <1>1, <1>2, <1>3, EntryStays, StaysUp

(* The others hold what they held.                                         *)
LEMMA OthersHold ==
    ASSUME NEW p \in Prompts,
           \A q \in Prompts \ {p} : Woken(q) /\ lease'[q] = lease[q]
    PROVE  /\ \A q \in Prompts \ {p} : Holds(q)' = Holds(q)
           /\ Holds(p)' => Held' = Held \cup {p}
           /\ ~Holds(p)' => Held' = Held \ {p}
           /\ Cardinality(Held') \in Nat /\ Cardinality(Held) \in Nat
           /\ Holds(p)' /\ Holds(p) => Cardinality(Held') = Cardinality(Held)
           /\ Holds(p)' /\ ~Holds(p) => Cardinality(Held') = Cardinality(Held) + 1
           /\ ~Holds(p)' /\ Holds(p) => Cardinality(Held') = Cardinality(Held) - 1
           /\ ~Holds(p)' /\ ~Holds(p) => Cardinality(Held') = Cardinality(Held)
<1>1. \A q \in Prompts \ {p} : Holds(q)' = Holds(q)
  <2> SUFFICES ASSUME NEW q \in Prompts \ {p} PROVE Holds(q)' = Holds(q)
    OBVIOUS
  <2> QED BY DEF Holds, Woken
<1>2. Holds(p)' => Held' = Held \cup {p}
  BY <1>1 DEF Held
<1>3. ~Holds(p)' => Held' = Held \ {p}
  BY <1>1 DEF Held
<1>4. Holds(p) <=> p \in Held
  BY DEF Held
<1>5. Cardinality(Held \cup {p}) = IF p \in Held THEN Cardinality(Held) ELSE Cardinality(Held) + 1
  BY FiniteToo, FS_AddElement
<1>6. Cardinality(Held \ {p}) = IF p \in Held THEN Cardinality(Held) - 1 ELSE Cardinality(Held)
  BY FiniteToo, FS_RemoveElement
<1>7. Cardinality(Held') \in Nat /\ Cardinality(Held) \in Nat
  BY FiniteToo, HeldFinite, FS_CardinalityType
<1> QED
  BY <1>1, <1>2, <1>3, <1>4, <1>5, <1>6, <1>7

(* A prompt that nobody switches besides changes the entry.                *)
LEMMA EntryChanges ==
    ASSUME Graph, NEW p \in Prompts,
           \A q \in Prompts \ {p} : /\ at[q] \notin Switching
                                    /\ Woken(q) /\ mine'[q] = mine[q] /\ lease'[q] = lease[q]
                                    /\ Holds(q) => mcp'.there /\ mcp'.scan = mcp.scan
                                    /\ Holds(q) /\ mcp.on => mcp'.on,
           cond'.there, cond'.no > 0, cond.there => cond'.no = cond.no,
           OnCondition(p)', OnGraph(p)', FirstOrLast(p)', Fed(p)',
           mcp'.there => mcp'.under = cond'.no,
           Cardinality(Held') <= mcp'.refs,
           mcp'.on => mcp'.scan \in live'
    PROVE  Graph'
<1>1. \A q \in Prompts \ {p} : Holds(q)' = Holds(q) /\ at'[q] \notin Switching
  BY OthersHold DEF Woken
<1>2. ASSUME NEW q \in Prompts \ {p}
      PROVE  OnCondition(q)' /\ OnGraph(q)' /\ FirstOrLast(q)' /\ Fed(q)'
  <2>1. OnCondition(q) /\ OnGraph(q) /\ Fed(q)
    BY DEF Graph
  <2>2. OnCondition(q)'
    BY <1>1, <2>1 DEF OnCondition, Woken
  <2>3. OnGraph(q)'
    BY <1>1, <2>1 DEF OnGraph
  <2>4. FirstOrLast(q)'
    BY <1>1 DEF FirstOrLast
  <2>5. Fed(q)'
    <3> SUFFICES ASSUME at'[q] = "talking" /\ lease'[q] = "on" PROVE mcp'.on
      BY DEF Fed
    <3>1. at[q] = "talking" /\ lease[q] = "on"
      BY DEF Woken
    <3> QED BY <2>1, <3>1 DEF Fed, Holds
  <2> QED BY <2>2, <2>3, <2>4, <2>5
<1>3. \A q, r \in Prompts : at'[q] \in Switching /\ at'[r] \in Switching => q = r
  BY <1>1
<1> QED
  BY <1>2, <1>3 DEF Graph

(* A prompt takes the condition: it waits, joins, or makes the entry.      *)
LEMMA EnterEffect ==
    ASSUME ProcessInv, NEW p \in Prompts, Enter(p)
    PROVE  /\ ProcessInv' /\ at[p] = "mcp" /\ UNCHANGED <<serve, lease, live>>
           /\ mine' \in [Prompts -> Nat] /\ mine'[p] = CondOf(p)
           /\ \A q \in Prompts \ {p} : mine'[q] = mine[q]
           /\ \A b \in Actors \ {p} : at'[b] = at[b]
           /\ \/ MustWait(p) /\ at'[p] = "waiting" /\ mcp' = mcp
              \/ ~MustWait(p) /\ mcp.there /\ at'[p] = "rejoining" /\ mcp' = mcp
              \/ /\ ~mcp.there /\ at'[p] = "connecting"
                 /\ mcp' = [there |-> TRUE, scan |-> Scan(p), under |-> CondOf(p), refs |-> 1,
                            on |-> FALSE, pending |-> FALSE]
<1> p \in Actors /\ Typed
  BY DEF Actors, ProcessInv
<1>1. CondOf(p) \in Nat /\ mine \in [Prompts -> Nat] /\ cond \in [there : BOOLEAN, no : Nat]
  BY DEF CondOf, Typed
<1>2. at[p] = "mcp" /\ UNCHANGED <<serve, restart, sessions, lease, live, key>> /\ Process
  BY DEF Enter, Stays
<1>3. mine' = [mine EXCEPT ![p] = CondOf(p)]
  BY DEF Enter
<1>4. mine' \in [Prompts -> Nat] /\ mine'[p] = CondOf(p) /\ \A q \in Prompts \ {p} : mine'[q] = mine[q]
  BY <1>1, <1>3
<1>5. cond' \in [there : BOOLEAN, no : Nat]
  BY <1>1 DEF Enter
<1>6. \/ MustWait(p) /\ Moves(p, "waiting") /\ mcp' = mcp
      \/ ~MustWait(p) /\ mcp.there /\ Moves(p, "rejoining") /\ mcp' = mcp
      \/ /\ ~mcp.there /\ Moves(p, "connecting")
         /\ mcp' = [there |-> TRUE, scan |-> Scan(p), under |-> CondOf(p), refs |-> 1,
                    on |-> FALSE, pending |-> FALSE]
  BY DEF Enter, NoState
<1>7. mcp' \in McpType
  <2>1. Scan(p) \in Scans
    BY DEF Scan, Scans
  <2>2. [there |-> TRUE, scan |-> Scan(p), under |-> CondOf(p), refs |-> 1,
         on |-> FALSE, pending |-> FALSE] \in McpType
    BY <1>1, <2>1 DEF McpType
  <2>3. mcp \in McpType
    BY DEF Typed
  <2> QED BY <1>6, <2>2, <2>3
<1>8. /\ at' \in [Actors -> Places] /\ at'[p] \in {"waiting", "rejoining", "connecting"}
      /\ \A b \in Actors \ {p} : at'[b] = at[b]
      /\ \/ MustWait(p) /\ at'[p] = "waiting" /\ mcp' = mcp
         \/ ~MustWait(p) /\ mcp.there /\ at'[p] = "rejoining" /\ mcp' = mcp
         \/ /\ ~mcp.there /\ at'[p] = "connecting"
            /\ mcp' = [there |-> TRUE, scan |-> Scan(p), under |-> CondOf(p), refs |-> 1,
                       on |-> FALSE, pending |-> FALSE]
  BY <1>6, MovesEffect
<1>9. ProcessInv'
  <2>1. Counted(p) /\ Counted(p)' /\ \A b \in Actors \ {p} : Woken(b)
    BY <1>2, <1>8 DEF Counted, Woken
  <2>2. lease' \in [Prompts -> {"none", "on", "off"}] /\ lease'[p] = "none"
    BY <1>2 DEF ProcessInv, Typed, Owned
  <2> QED BY <1>2, <1>4, <1>5, <1>7, <1>8, <2>1, <2>2, PromptProcess
<1> QED BY <1>2, <1>4, <1>8, <1>9

(* The invariant after it.                                                 *)
LEMMA EnterStep ==
    ASSUME Inv, NEW p \in Prompts, Enter(p)
    PROVE  Inv'
<1> p \in Actors /\ ProcessInv /\ Typed
  BY DEF Actors, Inv, ProcessInv
<1> USE EnterEffect
<1>1. RefsFit'
  <2>1. Entered \subseteq Entered'
    BY DEF Entered, Actors
  <2>2. /\ Cardinality(Entered) \in Nat /\ Cardinality(Entered') \in Nat
        /\ Cardinality(Entered) <= Cardinality(Entered')
        /\ \A q \in Entered' \ Entered : Cardinality(Entered) + 1 <= Cardinality(Entered')
    BY <2>1, EnteredFinite, EntersOnly
  <2>3. CASE mcp' = mcp
    BY <2>2, <2>3 DEF Inv, RefsFit, Typed, McpType
  <2>4. CASE at'[p] = "connecting"
    <3>1. p \in Entered' \ Entered
      BY <2>4 DEF Entered
    <3>2. mcp'.refs = 1 /\ mcp'.there
      BY <2>4
    <3> QED BY <2>2, <3>1, <3>2 DEF RefsFit
  <2> QED BY <2>3, <2>4
<1>2. GraphInv'
  <2> SUFFICES ASSUME Up' PROVE Graph'
    BY DEF GraphInv
  <2>1. Graph
    BY DEF Inv, GraphInv, Up
  <2>2. /\ cond.there => CondOf(p) = cond.no
        /\ ~cond.there => CondOf(p) = cond.no + 1 /\ mine[p] = 0 /\ ~mcp.there
        /\ CondOf(p) > 0 /\ cond.no \in Nat
    BY <2>1 DEF Graph, OnCondition, CondOf, Typed
  <2>3. cond'.there /\ cond'.no = CondOf(p)
    <3>1. CASE mine[p] = 0
      BY <3>1 DEF Enter
    <3>2. CASE mine[p] # 0
      BY <3>2, <2>1, <2>2 DEF Enter, Graph, OnCondition
    <3> QED BY <3>1, <3>2
  <2>4. \A q \in Prompts : at[q] \notin Switching
    BY <2>1, <2>2, NobodySwitches DEF Enter
  <2>5. /\ \A q \in Prompts \ {p} : Woken(q) /\ mine'[q] = mine[q] /\ lease'[q] = lease[q]
        /\ ~Holds(p) /\ lease[p] = "none" /\ lease'[p] = "none"
    BY DEF Woken, Holds, Actors, ProcessInv, Owned
  <2>6. CASE mcp' = mcp
    <3>1. at'[p] \in {"waiting", "rejoining"} /\ ~Holds(p)'
      BY <2>5, <2>6 DEF Holds
    <3>2. Cardinality(Held') = Cardinality(Held)
      BY <2>5, <3>1, OthersHold
    <3>3. OnCondition(p)' /\ FirstOrLast(p)' /\ Fed(p)'
      BY <2>2, <2>3, <3>1 DEF OnCondition, FirstOrLast, Fed
    <3>4. OnGraph(p)'
      BY <3>1, <2>6 DEF OnGraph, MustWait
    <3>5. mcp'.there => mcp'.under = cond'.no
      BY <2>1, <2>2, <2>3, <2>6 DEF Graph
    <3>6. Cardinality(Held') <= mcp'.refs /\ (mcp'.on => mcp'.scan \in live')
      BY <2>1, <2>6, <3>2 DEF Graph
    <3>7. \A q \in Prompts \ {p} :
            /\ (Holds(q) => mcp'.there /\ mcp'.scan = mcp.scan)
            /\ (Holds(q) /\ mcp.on => mcp'.on)
      BY <2>1, <2>6 DEF Graph, OnGraph
    <3> QED
      BY <2>1, <2>2, <2>3, <2>4, <2>5, <3>3, <3>4, <3>5, <3>6, <3>7, EntryChanges
  <2>7. CASE at'[p] = "connecting"
    <3>1. ~mcp.there /\ Holds(p)'
      BY <2>7 DEF Holds
    <3>2. mcp'.there /\ mcp'.scan = Scan(p) /\ mcp'.under = CondOf(p) /\ mcp'.refs = 1 /\ ~mcp'.on
      BY <2>7
    <3>3. \A q \in Prompts : ~Holds(q)
      BY <2>1, <3>1 DEF Graph, OnGraph
    <3>4. Held = {} /\ Cardinality(Held) = 0
      BY <3>3, FS_EmptySet DEF Held
    <3>5. Held' = {p} /\ Cardinality(Held') = 1
      BY <2>5, <3>1, <3>4, OthersHold
    <3>6. OnCondition(p)' /\ FirstOrLast(p)' /\ Fed(p)' /\ OnGraph(p)'
      BY <2>2, <2>3, <2>7, <3>2, <3>5 DEF OnCondition, FirstOrLast, Fed, OnGraph
    <3>7. /\ Cardinality(Held') <= mcp'.refs /\ (mcp'.on => mcp'.scan \in live')
          /\ mcp'.there => mcp'.under = cond'.no
      BY <2>3, <3>2, <3>5
    <3>8. \A q \in Prompts \ {p} :
            /\ (Holds(q) => mcp'.there /\ mcp'.scan = mcp.scan)
            /\ (Holds(q) /\ mcp.on => mcp'.on)
      BY <3>3
    <3> HIDE EnterEffect
    <3> QED
      BY <2>1, <2>2, <2>3, <2>4, <2>5, <3>6, <3>7, <3>8, EntryChanges
  <2> QED BY <2>6, <2>7
<1> QED BY <1>1, <1>2 DEF Inv

(* The prompt has its lease, and talks.                                    *)
LEMMA LeasedEffect ==
    ASSUME ProcessInv, NEW p \in Prompts, NEW on \in BOOLEAN, Leased(p, on),
           at[p] \in {"connecting", "rejoining"}, mcp' \in McpType,
           UNCHANGED <<serve, restart, sessions, cond, mine>>, Process, Stays
    PROVE  /\ ProcessInv' /\ at'[p] = "talking" /\ \A b \in Actors \ {p} : at'[b] = at[b]
           /\ lease'[p] = (IF on THEN "on" ELSE "off")
           /\ \A q \in Prompts \ {p} : lease'[q] = lease[q]
<1> p \in Actors /\ Typed
  BY DEF Actors, ProcessInv
<1>1. at' \in [Actors -> Places] /\ at'[p] = "talking" /\ \A b \in Actors \ {p} : at'[b] = at[b]
  BY MovesEffect DEF Leased
<1>2. /\ lease' \in [Prompts -> {"none", "on", "off"}] /\ lease'[p] = (IF on THEN "on" ELSE "off")
      /\ \A q \in Prompts \ {p} : lease'[q] = lease[q]
  BY DEF Leased, Typed
<1>3. Counted(p) /\ Counted(p)' /\ \A b \in Actors \ {p} : Woken(b)
  BY <1>1 DEF Counted, Woken
<1>4. cond' \in [there : BOOLEAN, no : Nat] /\ mine' \in [Prompts -> Nat]
  BY DEF Typed
<1>5. ProcessInv'
  BY <1>1, <1>2, <1>3, <1>4, PromptProcess DEF Stays
<1> QED BY <1>1, <1>2, <1>5

(* One more prompt than before holds the entry, or the one that made it.   *)
LEMMA LeasedGraph ==
    ASSUME ProcessInv, Graph, NEW p \in Prompts, NEW on \in BOOLEAN,
           at[p] \in {"connecting", "rejoining"}, UNCHANGED <<cond, mine>>,
           at'[p] = "talking", \A b \in Actors \ {p} : at'[b] = at[b],
           lease'[p] = (IF on THEN "on" ELSE "off"),
           \A q \in Prompts \ {p} : lease'[q] = lease[q],
           mcp'.there, mcp'.scan = mcp.scan, mcp'.under = mcp.under, mcp'.on = on,
           at[p] = "connecting" => mcp'.refs = mcp.refs,
           at[p] = "rejoining" => mcp'.refs = mcp.refs + 1,
           mcp.on => on, on => Scan(p) \in live'
    PROVE  Graph'
<1>1. /\ OnCondition(p) /\ OnGraph(p) /\ FirstOrLast(p)
      /\ \A q \in Prompts \ {p} : at[q] \notin Switching
  BY DEF Graph
<1>2. mcp.there /\ mcp.scan = Scan(p) /\ cond.there /\ cond.no > 0 /\ mcp.under = cond.no
  BY <1>1 DEF OnGraph, Graph
<1>3. \A q \in Prompts \ {p} : Woken(q) /\ mine'[q] = mine[q]
  BY DEF Woken, Actors
<1>4. Holds(p)' /\ (Holds(p) <=> at[p] = "connecting")
  BY DEF Holds
<1>5. Cardinality(Held') <= mcp'.refs
  <2>1. Cardinality(Held) <= mcp.refs /\ Cardinality(Held) \in Nat /\ mcp.refs \in Nat
    BY HeldCounts DEF Graph, ProcessInv, Typed, McpType
  <2>2. CASE at[p] = "connecting"
    <3>1. Cardinality(Held') = Cardinality(Held)
      BY <1>3, <1>4, <2>2, OthersHold
    <3> QED BY <2>1, <2>2, <3>1
  <2>3. CASE at[p] = "rejoining"
    <3>1. Cardinality(Held') = Cardinality(Held) + 1
      BY <1>3, <1>4, <2>3, OthersHold
    <3> QED BY <2>1, <2>3, <3>1
  <2> QED BY <2>2, <2>3
<1>6. OnCondition(p)' /\ OnGraph(p)' /\ FirstOrLast(p)' /\ Fed(p)'
  BY <1>1, <1>2 DEF OnCondition, OnGraph, FirstOrLast, Fed
<1>7. \A q \in Prompts \ {p} :
        /\ (Holds(q) => mcp'.there /\ mcp'.scan = mcp.scan)
        /\ (Holds(q) /\ mcp.on => mcp'.on)
  OBVIOUS
<1>8. (mcp'.there => mcp'.under = cond'.no) /\ (mcp'.on => mcp'.scan \in live')
  BY <1>2
<1>9. cond'.there /\ cond'.no > 0 /\ (cond.there => cond'.no = cond.no)
  BY <1>2
<1> QED
  BY <1>1, <1>3, <1>5, <1>6, <1>7, <1>8, <1>9, EntryChanges

(* The references fit: unchanged, or one more for a prompt that enters.    *)
LEMMA RefsStay ==
    ASSUME Inv, NEW p \in Prompts, \A q \in Prompts \ {p} : at'[q] = at[q] \/ Woken(q),
           at[p] \in {"leaving", "over"} \cup {"connecting", "talking", "closing", "disconnecting"}
             => at'[p] \in {"connecting", "talking", "closing", "disconnecting", "leaving", "over"},
           \/ mcp'.refs = mcp.refs /\ mcp'.there = mcp.there
           \/ mcp'.refs = 0 /\ mcp'.there = FALSE
           \/ mcp'.refs = mcp.refs - 1 /\ mcp'.there = mcp.there /\ mcp.refs > 1
           \/ /\ mcp'.refs = mcp.refs + 1 /\ mcp'.there = mcp.there /\ mcp.there
              /\ at[p] = "rejoining" /\ at'[p] = "talking"
    PROVE  RefsFit'
<1>1. Entered \subseteq Entered'
  BY DEF Entered, Woken
<1>2. /\ Cardinality(Entered) \in Nat /\ Cardinality(Entered') \in Nat
      /\ Cardinality(Entered) <= Cardinality(Entered')
      /\ \A q \in Entered' \ Entered : Cardinality(Entered) + 1 <= Cardinality(Entered')
  BY <1>1, EnteredFinite, EntersOnly
<1>3. mcp.refs \in Nat /\ mcp.refs <= Cardinality(Entered) /\ (mcp.there <=> mcp.refs > 0)
  BY DEF Inv, RefsFit, ProcessInv, Typed, McpType
<1>4. CASE at[p] = "rejoining" /\ at'[p] = "talking" /\ mcp'.refs = mcp.refs + 1 /\ mcp'.there = mcp.there /\ mcp.there
  <2>1. p \in Entered' \ Entered
    BY <1>4 DEF Entered
  <2>2. Cardinality(Entered) + 1 <= Cardinality(Entered')
    BY <1>2, <2>1
  <2> QED BY <1>2, <1>3, <1>4, <2>2 DEF RefsFit
<1>5. CASE mcp'.refs = mcp.refs /\ mcp'.there = mcp.there
  BY <1>2, <1>3, <1>5 DEF RefsFit
<1>6. CASE mcp'.refs = 0 /\ mcp'.there = FALSE
  BY <1>2, <1>6 DEF RefsFit
<1>7. CASE mcp'.refs = mcp.refs - 1 /\ mcp'.there = mcp.there /\ mcp.refs > 1
  BY <1>2, <1>3, <1>7 DEF RefsFit
<1> QED BY <1>4, <1>5, <1>6, <1>7

(* The graph is connected,                                                 *)
LEMMA ConnectedStep ==
    ASSUME Inv, NEW p \in Prompts, Connected(p)
    PROVE  Inv'
<1> p \in Actors /\ ProcessInv /\ Typed
  BY DEF Actors, Inv, ProcessInv
<1>1. /\ at[p] = "connecting" /\ live' = {Scan(p)} /\ Leased(p, TRUE) /\ mcp' = [mcp EXCEPT !.on = TRUE]
      /\ UNCHANGED <<serve, restart, sessions, cond, mine>> /\ Process /\ Stays
  BY DEF Connected
<1>2. /\ mcp' \in McpType /\ mcp'.there = mcp.there /\ mcp'.scan = mcp.scan /\ mcp'.under = mcp.under
      /\ mcp'.refs = mcp.refs /\ mcp'.on = TRUE
  BY <1>1 DEF Typed, McpType
<1>3. /\ ProcessInv' /\ at'[p] = "talking" /\ \A b \in Actors \ {p} : at'[b] = at[b]
      /\ lease'[p] = "on" /\ \A q \in Prompts \ {p} : lease'[q] = lease[q]
  BY <1>1, <1>2, LeasedEffect
<1>4. RefsFit'
  BY <1>1, <1>2, <1>3, RefsStay DEF Actors
<1>5. GraphInv'
  <2> SUFFICES ASSUME Up' PROVE Graph'
    BY DEF GraphInv
  <2>1. Graph
    BY <1>1 DEF Inv, GraphInv, Up
  <2>2. mcp.there
    BY <1>1, <2>1 DEF Graph, OnGraph
  <2> QED
    BY <1>1, <1>2, <1>3, <2>1, <2>2, LeasedGraph
<1> QED BY <1>3, <1>4, <1>5 DEF Inv

(* or it is not.                                                           *)
LEMMA NotConnectedStep ==
    ASSUME Inv, NEW p \in Prompts, NEW now, NotConnected(p, now)
    PROVE  Inv'
<1> p \in Actors /\ ProcessInv /\ Typed
  BY DEF Actors, Inv, ProcessInv
<1>1. /\ at[p] = "connecting" /\ Leased(p, FALSE)
      /\ mcp' = IF Mine(p) THEN [mcp EXCEPT !.pending = Scan(p) \in now] ELSE mcp
      /\ UNCHANGED <<serve, restart, sessions, cond, mine>> /\ Process /\ Stays
  BY DEF NotConnected
<1>2. /\ mcp' \in McpType /\ mcp'.there = mcp.there /\ mcp'.scan = mcp.scan /\ mcp'.under = mcp.under
      /\ mcp'.refs = mcp.refs /\ mcp'.on = mcp.on
  <2>1. CASE Mine(p)
    <3>1. mcp' = [mcp EXCEPT !.pending = Scan(p) \in now] /\ (Scan(p) \in now) \in BOOLEAN
      BY <1>1, <2>1
    <3> QED BY <3>1 DEF Typed, McpType
  <2>2. CASE ~Mine(p)
    BY <1>1, <2>2 DEF Typed
  <2> QED BY <2>1, <2>2
<1>3. /\ ProcessInv' /\ at'[p] = "talking" /\ \A b \in Actors \ {p} : at'[b] = at[b]
      /\ lease'[p] = "off" /\ \A q \in Prompts \ {p} : lease'[q] = lease[q]
  BY <1>1, <1>2, LeasedEffect
<1>4. RefsFit'
  BY <1>1, <1>2, <1>3, RefsStay DEF Actors
<1>5. GraphInv'
  <2> SUFFICES ASSUME Up' PROVE Graph'
    BY DEF GraphInv
  <2>1. Graph
    BY <1>1 DEF Inv, GraphInv, Up
  <2>2. mcp.there /\ ~mcp.on
    BY <1>1, <2>1 DEF Graph, OnGraph, FirstOrLast
  <2>3. mcp'.on = FALSE
    BY <1>2, <2>2 DEF Typed, McpType
  <2> QED
    BY <1>1, <1>2, <1>3, <2>1, <2>2, <2>3, LeasedGraph
<1> QED BY <1>3, <1>4, <1>5 DEF Inv

(* A prompt joins the entry of its scan.                                   *)
LEMMA RejoinedStep ==
    ASSUME Inv, NEW p \in Prompts, NEW on \in BOOLEAN, NEW now, Rejoined(p, on, now)
    PROVE  Inv'
<1> p \in Actors /\ ProcessInv /\ Typed
  BY DEF Actors, Inv, ProcessInv
<1>1. /\ at[p] = "rejoining" /\ Leased(p, on) /\ live' = now /\ now \in {live, live \cup {Scan(p)}}
      /\ UNCHANGED <<serve, restart, sessions, cond, mine>> /\ Process /\ Stays
  BY DEF Rejoined
<1>2. CASE Mine(p)
  <2>1. mcp' = [mcp EXCEPT !.refs = @ + 1, !.on = on, !.pending = ~on /\ Scan(p) \in now]
    BY <1>2 DEF Rejoined
  <2>2. mcp' = [there |-> mcp.there, scan |-> mcp.scan, under |-> mcp.under, refs |-> mcp.refs + 1,
                on |-> on, pending |-> ~on /\ Scan(p) \in now]
    BY <2>1 DEF Typed, McpType
  <2>3. (~on /\ Scan(p) \in now) \in BOOLEAN
    OBVIOUS
  <2>4. /\ mcp' \in McpType /\ mcp'.there = mcp.there /\ mcp'.scan = mcp.scan /\ mcp'.under = mcp.under
        /\ mcp'.refs = mcp.refs + 1 /\ mcp'.on = on
    BY <2>2, <2>3 DEF Typed, McpType
  <2>5. /\ ProcessInv' /\ at'[p] = "talking" /\ \A b \in Actors \ {p} : at'[b] = at[b]
        /\ lease'[p] = (IF on THEN "on" ELSE "off")
        /\ \A q \in Prompts \ {p} : lease'[q] = lease[q]
    BY <1>1, <2>4, LeasedEffect
  <2>6. RefsFit'
    BY <1>1, <1>2, <2>4, <2>5, RefsStay DEF Actors, Mine
  <2>7. GraphInv'
    <3> SUFFICES ASSUME Up' PROVE Graph'
      BY DEF GraphInv
    <3>1. Graph
      BY <1>1 DEF Inv, GraphInv, Up
    <3>2. mcp.there /\ mcp.scan = Scan(p) /\ (mcp.on => Scan(p) \in live)
      BY <1>1, <3>1 DEF Graph, OnGraph
    <3>3. mcp.on => on
      BY <1>2, <3>2 DEF Rejoined
    <3>4. on => Scan(p) \in live'
      <4>1. on => mcp.on \/ Scan(p) \in now
        BY <1>2 DEF Rejoined
      <4> QED BY <1>1, <3>2, <4>1
    <3> QED
      BY <1>1, <2>4, <2>5, <3>1, <3>2, <3>3, <3>4, LeasedGraph
  <2> QED BY <2>5, <2>6, <2>7 DEF Inv
<1>3. CASE ~Mine(p)
  <2>1. mcp' = mcp
    BY <1>3 DEF Rejoined
  <2>2. /\ ProcessInv' /\ at'[p] = "talking" /\ \A b \in Actors \ {p} : at'[b] = at[b]
    BY <1>1, <2>1, LeasedEffect DEF Typed
  <2>3. RefsFit'
    BY <1>1, <2>1, <2>2, RefsStay DEF Actors
  <2>4. ~Up'
    BY <1>1, <1>3 DEF Up, Inv, GraphInv, Graph, OnGraph, OnCondition, Mine
  <2> QED BY <2>2, <2>3, <2>4 DEF Inv, GraphInv
<1> QED BY <1>2, <1>3

(* The entry that is given back, or forgotten by its last user.            *)
LEMMA CloseEffect ==
    ASSUME ProcessInv, NEW p \in Prompts, Close(p)
    PROVE  /\ ProcessInv' /\ at[p] = "closing" /\ UNCHANGED <<serve, cond, lease, live>>
           /\ \A b \in Actors \ {p} : at'[b] = at[b]
           /\ \A q \in Prompts \ {p} : mine'[q] = mine[q]
           /\ \/ UNCHANGED <<mcp, mine>> /\ at'[p] = "leaving"
              \/ /\ lease[p] # "none" /\ cond.there /\ LockFree(cond.no)
                 /\ mcp.there /\ mcp.scan = Scan(p)
                 /\ \/ /\ LastOne(p) /\ at'[p] = "disconnecting" /\ mine'[p] = cond.no /\ mcp' = mcp
                    \/ /\ ~LastOne(p) /\ at'[p] = "leaving" /\ mine' = mine
                       /\ mcp' = [mcp EXCEPT !.refs = @ - 1]
<1> p \in Actors /\ Typed
  BY DEF Actors, ProcessInv
<1>1. at[p] = "closing" /\ UNCHANGED <<serve, restart, sessions, cond, lease, live, key>> /\ Process
  BY DEF Close, Stays
<1>2. \/ Moves(p, "leaving") /\ UNCHANGED <<mcp, mine>>
      \/ /\ lease[p] # "none" /\ cond.there /\ LockFree(cond.no)
         /\ mcp.there /\ mcp.scan = Scan(p)
         /\ \/ LastOne(p) /\ Moves(p, "disconnecting") /\ mine' = [mine EXCEPT ![p] = cond.no] /\ mcp' = mcp
            \/ ~LastOne(p) /\ Moves(p, "leaving") /\ mine' = mine /\ mcp' = [mcp EXCEPT !.refs = @ - 1]
  BY DEF Close
<1>3. /\ at' \in [Actors -> Places] /\ \A b \in Actors \ {p} : at'[b] = at[b]
      /\ \/ UNCHANGED <<mcp, mine>> /\ at'[p] = "leaving"
         \/ /\ lease[p] # "none" /\ cond.there /\ LockFree(cond.no)
            /\ mcp.there /\ mcp.scan = Scan(p)
            /\ \/ /\ LastOne(p) /\ at'[p] = "disconnecting" /\ mine' = [mine EXCEPT ![p] = cond.no] /\ mcp' = mcp
               \/ /\ ~LastOne(p) /\ at'[p] = "leaving" /\ mine' = mine
                  /\ mcp' = [mcp EXCEPT !.refs = @ - 1]
  BY <1>2, MovesEffect
<1>4. mine' \in [Prompts -> Nat] /\ \A q \in Prompts \ {p} : mine'[q] = mine[q]
  BY <1>3 DEF Typed
<1>5. mcp' \in McpType
  BY <1>3 DEF Typed, McpType, LastOne
<1>6. ProcessInv'
  <2>1. Counted(p) /\ Counted(p)' /\ \A b \in Actors \ {p} : Woken(b)
    BY <1>1, <1>3 DEF Counted, Woken
  <2>2. lease' \in [Prompts -> {"none", "on", "off"}] /\ cond' \in [there : BOOLEAN, no : Nat]
    BY <1>1 DEF Typed
  <2>3. lease'[p] # "none" => at'[p] \in {"talking", "closing", "disconnecting", "leaving"}
    BY <1>3
  <2> QED BY <1>1, <1>3, <1>4, <1>5, <2>1, <2>2, <2>3, PromptProcess
<1>7. mine' = [mine EXCEPT ![p] = cond.no] => mine'[p] = cond.no
  BY DEF Typed
<1> QED BY <1>1, <1>3, <1>4, <1>6, <1>7

(* A reference is given back, or the last one is taken along.              *)
LEMMA CloseStep ==
    ASSUME Inv, NEW p \in Prompts, Close(p)
    PROVE  Inv'
<1> p \in Actors /\ ProcessInv /\ Typed
  BY DEF Actors, Inv, ProcessInv
<1>1. /\ ProcessInv' /\ at[p] = "closing" /\ UNCHANGED <<serve, cond, lease, live>>
      /\ \A b \in Actors \ {p} : at'[b] = at[b] 
      /\ \A q \in Prompts \ {p} : mine'[q] = mine[q]
  BY CloseEffect
<1>2. CASE UNCHANGED <<mcp, mine>> /\ at'[p] = "leaving"
  BY <1>1, <1>2, EntryStays DEF Up, graph
<1>3. CASE /\ lease[p] # "none" /\ cond.there /\ LockFree(cond.no)
           /\ mcp.there /\ mcp.scan = Scan(p)
           /\ \/ LastOne(p) /\ at'[p] = "disconnecting" /\ mine'[p] = cond.no /\ mcp' = mcp
              \/ /\ ~LastOne(p) /\ at'[p] = "leaving" /\ mine' = mine
                 /\ mcp' = [mcp EXCEPT !.refs = @ - 1]
  <2>1. /\ mcp'.there = mcp.there /\ mcp'.scan = mcp.scan /\ mcp'.under = mcp.under /\ mcp'.on = mcp.on
        /\ at'[p] = "disconnecting" => mcp'.refs = mcp.refs /\ mcp.refs <= 1
        /\ at'[p] = "leaving" => mcp'.refs = mcp.refs - 1 /\ mcp.refs > 1
        /\ mcp.refs \in Nat
    <3>1. mcp \in McpType
      BY DEF Typed
    <3>2. CASE mcp' = mcp /\ LastOne(p) /\ at'[p] = "disconnecting"
      BY <3>1, <3>2 DEF McpType, LastOne
    <3>3. CASE mcp' = [mcp EXCEPT !.refs = @ - 1] /\ ~LastOne(p) /\ at'[p] = "leaving"
      BY <3>1, <3>3 DEF McpType, LastOne
    <3> QED BY <1>3, <3>2, <3>3
  <2>2. RefsFit'
    BY <1>1, <1>3, <2>1, RefsStay DEF Actors
  <2>3. GraphInv'
    <3> SUFFICES ASSUME Up' PROVE Graph'
      BY DEF GraphInv
    <3>1. Graph
      BY <1>1 DEF Inv, GraphInv, Up
    <3>2. \A q \in Prompts : at[q] \notin Switching
      BY <1>3, <3>1, NobodySwitches
    <3>3. /\ \A q \in Prompts \ {p} : Woken(q) /\ mine'[q] = mine[q] /\ lease'[q] = lease[q]
          /\ Holds(p) /\ ~Holds(p)'
      BY <1>1, <1>3 DEF Woken, Actors, Holds
    <3>4. /\ Cardinality(Held') = Cardinality(Held) - 1 /\ Held' = Held \ {p}
          /\ Cardinality(Held') \in Nat /\ Cardinality(Held) \in Nat
      BY <3>3, OthersHold
    <3>5. Cardinality(Held) <= mcp.refs
      BY <3>1 DEF Graph
    <3>6. Cardinality(Held') <= mcp'.refs
      BY <1>3, <2>1, <3>4, <3>5
    <3>7. at'[p] = "disconnecting" => mcp'.refs = 1 /\ Held' = {}
      <4> SUFFICES ASSUME at'[p] = "disconnecting" PROVE mcp'.refs = 1 /\ Held' = {}
        OBVIOUS
      <4>1. Cardinality(Held') = 0 /\ mcp'.refs = 1
        BY <2>1, <3>4, <3>5
      <4> QED BY <4>1, HeldFinite, FS_EmptySet
    <3>8. cond.no > 0
      BY <1>3, <3>1 DEF Graph
    <3>9. OnCondition(p)' /\ OnGraph(p)' /\ FirstOrLast(p)' /\ Fed(p)'
      <4>1. OnCondition(p)'
        BY <1>1, <1>3, <3>1, <3>8 DEF OnCondition, Graph
      <4>2. OnGraph(p)' /\ Fed(p)'
        BY <1>3, <2>1, <3>3 DEF OnGraph, Fed
      <4>3. FirstOrLast(p)'
        BY <1>3, <3>7 DEF FirstOrLast
      <4> QED BY <4>1, <4>2, <4>3
    <3>10. /\ mcp'.there => mcp'.under = cond'.no
           /\ mcp'.on => mcp'.scan \in live'
           /\ cond'.there /\ cond'.no > 0 /\ (cond.there => cond'.no = cond.no)
      BY <1>1, <1>3, <2>1, <3>1, <3>8 DEF Graph
    <3>11. \A q \in Prompts \ {p} :
            /\ (Holds(q) => mcp'.there /\ mcp'.scan = mcp.scan)
            /\ (Holds(q) /\ mcp.on => mcp'.on)
      BY <1>3, <2>1
    <3> QED
      BY <3>1, <3>2, <3>3, <3>6, <3>9, <3>10, <3>11, EntryChanges
  <2> QED BY <1>1, <2>2, <2>3 DEF Inv
<1> QED BY <1>2, <1>3, CloseEffect

(* The entry goes, with whoever made it or is its last user.               *)
LEMMA EntryGoes ==
    ASSUME Inv, ProcessInv', NEW p \in Prompts, at[p] \in {"connecting", "disconnecting"},
           at'[p] = (IF at[p] = "connecting" THEN "closing" ELSE "leaving"),
           \A b \in Actors \ {p} : Woken(b),
           mcp' = NoState, UNCHANGED <<cond, mine, lease>>, Up' => Up
    PROVE  Inv'
<1> p \in Actors /\ ProcessInv
  BY DEF Actors, Inv
<1>1. mcp'.refs = 0 /\ mcp'.there = FALSE /\ mcp'.on = FALSE
  BY DEF NoState
<1>2. RefsFit'
  BY <1>1, RefsStay DEF Actors
<1>3. GraphInv'
  <2> SUFFICES ASSUME Up' PROVE Graph'
    BY DEF GraphInv
  <2>1. Graph
    BY DEF Inv, GraphInv
  <2>2. OnCondition(p) /\ OnGraph(p) /\ FirstOrLast(p)
    BY <2>1 DEF Graph
  <2>3. \A q \in Prompts \ {p} : /\ at[q] \notin Switching /\ Woken(q) /\ ~Holds(q)
                                 /\ mine'[q] = mine[q] /\ lease'[q] = lease[q]
    BY <2>1, <2>2 DEF Graph, FirstOrLast, Held, Actors
  <2>4. ~Holds(p)'
    BY DEF Holds, ProcessInv, Owned
  <2>5. Held' = {} /\ Cardinality(Held') = 0
    <3>1. Held' \subseteq {}
      BY <2>3, <2>4, OthersHold DEF Held
    <3> QED BY <3>1, FS_EmptySet
  <2>6. OnCondition(p)' /\ OnGraph(p)' /\ FirstOrLast(p)' /\ Fed(p)'
    BY <2>2, <2>4 DEF OnCondition, OnGraph, FirstOrLast, Fed
  <2>7. cond'.there /\ cond'.no > 0 /\ cond'.no = cond.no
    BY <2>1, <2>2 DEF Graph, OnCondition
  <2> QED
    BY <1>1, <2>1, <2>3, <2>5, <2>6, <2>7, EntryChanges
<1> QED BY <1>2, <1>3 DEF Inv

(* The last one has disconnected.                                          *)
LEMMA DisconnectStep ==
    ASSUME Inv, NEW p \in Prompts, NEW now, NEW breaks \in BOOLEAN, Disconnect(p, now, breaks)
    PROVE  Inv'
<1> p \in Actors /\ ProcessInv /\ Typed
  BY DEF Actors, Inv, ProcessInv
<1>1. /\ at[p] = "disconnecting" /\ mcp' = NoState /\ Wakes(p, mine[p], "leaving")
      /\ UNCHANGED <<sessions, cond, mine, lease, key>> /\ Process /\ (Marks \/ UNCHANGED <<restart, serve>>)
  BY DEF Disconnect, Stays, MayMark
<1>2. at' \in [Actors -> Places] /\ at'[p] = "leaving" /\ \A b \in Actors \ {p} : Woken(b)
  BY <1>1, WakesEffect
<1>3. Counted(p) /\ Counted(p)'
  BY <1>1, <1>2 DEF Counted
<1>4. mcp' \in McpType
  BY <1>1 DEF NoState, McpType, Scans
<1>5. ProcessInv'
  BY <1>1, <1>2, <1>3, <1>4, PromptProcess DEF Typed
<1> QED BY <1>1, <1>2, <1>5, EntryGoes, StaysUp

(* A deadline while a prompt waits for its graph.                          *)
LEMMA AbandonStep ==
    ASSUME Inv, NEW p \in Prompts, NEW now, NEW breaks \in BOOLEAN, Abandon(p, now, breaks)
    PROVE  Inv'
<1> p \in Actors /\ ProcessInv /\ Typed
  BY DEF Actors, Inv, ProcessInv
<1>1. /\ UNCHANGED <<sessions, cond, mine, lease, key>> /\ Process /\ (Marks \/ UNCHANGED <<restart, serve>>)
      /\ at[p] \in {"mcp", "waiting", "connecting", "rejoining"} /\ lease[p] = "none"
  BY DEF Abandon, Stays, MayMark, ProcessInv, Owned
<1>2. CASE at[p] = "connecting"
  <2>1. Wakes(p, mine[p], "closing") /\ mcp' = NoState
    BY <1>2 DEF Abandon
  <2>2. at' \in [Actors -> Places] /\ at'[p] = "closing" /\ \A b \in Actors \ {p} : Woken(b)
    BY <2>1, WakesEffect
  <2>3. Counted(p) /\ Counted(p)'
    BY <1>2, <2>2 DEF Counted
  <2>4. mcp' \in McpType
    BY <2>1 DEF NoState, McpType, Scans
  <2>5. ProcessInv'
    BY <1>1, <2>2, <2>3, <2>4, PromptProcess DEF Typed
  <2> QED BY <1>1, <1>2, <2>1, <2>2, <2>5, EntryGoes, StaysUp
<1>3. CASE at[p] # "connecting"
  <2>1. Moves(p, "closing") /\ UNCHANGED <<mcp, live>>
    BY <1>3 DEF Abandon
  <2>2. at' \in [Actors -> Places] /\ at'[p] = "closing" /\ \A b \in Actors \ {p} : at'[b] = at[b]
    BY <2>1, MovesEffect
  <2>3. Counted(p) /\ Counted(p)' /\ \A b \in Actors \ {p} : Woken(b)
    BY <1>1, <2>2 DEF Counted, Woken
  <2>4. ProcessInv'
    BY <1>1, <2>1, <2>2, <2>3, PromptProcess DEF Typed
  <2> QED BY <1>1, <1>3, <2>1, <2>2, <2>4, EntryStays, StaysUp DEF graph
<1> QED BY <1>2, <1>3

-----------------------------------------------------------------------------
(* Every step.                                                             *)

Uses(p) ==
    \/ Enter(p) \/ Connected(p) \/ Close(p) \/ GiveUp(p)
    \/ \E breaks \in BOOLEAN : Finish(p, breaks)
    \/ \E now \in Reachable(p) :
         \/ \E on \in BOOLEAN : Rejoined(p, on, now)
         \/ NotConnected(p, now)
         \/ \E breaks \in BOOLEAN : Disconnect(p, now, breaks) \/ Abandon(p, now, breaks)

(* The four kinds of steps.                                                *)
LEMMA Kinds ==
    ASSUME Next
    PROVE  \/ \E a \in Actors : Acquires(a)
           \/ \E p \in Prompts : Leave(p)
           \/ \E p \in Prompts : Uses(p)
           \/ Change \/ Crash
<1>1. CASE \E a \in Actors : Begin(a) \/ Step(a)
  <2>1. PICK a \in Actors : Begin(a) \/ Step(a)
    BY <1>1
  <2>2. CASE Begin(a) \/ Acquire(a) \/ (a \in Listers /\ List(a)) \/ (a \in Updaters /\ Withdraw(a))
    BY <2>2 DEF Acquires
  <2>3. CASE a \in Prompts /\ Prompt(a)
    <3>1. Acquires(a) \/ Leave(a) \/ Uses(a)
      BY <2>3 DEF Prompt, Acquires, Uses
    <3> QED BY <2>3, <3>1
  <2>4. CASE a \in Prompts /\ Deadline(a)
    <3>1. Acquires(a) \/ Uses(a)
      BY <2>4 DEF Deadline, Acquires, Uses
    <3> QED BY <2>4, <3>1
  <2> QED BY <2>1, <2>2, <2>3, <2>4 DEF Step
<1> QED BY <1>1 DEF Next

(* Who uses the process preserves the invariant.                           *)
LEMMA UsesInv ==
    ASSUME Inv, NEW p \in Prompts, Uses(p)
    PROVE  Inv'
BY EnterStep, ConnectedStep, CloseStep, GiveUpStep, FinishStep, RejoinedStep, NotConnectedStep,
   DisconnectStep, AbandonStep DEF Uses

(* A change, or a crash, does.                                             *)
LEMMA ChangeInv ==
    ASSUME Inv, Change \/ Crash
    PROVE  Inv'
<1>1. ProcessInv'
  BY ChangeStep DEF Inv
<1>2. UNCHANGED <<at, graph>>
  BY DEF Change, Crash
<1>3. RefsFit'
  BY <1>2 DEF Inv, RefsFit, Entered, graph
<1>4. GraphInv'
  <2>1. CASE Change
    <3>1. UNCHANGED <<at, graph, live, serve>>
      BY <2>1 DEF Change
    <3>2. Held' = Held
      BY <3>1 DEF Held, Holds, graph
    <3> QED
      BY <3>1, <3>2 DEF Inv, GraphInv, Up, Graph, OnCondition, OnGraph, FirstOrLast, Fed, Holds, graph
  <2>2. CASE Crash
    <3>1. serve' = [at |-> "dead", cfg |-> serve.cfg, ready |-> FALSE, broken |-> serve.broken]
      BY <2>2 DEF Crash, Inv, ProcessInv, Typed, ServeType
    <3> QED BY <3>1 DEF GraphInv, Up
  <2> QED BY <2>1, <2>2
<1> QED BY <1>1, <1>3, <1>4 DEF Inv

(* It holds initially,                                                     *)
LEMMA InitInv == Init => Inv
<1> SUFFICES ASSUME Init PROVE Inv
  OBVIOUS
<1>1. Typed /\ Marked
  <2>1. serve \in ServeType /\ ~serve.broken
    BY DEF Init, NoServe, ServeType
  <2>2. mcp \in McpType
    BY DEF Init, NoState, McpType, Scans
  <2>3. cond \in [there : BOOLEAN, no : Nat] /\ wanted \in 0..MaxChanges /\ key \in [Actors -> 0..MaxChanges]
    BY DEF Init
  <2> QED
    BY <2>1, <2>2, <2>3 DEF Init, Typed, Marked
<1>2. Using = {} /\ Fetching = {}
  BY DEF Init, Using, Fetching, Counted, Actors
<1>3. Counts
  BY <1>2, FS_EmptySet DEF Init, Counts
<1>4. LockHeld /\ Placed /\ AllReady /\ Owned
  <2>1. \A a \in Actors : at[a] = "idle" /\ lock # a
    BY DEF Init
  <2>2. \A p \in Prompts : mine[p] = 0 /\ lease[p] = "none" /\ p \in Actors
    BY DEF Init, Actors
  <2> QED
    BY <2>1, <2>2 DEF LockHeld, Holding, Locks, Placed, AllReady, Ready, Owned
<1>5. RefsFit
  BY HeldCounts DEF Init, RefsFit, NoState
<1>6. ~Up
  BY DEF Init, Up, NoServe
<1> QED BY <1>1, <1>3, <1>4, <1>5, <1>6 DEF Inv, ProcessInv, GraphInv

(* and every step preserves it.                                            *)
LEMMA InvStep == Inv /\ [Next]_vars => Inv'
<1> SUFFICES ASSUME Inv, [Next]_vars PROVE Inv'
  OBVIOUS
<1>1. CASE Next
  BY <1>1, Kinds, AcquireInv, LeaveInv, UsesInv, ChangeInv
<1>2. CASE UNCHANGED vars
  <2>1. UNCHANGED <<serve, dirty, restart, moved, wanted, lock, sessions, listings, at, key, mcp,
                    cond, mine, lease, live, crashes>>
    BY <1>2 DEF vars, flags, graph
  <2>2. ProcessInv'
    BY <2>1 DEF Inv, ProcessInv, Typed, Counts, Using, Fetching, Counted, LockHeld, Holding, Locks,
                Placed, AllReady, Ready, Idle, Marked, Owned
  <2>3. RefsFit'
    BY <2>1 DEF Inv, RefsFit, Entered
  <2>4. GraphInv'
    BY <2>1 DEF Inv, GraphInv, Up, Graph, OnCondition, OnGraph, FirstOrLast, Fed, Held, Holds
  <2> QED BY <2>2, <2>3, <2>4 DEF Inv
<1> QED BY <1>1, <1>2

(* The inductive invariant holds of every reachable state.                 *)
THEOREM InvHolds == Spec => []Inv
BY InitInv, InvStep, PTL DEF Spec

(* The counters count, the lock is held by whoever is past it, and the     *)
(* references never exceed the prompts.                                    *)
THEOREM TypeCorrect == Spec => []TypeOK
<1>1. Inv => TypeOK
  <2> SUFFICES ASSUME Inv PROVE TypeOK
    OBVIOUS
  <2>1. mcp.refs \in 0..Cardinality(Prompts) /\ (mcp.there <=> mcp.refs > 0)
    <3>1. Entered \subseteq Prompts
      BY DEF Entered
    <3>2. Cardinality(Entered) <= Cardinality(Prompts) /\ Cardinality(Prompts) \in Nat
      BY <3>1, Finite, FS_Subset, FS_CardinalityType
    <3> QED BY <3>2, HeldCounts DEF Inv, RefsFit, ProcessInv, Typed, McpType
  <2>2. flags \in BOOLEAN \X BOOLEAN \X BOOLEAN
    BY DEF flags, Inv, ProcessInv, Typed
  <2>3. \A p \in Prompts : at[p] \in Waits \/ Counted(p)
    BY DEF Inv, ProcessInv, Placed, Counted
  <2> QED
    BY <2>1, <2>2, <2>3 DEF TypeOK, Inv, ProcessInv, Typed, ServeType, Counts, Using, Fetching,
                            LockHeld, Holding, Placed
<1> QED BY <1>1, InvHolds, PTL

-----------------------------------------------------------------------------
(* What the steps promise.                                                 *)

(* Who uses the process neither ends it nor counts again.                  *)
LEMMA UsersKeepIt ==
    ASSUME Inv, NEW p \in Prompts, Uses(p) \/ Leave(p)
    PROVE  /\ serve'.at = serve.at /\ sessions # 0 /\ sessions \in Nat /\ sessions' \in Int /\ sessions' <= sessions
<1> ProcessInv /\ Typed
  BY DEF Inv, ProcessInv
<1>1. Counted(p)
  BY DEF Uses, Leave, Enter, Connected, Close, GiveUp, Finish, Rejoined, NotConnected, Disconnect,
         Abandon, Counted
<1>2. sessions # 0 /\ sessions \in Nat
  BY <1>1, Counters DEF ProcessInv, Using
<1>3. CASE Leave(p)
  BY <1>2, <1>3 DEF Leave, GivesBack
<1>4. CASE Uses(p)
  <2>1. sessions' = sessions
    BY <1>4 DEF Uses, Enter, Connected, Close, GiveUp, Finish, Rejoined, NotConnected, Disconnect, Abandon
  <2>2. Marks \/ UNCHANGED <<restart, serve>>
    BY <1>4 DEF Uses, Enter, Connected, Close, GiveUp, Finish, Rejoined, NotConnected, Disconnect, Abandon,
                MayMark
  <2>3. serve'.at = serve.at
    BY <2>2, MarksEffect
  <2> QED BY <1>2, <2>1, <2>3
<1> QED BY <1>3, <1>4

(* Who acquires the process ends it only while nobody uses it,             *)
LEMMA AcquirersWait ==
    ASSUME Inv, NEW a \in Actors, Acquires(a), Up, serve'.at # "up"
    PROVE  Idle
<1> ProcessInv /\ Typed
  BY DEF Inv, ProcessInv
<1>1. Ready(a)
  BY DEF ProcessInv, AllReady
<1>2. CASE Stopped(a) \/ StartFails(a)
  BY <1>1, <1>2 DEF Stopped, StartFails, Ready
<1>3. CASE Withdraw(a)
  BY <1>1, <1>3 DEF Withdraw, Ready, Up
<1>4. CASE Begin(a) \/ Drain(a) \/ Fetched(a) \/ ListNow(a) \/ Reuse(a)
  BY <1>4 DEF Begin, Drain, Fetched, ListNow, Reuse, Up
<1>5. CASE Reload(a) \/ NotProbed(a)
  BY <1>5, MarksEffect DEF Reload, NotProbed, Notices, Marks, Up
<1>6. CASE StopFails(a)
  BY <1>6, MarksEffect DEF StopFails, Up
<1>7. CASE Spawn(a)
  BY <1>7 DEF Spawn
<1>8. CASE Healthy(a) \/ Probed(a)
  <2>1. serve' = [serve EXCEPT !.ready = TRUE]
    BY <1>8 DEF Healthy, Probed
  <2> QED BY <2>1 DEF Up, Typed, ServeType
<1> QED
  BY <1>2, <1>3, <1>4, <1>5, <1>6, <1>7, <1>8 DEF Acquires, Acquire, List

(* and is given one that nobody declared unusable, of his own              *)
(* configuration if he is alone.                                           *)
LEMMA AcquirersGet ==
    ASSUME Inv, NEW a \in Actors, Acquires(a)
    PROVE  /\ sessions' > sessions => ~serve'.broken
           /\ a \in Prompts /\ ~Counted(a) /\ Counted(a)' /\ sessions = 0 => serve'.cfg = key[a]
<1> ProcessInv /\ Typed
  BY DEF Inv, ProcessInv
<1>1. sessions \in Nat
  BY Counters DEF ProcessInv
<1>2. CASE a \in Prompts /\ Reuse(a)
  BY <1>1, <1>2 DEF Reuse, Fits, Shared, ProcessInv, Marked
<1>3. CASE Healthy(a)
  <2>1. ~serve.broken /\ serve.cfg = key[a] /\ serve' = [serve EXCEPT !.ready = TRUE]
    BY <1>3 DEF Healthy, ProcessInv, AllReady, Ready
  <2> QED BY <2>1 DEF Typed, ServeType
<1>4. CASE /\ sessions' = sessions
           /\ a \in Prompts => ~Counted(a)'
  BY <1>1, <1>4
<1>5. (a \in Prompts /\ Reuse(a)) \/ Healthy(a) \/ (sessions' = sessions /\ (a \in Prompts => ~Counted(a)'))
  <2>1. CASE \/ Begin(a) \/ Reload(a) \/ Drain(a) \/ Stopped(a) \/ StopFails(a) \/ Spawn(a) \/ StartFails(a)
             \/ Withdraw(a)
    <3>1. sessions' = sessions
      BY <2>1 DEF Begin, Reload, Drain, Stopped, StopFails, Spawn, StartFails, Withdraw
    <3>2. at'[a] \in Waits
      <4>1. CASE Begin(a) \/ Reload(a) \/ Drain(a) \/ Spawn(a)
        BY <4>1, MovesEffect DEF Begin, Reload, Drain, Spawn
      <4>2. CASE StopFails(a) \/ StartFails(a) \/ Withdraw(a)
        BY <4>2, EndsEffect DEF StopFails, StartFails, Withdraw
      <4>3. CASE Stopped(a)
        BY <4>3, MovesEffect, EndsEffect DEF Stopped
      <4> QED BY <2>1, <4>1, <4>2, <4>3
    <3> QED BY <3>1, <3>2 DEF Counted
  <2>2. CASE a \in Listers /\ List(a)
    BY <2>2 DEF List, ListNow, Probed, NotProbed, Fetched
  <2> QED BY <2>1, <2>2 DEF Acquires, Acquire
<1> QED BY <1>2, <1>3, <1>4, <1>5

(* Nobody loses the process but by its own crash: it is stopped, replaced  *)
(* or given up only while no session and no listing uses it                *)
(* (serve_client.py:8445).                                                 *)
THEOREM NobodyLosesTheProcess == Spec => NobodyIsCutOff
<1>1. Inv /\ [Next]_vars => [Up /\ serve'.at # "up" /\ crashes' = crashes => Idle]_vars
  <2> SUFFICES ASSUME Inv, Next, Up, serve'.at # "up", crashes' = crashes PROVE Idle
    OBVIOUS
  <2>1. ~Crash
    BY DEF Crash, Inv, ProcessInv, Typed
  <2>2. ~Change
    BY DEF Change, Up
  <2> QED
    BY <2>1, <2>2, Kinds, AcquirersWait, UsersKeepIt DEF Up
<1> QED BY <1>1, InvHolds, PTL DEF Spec, NobodyIsCutOff

(* A process declared unusable is given to no further session              *)
(* (serve_client.py:8025).                                                 *)
THEOREM UnusableIsReplaced == Spec => BrokenIsReplaced
<1>1. Inv /\ [Next]_vars => [sessions' > sessions => ~serve'.broken]_vars
  <2> SUFFICES ASSUME Inv, Next, sessions' > sessions PROVE ~serve'.broken
    OBVIOUS
  <2>1. sessions \in Nat
    BY Counters DEF Inv, ProcessInv
  <2>2. ~Change /\ ~Crash
    BY <2>1 DEF Change, Crash
  <2>3. \A p \in Prompts : ~Uses(p) /\ ~Leave(p)
    BY <2>1, UsersKeepIt
  <2> QED
    BY <2>2, <2>3, Kinds, AcquirersGet
<1> QED BY <1>1, InvHolds, PTL DEF Spec, BrokenIsReplaced

(* A prompt that finds no other session runs on the configuration of its   *)
(* own key (serve_client.py:8377).                                         *)
THEOREM AloneOnItsConfig == Spec => OnOwnConfig
<1>1. Inv /\ [Next]_vars => [\A p \in Prompts :
          ~Counted(p) /\ Counted(p)' /\ sessions = 0 => serve'.cfg = key[p]]_vars
  <2> SUFFICES ASSUME Inv, Next, NEW p \in Prompts, ~Counted(p), Counted(p)', sessions = 0
               PROVE  serve'.cfg = key[p]
    OBVIOUS
  <2>1. ~Change /\ ~Crash
    BY DEF Change, Crash, Counted
  <2>2. \A q \in Prompts : ~Uses(q) /\ ~Leave(q)
    BY UsersKeepIt
  <2>3. PICK a \in Actors : Acquires(a)
    BY <2>1, <2>2, Kinds
  <2>4. a = p
    BY <2>3, AcquireEffect DEF Counted, Actors
  <2> QED
    BY <2>3, <2>4, AcquirersGet
<1> QED BY <1>1, InvHolds, PTL DEF Spec, OnOwnConfig

(* Prompts that read a graph in one directory at the same time read that   *)
(* of one scan (serve_client.py:5750),                                     *)
THEOREM GraphsAreApart == Spec => []GraphsApart
<1>1. Inv => GraphsApart
  BY DEF Inv, GraphInv, Graph, OnGraph, Holds, GraphsApart, Reads
<1> QED BY <1>1, InvHolds, PTL

(* and the process has it connected as long as one of them reads.          *)
THEOREM GraphIsThere == Spec => []GraphStays
<1>1. Inv => GraphStays
  BY DEF Inv, GraphInv, Graph, OnGraph, Fed, Holds, GraphStays, Reads
<1> QED BY <1>1, InvHolds, PTL
-----------------------------------------------------------------------------
(* The manager is the shared process of SharedProcess.                     *)

Same == ProcessNow' = ProcessNow /\ crashes' = crashes

(* What the users see of the process has a type, and is not Nobody.        *)
LEMMA ProcessSeen ==
    ASSUME Typed, Up
    PROVE  /\ ProcessNow \in Processes /\ ProcessNow # Nobody
           /\ ProcessNow = [conf |-> serve.cfg, unusable |-> serve.broken]
<1>1. ProcessNow = [conf |-> serve.cfg, unusable |-> serve.broken]
  BY DEF ProcessNow
<1>2. serve.cfg \in 0..MaxChanges /\ serve.broken \in BOOLEAN
  BY DEF Typed, ServeType
<1> QED BY <1>1, <1>2 DEF Processes

(* Marking the process unusable is all that marking does to it.            *)
LEMMA MarkingGives ==
    ASSUME ProcessInv, Marks \/ UNCHANGED <<restart, serve>>, crashes' = crashes,
           UsersNow' = UsersNow
    PROVE  Promise!GivenUp \/ Same
<1>1. CASE UNCHANGED <<restart, serve>>
  BY <1>1 DEF Same, ProcessNow, Up
<1>2. CASE Marks
  <2>1. serve'.at = serve.at /\ serve'.cfg = serve.cfg /\ serve'.broken = (serve.at # "none")
    BY <1>2, MarksEffect
  <2>2. CASE ~Up
    BY <2>1, <2>2 DEF Same, ProcessNow, Up
  <2>3. CASE Up
    <3>1. ProcessNow = [conf |-> serve.cfg, unusable |-> serve.broken] /\ ProcessNow # Nobody
      BY <2>3, ProcessSeen DEF ProcessInv
    <3>2. ProcessNow' = [conf |-> serve.cfg, unusable |-> TRUE]
      BY <2>1, <2>3 DEF ProcessNow, Up
    <3>3. ProcessNow.conf = serve.cfg
      BY <3>1
    <3> QED BY <3>1, <3>2, <3>3 DEF Promise!GivenUp
  <2> QED BY <2>2, <2>3
<1> QED BY <1>1, <1>2

(* A process that goes away while nobody uses it was stopped.              *)
LEMMA GoesIdle ==
    ASSUME Inv, Idle, ~Up', crashes' = crashes, UsersNow' = UsersNow
    PROVE  Promise!Stop \/ Same
<1>1. ProcessNow' = Nobody
  BY DEF ProcessNow
<1>2. UsersNow = {}
  BY Counters DEF Inv, ProcessInv, UsersNow, Using, Fetching
<1>3. CASE Up
  BY <1>1, <1>2, <1>3, ProcessSeen DEF Promise!Stop, Inv, ProcessInv
<1>4. CASE ~Up
  BY <1>1, <1>4 DEF Same, ProcessNow
<1> QED BY <1>3, <1>4

(* Where somebody is tells whether he uses the process: not before he is   *)
(* admitted,                                                               *)
LEMMA UsesNot ==
    ASSUME NEW a \in Actors, \A b \in Actors \ {a} : at'[b] = at[b],
           at[a] \in Waits \cup {"probing"}, at'[a] \in Waits \cup {"probing"}
    PROVE  UsersNow' = UsersNow
BY DEF UsersNow, Counted

(* from then on,                                                           *)
LEMMA UsesNow ==
    ASSUME NEW a \in Actors, \A b \in Actors \ {a} : at'[b] = at[b],
           at[a] \in Waits \cup {"probing"},
           (a \in Prompts /\ at'[a] = "mcp") \/ (a \in Listers /\ at'[a] = "fetching")
    PROVE  a \notin UsersNow /\ UsersNow' = UsersNow \cup {a}
<1>1. \A b \in Actors \ {a} : b \in UsersNow' <=> b \in UsersNow
  BY DEF UsersNow, Counted
<1>2. a \notin UsersNow /\ a \in UsersNow'
  BY DEF UsersNow, Counted
<1>3. UsersNow \subseteq Actors /\ UsersNow' \subseteq Actors
  BY DEF UsersNow
<1> QED BY <1>1, <1>2, <1>3

(* until he leaves.                                                        *)
LEMMA UsesNoMore ==
    ASSUME NEW a \in Actors, \A b \in Actors \ {a} : at'[b] = at[b], at'[a] = "over",
           (a \in Prompts /\ at[a] = "leaving") \/ (a \in Listers /\ at[a] = "fetching")
    PROVE  a \in UsersNow /\ UsersNow' = UsersNow \ {a}
<1>1. \A b \in Actors \ {a} : b \in UsersNow' <=> b \in UsersNow
  BY DEF UsersNow, Counted
<1>2. a \in UsersNow /\ a \notin UsersNow'
  BY DEF UsersNow, Counted
<1>3. UsersNow \subseteq Actors /\ UsersNow' \subseteq Actors
  BY DEF UsersNow
<1> QED BY <1>1, <1>2, <1>3

(* Who acquires the process stops, starts, gives up or joins it.           *)
LEMMA AcquireMaps ==
    ASSUME Inv, NEW a \in Actors, Acquires(a)
    PROVE  Promise!Next \/ (Same /\ UsersNow' = UsersNow)
<1> ProcessInv /\ Typed
  BY DEF Inv, ProcessInv
<1>0. Ready(a) /\ \A b \in Actors \ {a} : at'[b] = at[b]
  BY AcquireEffect DEF ProcessInv, AllReady
<1>1. CASE Begin(a) \/ Drain(a) \/ (a \in Listers /\ ListNow(a))
  <2>1. UNCHANGED serve /\ crashes' = crashes
    BY <1>1 DEF Begin, Drain, ListNow
  <2>2. at[a] \in Waits /\ at'[a] \in Waits \cup {"probing"}
    BY <1>1, MovesEffect DEF Begin, Drain, ListNow
  <2> QED BY <1>0, <2>1, <2>2, UsesNot DEF Same, ProcessNow, Up
<1>2. CASE Reload(a)
  <2>1. (serve' = serve \/ (serve.at = "dead" /\ serve' = NoServe)) /\ crashes' = crashes
    BY <1>2 DEF Reload, Notices
  <2>2. at[a] \in Waits /\ at'[a] \in Waits
    BY <1>2, MovesEffect DEF Reload
  <2> QED BY <1>0, <2>1, <2>2, UsesNot DEF Same, ProcessNow, Up, NoServe
<1>3. CASE Stopped(a)
  <2>1. ~Up' /\ Idle /\ crashes' = crashes
    BY <1>0, <1>3 DEF Stopped, Up, NoServe, Ready
  <2>2. at[a] \in Waits /\ at'[a] \in Waits
    BY <1>3, MovesEffect, EndsEffect DEF Stopped
  <2> QED BY <1>0, <2>1, <2>2, UsesNot, GoesIdle DEF Promise!Next
<1>4. CASE StopFails(a)
  <2>1. Marks /\ crashes' = crashes
    BY <1>4 DEF StopFails
  <2>2. at[a] \in Waits /\ at'[a] \in Waits
    BY <1>4, EndsEffect DEF StopFails
  <2> QED BY <1>0, <2>1, <2>2, UsesNot, MarkingGives DEF Promise!Next
<1>5. CASE Spawn(a)
  <2>1. ~Up /\ Idle /\ crashes' = crashes
    BY <1>0, <1>5 DEF Spawn, Up, Ready
  <2>2. serve' = [at |-> "up", cfg |-> key[a], ready |-> FALSE, broken |-> FALSE]
    BY <1>5 DEF Spawn
  <2>3. at[a] \in Waits /\ at'[a] \in Waits
    BY <1>5, MovesEffect DEF Spawn
  <2>4. UsersNow' = UsersNow /\ UsersNow = {}
    BY <1>0, <2>1, <2>3, UsesNot, Counters DEF ProcessInv, UsersNow, Using, Fetching
  <2>5. ProcessNow = Nobody /\ ProcessNow' = [conf |-> key[a], unusable |-> FALSE]
    BY <2>1, <2>2 DEF ProcessNow, Up
  <2>6. key[a] \in 0..MaxChanges
    BY DEF Typed
  <2>7. Promise!Start(key[a])
    BY <2>1, <2>4, <2>5 DEF Promise!Start
  <2> QED BY <2>6, <2>7 DEF Promise!Next
<1>6. CASE Healthy(a) \/ (a \in Listers /\ Probed(a))
  <2>1. serve' = [serve EXCEPT !.ready = TRUE] /\ Up /\ crashes' = crashes
    BY <1>6 DEF Healthy, Probed
  <2>2. Same
    BY <2>1 DEF Same, ProcessNow, Up, Typed, ServeType
  <2>3. at[a] \in Waits \cup {"probing"}
    BY <1>6 DEF Healthy, Probed
  <2>4. CASE Healthy(a) /\ a \notin Prompts
    <3>1. at'[a] = "probing"
      BY <2>4, MovesEffect DEF Healthy
    <3> QED BY <1>0, <2>2, <2>3, <3>1, UsesNot
  <2>5. CASE (Healthy(a) /\ a \in Prompts) \/ (a \in Listers /\ Probed(a))
    <3>1. (a \in Prompts /\ at'[a] = "mcp") \/ (a \in Listers /\ at'[a] = "fetching")
      BY <2>5, MovesEffect DEF Healthy, Probed
    <3>2. a \notin UsersNow /\ UsersNow' = UsersNow \cup {a}
      BY <1>0, <2>3, <3>1, UsesNow
    <3>3. a \in Prompts => ~serve.broken
      BY <1>0, <2>5 DEF Healthy, Ready, ServeAssumption
    <3>4. ProcessNow # Nobody /\ ProcessNow.unusable = serve.broken
      BY <2>1, ProcessSeen
    <3>5. Promise!Join(a)
      BY <2>2, <3>2, <3>3, <3>4 DEF Promise!Join, Same
    <3> QED BY <3>5 DEF Promise!Next
  <2> QED BY <1>6, <2>4, <2>5
<1>7. CASE StartFails(a)
  <2>1. Idle /\ crashes' = crashes /\ (serve' = NoServe \/ Marks)
    BY <1>0, <1>7 DEF StartFails, Ready
  <2>2. at[a] \in Waits /\ at'[a] \in Waits
    BY <1>7, EndsEffect DEF StartFails
  <2>3. UsersNow' = UsersNow
    BY <1>0, <2>2, UsesNot
  <2>4. serve' = NoServe => ~Up'
    BY DEF NoServe, Up
  <2> QED BY <2>1, <2>3, <2>4, GoesIdle, MarkingGives DEF Promise!Next
<1>8. CASE Withdraw(a)
  <2>1. at[a] \in Waits /\ at'[a] \in Waits
    BY <1>8, EndsEffect DEF Withdraw, Locks
  <2>2. UsersNow' = UsersNow /\ crashes' = crashes
    BY <1>0, <1>8, <2>1, UsesNot DEF Withdraw
  <2>3. CASE at[a] = "stopping" /\ serve.at # "none"
    <3>1. serve' = [serve EXCEPT !.at = "dead", !.broken = TRUE] /\ Idle
      BY <1>0, <1>8, <2>3 DEF Withdraw, Ready
    <3>2. ~Up'
      BY <3>1 DEF Up, Typed, ServeType
    <3> QED BY <2>2, <3>1, <3>2, GoesIdle DEF Promise!Next
  <2>4. CASE ~(at[a] = "stopping" /\ serve.at # "none")
    BY <1>8, <2>2, <2>4 DEF Withdraw, Same, ProcessNow, Up
  <2> QED BY <2>3, <2>4
<1>9. CASE a \in Prompts /\ Reuse(a)
  <2>1. Up /\ ~restart /\ UNCHANGED serve /\ crashes' = crashes /\ at[a] = "locking"
    BY <1>9 DEF Reuse, Fits, Shared
  <2>2. at'[a] = "mcp"
    BY <1>9, MovesEffect DEF Reuse
  <2>3. a \notin UsersNow /\ UsersNow' = UsersNow \cup {a}
    BY <1>0, <1>9, <2>1, <2>2, UsesNow
  <2>4. ~serve.broken
    BY <2>1 DEF ProcessInv, Marked
  <2>5. ProcessNow # Nobody /\ ProcessNow.unusable = serve.broken /\ ProcessNow' = ProcessNow
    BY <2>1, ProcessSeen DEF ProcessNow, Up
  <2>6. Promise!Join(a)
    BY <2>1, <2>3, <2>4, <2>5 DEF Promise!Join
  <2> QED BY <2>6 DEF Promise!Next
<1>10. CASE a \in Listers /\ NotProbed(a)
  <2>1. crashes' = crashes /\ at[a] = "probing"
    BY <1>10 DEF NotProbed
  <2>2. CASE sessions > 0 \/ a \in retried
    <3>1. at'[a] \in Waits /\ Marks
      BY <1>10, <2>2, EndsEffect DEF NotProbed, Marks
    <3> QED BY <1>0, <2>1, <3>1, UsesNot, MarkingGives DEF Promise!Next
  <2>3. CASE ~(sessions > 0 \/ a \in retried)
    <3>1. at'[a] \in Waits /\ Notices
      BY <1>10, <2>3, MovesEffect DEF NotProbed
    <3>2. serve' = serve \/ (serve.at = "dead" /\ serve' = NoServe)
      BY <3>1 DEF Notices
    <3> QED BY <1>0, <2>1, <3>1, <3>2, UsesNot DEF Same, ProcessNow, Up, NoServe
  <2> QED BY <2>2, <2>3
<1>11. CASE a \in Listers /\ Fetched(a)
  <2>1. at[a] = "fetching" /\ UNCHANGED serve /\ crashes' = crashes
    BY <1>11 DEF Fetched
  <2>2. at'[a] = "over"
    BY <1>11, EndsEffect DEF Fetched
  <2>3. a \in UsersNow /\ UsersNow' = UsersNow \ {a}
    BY <1>0, <1>11, <2>1, <2>2, UsesNoMore
  <2>4. Promise!Leave(a)
    BY <2>1, <2>3 DEF Promise!Leave, ProcessNow, Up
  <2> QED BY <2>4 DEF Promise!Next
<1> QED
  BY <1>1, <1>2, <1>3, <1>4, <1>5, <1>6, <1>7, <1>8, <1>9, <1>10, <1>11 DEF Acquires, Acquire, List

(* A prompt that uses the process moves, may wake others, and at most has  *)
(* the process replaced.                                                   *)
GoesOn(p) ==
    /\ Counted(p) /\ crashes' = crashes
    /\ Marks \/ UNCHANGED <<restart, serve>>
    /\ \E to \in GraphPlaces : Moves(p, to) \/ Wakes(p, mine[p], to)

LEMMA UsesGoesOn ==
    ASSUME NEW p \in Prompts, Uses(p)
    PROVE  GoesOn(p)
<1>1. CASE Enter(p) \/ Connected(p)
  BY <1>1 DEF Enter, Connected, Leased, Process, Counted, GoesOn
<1>2. CASE Close(p) \/ GiveUp(p)
  BY <1>2 DEF Close, GiveUp, Process, Counted, GoesOn
<1>3. ASSUME NEW breaks \in BOOLEAN, Finish(p, breaks) PROVE GoesOn(p)
  BY <1>3 DEF Finish, MayMark, Process, Counted, GoesOn
<1>4. ASSUME NEW now, NEW on \in BOOLEAN, Rejoined(p, on, now) PROVE GoesOn(p)
  BY <1>4 DEF Rejoined, Leased, Process, Counted, GoesOn
<1>5. ASSUME NEW now, NotConnected(p, now) PROVE GoesOn(p)
  BY <1>5 DEF NotConnected, Leased, Process, Counted, GoesOn
<1>6. ASSUME NEW now, NEW breaks \in BOOLEAN, Disconnect(p, now, breaks) PROVE GoesOn(p)
  BY <1>6 DEF Disconnect, MayMark, Process, Counted, GoesOn
<1>7. ASSUME NEW now, NEW breaks \in BOOLEAN, Abandon(p, now, breaks) PROVE GoesOn(p)
  BY <1>7 DEF Abandon, MayMark, Process, Counted, GoesOn
<1> QED BY <1>1, <1>2, <1>3, <1>4, <1>5, <1>6, <1>7 DEF Uses

(* So it goes on using it, and nobody else begins or ceases to.            *)
LEMMA UsesMaps ==
    ASSUME Inv, NEW p \in Prompts, Uses(p)
    PROVE  Promise!Next \/ (Same /\ UsersNow' = UsersNow)
<1>1. ProcessInv /\ Typed /\ p \in Actors /\ GoesOn(p)
  BY UsesGoesOn DEF Inv, ProcessInv, Actors
<1>2. PICK to \in GraphPlaces : Moves(p, to) \/ Wakes(p, mine[p], to)
  BY <1>1 DEF GoesOn
<1>3. at'[p] = to /\ \A b \in Actors \ {p} : Woken(b)
  <2>1. CASE Moves(p, to)
    BY <1>1, <2>1, MovesEffect DEF Woken
  <2>2. CASE Wakes(p, mine[p], to)
    BY <1>1, <2>2, WakesEffect
  <2> QED BY <1>2, <2>1, <2>2
<1>4. UsersNow' = UsersNow
  <2>1. \A b \in Prompts : Counted(b)' = Counted(b)
    BY <1>1, <1>3 DEF GoesOn, Counted, Woken, Actors
  <2>2. \A b \in Listers : at'[b] = "fetching" <=> at[b] = "fetching"
    BY <1>3 DEF Woken, Actors
  <2> QED BY <2>1, <2>2 DEF UsersNow
<1> QED BY <1>1, <1>4, MarkingGives DEF GoesOn, Promise!Next

(* Every behaviour of the manager is one of the shared process: through    *)
(* reloads, listings, skill updates, failed starts and stops, deadlines and*)
(* crashes, a process is stopped or replaced under nobody, nobody goes on  *)
(* with another one, and one declared unusable gets no new session         *)
(* (serve_client.py:8025, 8445).                                           *)
THEOREM ManagerSharesOneProcess == Spec => ImplementsSharedProcess
<1>1. Init => Promise!Init
  BY DEF Init, Promise!Init, ProcessNow, Up, NoServe, UsersNow, Counted, Actors
<1>2. Inv /\ [Next]_vars => [Promise!Next]_<<ProcessNow, UsersNow, crashes>>
  <2> SUFFICES ASSUME Inv, [Next]_vars
               PROVE  Promise!Next \/ (Same /\ UsersNow' = UsersNow)
    BY DEF Same
  <2>1. CASE UNCHANGED vars
    BY <2>1 DEF vars, Same, ProcessNow, Up, UsersNow, Counted
  <2>2. ASSUME NEW p \in Prompts, Leave(p) PROVE Promise!Next
    <3>1. at[p] = "leaving" /\ UNCHANGED serve /\ crashes' = crashes /\ p \in Actors
      BY <2>2 DEF Leave, Process, Actors
    <3>2. at'[p] = "over" /\ \A b \in Actors \ {p} : at'[b] = at[b]
      BY <2>2, <3>1, EndsEffect DEF Leave, Inv, ProcessInv
    <3>3. p \in UsersNow /\ UsersNow' = UsersNow \ {p}
      BY <3>1, <3>2, UsesNoMore
    <3>4. Promise!Leave(p)
      BY <3>1, <3>3 DEF Promise!Leave, ProcessNow, Up
    <3> QED BY <3>1, <3>4 DEF Promise!Next
  <2>3. CASE Change
    BY <2>3 DEF Change, Same, ProcessNow, Up, UsersNow, Counted
  <2>4. CASE Crash
    <3>1. Up /\ serve' = [serve EXCEPT !.at = "dead", !.ready = FALSE] /\ crashes' = crashes + 1 /\ at' = at
      BY <2>4 DEF Crash
    <3>2. ~Up' /\ UsersNow' = UsersNow
      BY <3>1 DEF Up, UsersNow, Counted, Inv, ProcessInv, Typed, ServeType
    <3>3. ProcessNow # Nobody /\ ProcessNow' = Nobody
      BY <3>1, <3>2, ProcessSeen DEF ProcessNow, Inv, ProcessInv
    <3>4. Promise!Exit
      BY <3>1, <3>2, <3>3 DEF Promise!Exit
    <3> QED BY <3>4 DEF Promise!Next
  <2> QED BY <2>1, <2>2, <2>3, <2>4, Kinds, AcquireMaps, UsesMaps
<1> QED BY <1>1, <1>2, InvHolds, PTL DEF Spec, ImplementsSharedProcess, Promise!Spec

=============================================================================
