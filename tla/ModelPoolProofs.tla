--------------------------- MODULE ModelPoolProofs ---------------------------
(***************************************************************************)
(* Safety of the model pool for every number of tasks, rows and targets,   *)
(* every set of configurations and every bound.                            *)
(***************************************************************************)
EXTENDS ModelPool, TLAPS, FiniteSetTheorems, WellFoundedInduction

(* The strengthening SlotsMatchLeases needs: a task without a fresh session*)
(* left never goes back to idle, a queued task waits for some session, and *)
(* a task in _active_tasks really has the lease the entry names.           *)
SessionsLeft ==
    \A q \in Requests :
        /\ phase[q] \in {"new", "idle"} => attempts[q] < MaxAttempts
        /\ phase[q] \in {"notifying", "waiting"} => attempts[q] > 0
LeasesExist ==
    \A q \in Requests : active[q] > 0 => leases[q][active[q]] \in Lease

Inv == TypeOK /\ SessionsLeft /\ LeasesExist /\ QueueMatchesCallers /\ SlotsMatchLeases

USE PoolAssumption DEF Attempts

-----------------------------------------------------------------------------
(* What the helpers return.                                                *)

(* A configured row has a target, a capability and a positive limit.       *)
LEMMA ConfiguredRow ==
    ASSUME TypeOK, NEW r \in Configured
    PROVE  r \in Rows /\ cfg[r] \in RowConf
BY DEF TypeOK, Configured

(* Only configured rows are ever chosen.                                   *)
LEMMA ChoicesConfigured ==
    ASSUME NEW p, NEW q, NEW r \in Choices(p, q)
    PROVE  r \in Configured
BY DEF Choices, Untried, AvailableRows, Eligible, Satisfies, InWindow

(* The health binding keeps its type.                                      *)
LEMMA EnsuredType ==
    ASSUME TypeOK
    PROVE  /\ Ensured \in [Idents -> Circuit]
           /\ Rebound \in [Rows -> Idents \cup {Off}]
<1>1. \A i \in Idents : FreshCircuit(i) \in Circuit
  BY DEF TypeOK, FreshCircuit, Circuit
<1>2. Ensured \in [Idents -> Circuit]
  BY <1>1 DEF TypeOK, Ensured
<1>3. \A r \in Configured : cfg[r].ident \in Idents
  BY ConfiguredRow DEF RowConf
<1>4. Rebound \in [Rows -> Idents \cup {Off}]
  BY <1>3 DEF TypeOK, Rebound
<1> QED BY <1>2, <1>4

(* A release leaves a well-formed health state.                            *)
LEMMA HealthAfterType ==
    ASSUME TypeOK, NEW l \in Lease, NEW h
    PROVE  HealthAfter(l, h) \in [Idents -> Circuit]
<1>1. l.ident \in Idents
  BY DEF Lease
<1> DEFINE new == CASE h = "success" -> "closed"
                    [] h = "quota"   -> "open"
                    [] OTHER         -> circuit[l.ident].quota
<1>2. new \in {"closed", "open", "elapsed"}
  BY <1>1 DEF TypeOK, Circuit
<1>3. ASSUME NEW c \in Circuit, NEW v \in {"closed", "open", "elapsed"}
      PROVE  [c EXCEPT !.quota = v, !.probe = FALSE] \in Circuit
  BY DEF Circuit
<1>4. [circuit[l.ident] EXCEPT !.quota = new, !.probe = FALSE] \in Circuit
  BY <1>1, <1>2, <1>3 DEF TypeOK
<1> QED BY <1>1, <1>4 DEF HealthAfter, TypeOK

(* Pausing budgets keeps them budgets.                                     *)
LEMMA PausedType ==
    ASSUME TypeOK, NEW gone
    PROVE  Paused(gone) \in [Requests -> {"paused", "counting", "spent"}]
BY DEF TypeOK, Paused

(* The sets the slot counters count are finite.                            *)
LEMMA HoldersFinite == IsFiniteSet(Holders) /\ \A r : IsFiniteSet(HoldersOf(r))
BY FS_Subset DEF Holders, HoldersOf

-----------------------------------------------------------------------------
(* Granting and releasing.                                                 *)

(* A grant changes the lease of its task only, and to a real lease.        *)
LEMMA GrantEffect ==
    ASSUME TypeOK, NEW q \in Requests, NEW k \in Attempts, NEW r \in Configured,
           Grant(q, k, r)
    PROVE  /\ bound' \in [Rows -> Idents \cup {Off}]
           /\ circuit' \in [Idents -> Circuit]
           /\ phase' = [phase EXCEPT ![q] = "leased"]
           /\ running' = [running EXCEPT ![r] = @ + 1] /\ total' = total + 1
           /\ active' = [active EXCEPT ![q] = k]
           /\ leases' \in [Requests -> [Attempts -> Lease \cup {NoLease}]]
           /\ leases'[q][k] \in Lease /\ leases'[q][k].row = r
           /\ \A e \in Requests \ {q} : leases'[e] = leases[e]
<1> DEFINE i == cfg[r].ident
           probe == Ensured[i].quota = "elapsed" /\ ~Ensured[i].probe
           lease == [row |-> r, ident |-> i, gen |-> Ensured[i].gen, probe |-> probe]
<1>1. r \in Rows /\ i \in Idents
  BY ConfiguredRow DEF RowConf
<1>2. Ensured \in [Idents -> Circuit] /\ Rebound \in [Rows -> Idents \cup {Off}]
  BY EnsuredType
<1>3. probe \in BOOLEAN
  OBVIOUS
<1>4. lease \in Lease
  <2> HIDE DEF probe, i
  <2> QED BY <1>1, <1>2, <1>3 DEF Lease, Circuit
<1>5. /\ bound' = Rebound
      /\ circuit' = [Ensured EXCEPT ![i].probe = @ \/ probe]
      /\ leases' = [leases EXCEPT ![q][k] = lease]
      /\ phase' = [phase EXCEPT ![q] = "leased"]
      /\ running' = [running EXCEPT ![r] = @ + 1] /\ total' = total + 1
      /\ active' = [active EXCEPT ![q] = k]
  BY DEF Grant
<1>6. circuit' \in [Idents -> Circuit]
  <2>1. ASSUME NEW c \in Circuit PROVE [c EXCEPT !.probe = @ \/ probe] \in Circuit
    <3> HIDE DEF probe, i
    <3> QED BY <1>3 DEF Circuit
  <2>2. circuit' = [Ensured EXCEPT ![i] = [Ensured[i] EXCEPT !.probe = @ \/ probe]]
    BY <1>1, <1>2, <1>5
  <2> HIDE DEF probe, i
  <2> QED BY <1>1, <1>2, <2>1, <2>2
<1>7. /\ leases' \in [Requests -> [Attempts -> Lease \cup {NoLease}]]
      /\ leases'[q][k] = lease
      /\ \A e \in Requests \ {q} : leases'[e] = leases[e]
  <2> HIDE DEF lease
  <2> QED BY <1>4, <1>5 DEF TypeOK
<1> QED BY <1>2, <1>4, <1>5, <1>6, <1>7

(* The counters grow with the set of holders.                              *)
LEMMA GrantCounts ==
    ASSUME TypeOK, SlotsMatchLeases, NEW q \in Requests, active[q] = 0,
           NEW k \in Attempts, NEW r \in Configured, Grant(q, k, r)
    PROVE  SlotsMatchLeases'
<1>1. r \in Rows /\ k > 0
  BY ConfiguredRow
<1>2. /\ running' = [running EXCEPT ![r] = @ + 1] /\ total' = total + 1
      /\ active' = [active EXCEPT ![q] = k]
      /\ leases'[q][k].row = r
      /\ \A e \in Requests \ {q} : leases'[e] = leases[e]
  BY GrantEffect
<1>3. Holders' = Holders \cup {q} /\ q \notin Holders
  BY <1>1, <1>2 DEF Holders, TypeOK
<1>3a. /\ active'[q] = k /\ q \notin HoldersOf(r)
       /\ \A e \in Requests \ {q} : active'[e] = active[e] /\ leases'[e] = leases[e]
  BY <1>2 DEF HoldersOf, TypeOK
<1>4. HoldersOf(r)' = HoldersOf(r) \cup {q} /\ q \notin HoldersOf(r)
  BY <1>1, <1>2, <1>3a DEF HoldersOf
<1>5. \A s \in Rows \ {r} : HoldersOf(s)' = HoldersOf(s)
  BY <1>1, <1>2, <1>3a DEF HoldersOf, TypeOK
<1>6. Cardinality(Holders') = Cardinality(Holders) + 1
  BY <1>3, HoldersFinite, FS_AddElement
<1>7. Cardinality(HoldersOf(r)') = Cardinality(HoldersOf(r)) + 1
  <2>1. IsFiniteSet(HoldersOf(r))
    BY HoldersFinite
  <2>2. Cardinality(HoldersOf(r) \cup {q}) = Cardinality(HoldersOf(r)) + 1
    BY <1>4, <2>1, FS_AddElement
  <2> QED BY <1>4, <2>2
<1> QED BY <1>1, <1>2, <1>5, <1>6, <1>7 DEF SlotsMatchLeases, TypeOK

(* Releasing the lease a task holds gives its slot back, and nothing else. *)
LEMMA ReleaseEffect ==
    ASSUME TypeOK, SlotsMatchLeases, LeasesExist, NEW q \in Requests, active[q] > 0,
           NEW h, ReleaseLease(q, active[q], h)
    PROVE  /\ UNCHANGED <<bound, leases>>
           /\ circuit' \in [Idents -> Circuit]
           /\ running' \in [Rows -> Nat] /\ total' \in Nat
           /\ active' = [active EXCEPT ![q] = 0]
           /\ SlotsMatchLeases'
<1>1. PICK l \in Lease : l = leases[q][active[q]]
  BY DEF LeasesExist
<1>2. PICK r \in Rows : r = l.row
  BY DEF Lease
<1>3. /\ running' = [running EXCEPT ![r] = Less(@)] /\ total' = Less(total)
      /\ active' = [active EXCEPT ![q] = 0]
      /\ circuit' = HealthAfter(l, h)
      /\ UNCHANGED <<bound, leases>>
  BY <1>1, <1>2 DEF ReleaseLease, IsHeld
<1>4. circuit' \in [Idents -> Circuit]
  BY <1>3, HealthAfterType
<1>5. Holders' = Holders \ {q} /\ q \in Holders
  BY <1>3 DEF Holders, TypeOK
<1>6. HoldersOf(r)' = HoldersOf(r) \ {q} /\ q \in HoldersOf(r)
  <2>1. q \in HoldersOf(r)
    BY <1>1, <1>2 DEF HoldersOf
  <2>2. active'[q] = 0
    BY <1>3 DEF TypeOK
  <2>3. \A e \in Requests \ {q} : active'[e] = active[e] /\ leases'[e] = leases[e]
    BY <1>3 DEF TypeOK
  <2> QED BY <2>1, <2>2, <2>3 DEF HoldersOf
<1>7. ASSUME NEW s \in Rows \ {r}
      PROVE  HoldersOf(s)' = HoldersOf(s)
  <2>1. q \notin HoldersOf(s) /\ q \notin HoldersOf(s)'
    BY <1>1, <1>2, <1>3 DEF HoldersOf, TypeOK
  <2>2. \A e \in Requests \ {q} : active'[e] = active[e] /\ leases'[e] = leases[e]
    BY <1>3 DEF TypeOK
  <2> QED BY <2>1, <2>2 DEF HoldersOf
<1>8. IsFiniteSet(Holders) /\ IsFiniteSet(HoldersOf(r))
  BY HoldersFinite
<1>9. /\ Cardinality(Holders') = Cardinality(Holders) - 1
      /\ Cardinality(HoldersOf(r)') = Cardinality(HoldersOf(r)) - 1
  BY <1>5, <1>6, <1>8, FS_RemoveElement
<1>10. total > 0 /\ running[r] > 0
  <2>1. Cardinality(Holders) # 0 /\ Cardinality(HoldersOf(r)) # 0
    BY <1>5, <1>6, <1>8, FS_EmptySet
  <2> QED BY <2>1 DEF SlotsMatchLeases, TypeOK
<1>11. running' = [running EXCEPT ![r] = @ - 1] /\ total' = total - 1
  BY <1>3, <1>10 DEF Less, TypeOK
<1>12. running' \in [Rows -> Nat] /\ total' \in Nat
  BY <1>10, <1>11 DEF TypeOK
<1>13. SlotsMatchLeases'
  BY <1>7, <1>9, <1>11 DEF SlotsMatchLeases, TypeOK
<1> QED BY <1>3, <1>4, <1>12, <1>13

(* A step that leaves the slots and the leases alone keeps them matched.   *)
LEMMA SlotsUntouched ==
    ASSUME LeasesExist, SlotsMatchLeases, UNCHANGED leaseVars
    PROVE  LeasesExist' /\ SlotsMatchLeases'
BY DEF LeasesExist, SlotsMatchLeases, HoldersOf, Holders, leaseVars

-----------------------------------------------------------------------------
(* The invariant, action by action.                                        *)

LEMMA InitInv == Init => Inv
<1> SUFFICES ASSUME Init PROVE Inv
  OBVIOUS
<1>1. TypeOK
  <2>1. circuit \in [Idents -> Circuit]
    BY DEF Init, Circuit
  <2>2. leases \in [Requests -> [Attempts -> Lease \cup {NoLease}]]
    BY DEF Init
  <2>3. phase \in [Requests -> Phases] /\ attempts \in [Requests -> 0..MaxAttempts]
    BY DEF Init, Phases
  <2>4. active \in [Requests -> 0..MaxAttempts] /\ bound \in [Rows -> Idents \cup {Off}]
    BY DEF Init
  <2>5. cfg \in Configs /\ changes \in 0..MaxChanges
    BY DEF Init
  <2>6. dirty \in BOOLEAN
    BY Zenon DEF Init
  <2> QED BY <2>1, <2>2, <2>3, <2>4, <2>5, <2>6 DEF Init, TypeOK
<1>2. SessionsLeft /\ LeasesExist /\ QueueMatchesCallers
  BY DEF Init, SessionsLeft, LeasesExist, QueueMatchesCallers
<1>3. SlotsMatchLeases
  <2>1. Holders = {} /\ \A r : HoldersOf(r) = {}
    BY DEF Init, Holders, HoldersOf
  <2> QED BY <2>1, FS_EmptySet DEF Init, SlotsMatchLeases
<1> QED BY <1>1, <1>2, <1>3 DEF Inv

USE DEF Phases, confVars, healthVars, callVars, queueVars, leaseVars,
        SessionsLeft, QueueMatchesCallers

LEMMA RegisterPlanInv ==
    ASSUME Inv, NEW q \in Requests, RegisterPlan(q)
    PROVE  Inv'
BY SlotsUntouched DEF Inv, TypeOK, RegisterPlan

LEMMA ClearPlanInv ==
    ASSUME Inv, NEW q \in Requests, ClearPlan(q)
    PROVE  Inv'
BY SlotsUntouched DEF Inv, TypeOK, ClearPlan

LEMMA SubmitCancelledInv ==
    ASSUME Inv, NEW q \in Requests, SubmitCancelled(q)
    PROVE  Inv'
BY SlotsUntouched DEF Inv, TypeOK, SubmitCancelled, Asks

LEMMA NotifiedInv ==
    ASSUME Inv, NEW q \in Requests, Notified(q)
    PROVE  Inv'
BY SlotsUntouched DEF Inv, TypeOK, Notified

LEMMA SetCancelInv ==
    ASSUME Inv, NEW q \in Requests, SetCancel(q)
    PROVE  Inv'
BY SlotsUntouched DEF Inv, TypeOK, SetCancel

LEMMA BudgetExpiresInv ==
    ASSUME Inv, NEW q \in Requests, BudgetExpires(q)
    PROVE  Inv'
BY SlotsUntouched DEF Inv, TypeOK, BudgetExpires

LEMMA PollCancelledInv ==
    ASSUME Inv, NEW q \in Requests, PollCancelled(q)
    PROVE  Inv'
<1>1. /\ phase' = [phase EXCEPT ![q] = "cancelled"]
      /\ ticket' = [ticket EXCEPT ![q] = 0]
      /\ UNCHANGED <<confVars, healthVars, attempts, flagged, avoid, tickets, plans,
                     leaseVars>>
      /\ budget' = Paused({q}) \/ budget' = budget
      /\ plan' = [plan EXCEPT ![q] = 0] \/ plan' = plan
      /\ phase[q] \in {"notifying", "waiting"}
  BY DEF PollCancelled, Leave, Consumed
<1>2. TypeOK'
  <2>1. budget' \in [Requests -> {"paused", "counting", "spent"}]
    BY <1>1, PausedType DEF Inv, TypeOK
  <2>2. phase' \in [Requests -> Phases]
    BY <1>1 DEF Inv, TypeOK
  <2>3. ticket' \in [Requests -> Nat]
    BY <1>1 DEF Inv, TypeOK
  <2>4. plan' \in [Requests -> Nat]
    <3>1. [plan EXCEPT ![q] = 0] \in [Requests -> Nat]
      BY DEF Inv, TypeOK
    <3> QED BY <1>1, <3>1 DEF Inv, TypeOK
  <2> QED BY <1>1, <2>1, <2>2, <2>3, <2>4 DEF Inv, TypeOK
<1>3. SessionsLeft' /\ QueueMatchesCallers'
  BY <1>1 DEF Inv, TypeOK
<1> QED BY <1>1, <1>2, <1>3, SlotsUntouched DEF Inv

LEMMA WithdrawInv ==
    ASSUME Inv, NEW q \in Requests, Withdraw(q)
    PROVE  Inv'
<1>1. /\ phase' = [phase EXCEPT ![q] = "cancelled"]
      /\ ticket' = [ticket EXCEPT ![q] = 0]
      /\ UNCHANGED <<confVars, healthVars, attempts, flagged, avoid, tickets, plans,
                     leaseVars>>
      /\ budget' = Paused({q}) \/ budget' = budget
      /\ plan' = [plan EXCEPT ![q] = 0] \/ plan' = plan
      /\ phase[q] \in {"notifying", "waiting"}
  BY DEF Withdraw, Leave, Consumed
<1>2. TypeOK'
  <2>1. budget' \in [Requests -> {"paused", "counting", "spent"}]
    BY <1>1, PausedType DEF Inv, TypeOK
  <2>2. phase' \in [Requests -> Phases]
    BY <1>1 DEF Inv, TypeOK
  <2>3. ticket' \in [Requests -> Nat]
    BY <1>1 DEF Inv, TypeOK
  <2>4. plan' \in [Requests -> Nat]
    <3>1. [plan EXCEPT ![q] = 0] \in [Requests -> Nat]
      BY DEF Inv, TypeOK
    <3> QED BY <1>1, <3>1 DEF Inv, TypeOK
  <2> QED BY <1>1, <2>1, <2>2, <2>3, <2>4 DEF Inv, TypeOK
<1>3. SessionsLeft' /\ QueueMatchesCallers'
  BY <1>1 DEF Inv, TypeOK
<1> QED BY <1>1, <1>2, <1>3, SlotsUntouched DEF Inv

LEMMA CooldownInv ==
    ASSUME Inv, NEW i \in Idents, Cooldown(i)
    PROVE  Inv'
<1>1. circuit' \in [Idents -> Circuit]
  <2>1. ASSUME NEW c \in Circuit PROVE [c EXCEPT !.quota = "elapsed"] \in Circuit
    BY DEF Circuit
  <2>2. circuit' = [circuit EXCEPT ![i] = [circuit[i] EXCEPT !.quota = "elapsed"]]
    BY DEF Cooldown
  <2> QED BY <2>1, <2>2 DEF Inv, TypeOK
<1> QED BY <1>1, SlotsUntouched DEF Inv, TypeOK, Cooldown

LEMMA WindowMovesInv ==
    ASSUME Inv, NEW r \in Rows, WindowMoves(r)
    PROVE  Inv'
BY SlotsUntouched DEF Inv, TypeOK, WindowMoves

LEMMA ApplyConfigInv ==
    ASSUME Inv, NEW c \in Configs, ApplyConfig(c)
    PROVE  Inv'
BY SlotsUntouched DEF Inv, TypeOK, ApplyConfig

LEMMA RefreshInv ==
    ASSUME Inv, Refresh
    PROVE  Inv'
<1>1. /\ circuit' \in [Idents -> Circuit]
      /\ bound' \in [Rows -> Idents \cup {Off}]
  BY EnsuredType, ConfiguredRow DEF Inv, Refresh, RowConf
<1> QED BY <1>1, SlotsUntouched DEF Inv, TypeOK, Refresh

LEMMA PollFailedInv ==
    ASSUME Inv, NEW q \in Requests, PollFailed(q)
    PROVE  Inv'
<1>1. /\ circuit' \in [Idents -> Circuit]
      /\ bound' \in [Rows -> Idents \cup {Off}]
  BY EnsuredType DEF Inv, PollFailed, Fail, EnsureModels
<1>2. /\ phase[q] = "waiting" /\ phase' = [phase EXCEPT ![q] = "failed"]
      /\ budget' = Paused({q}) /\ plan' = [plan EXCEPT ![q] = 0]
      /\ ticket' = [ticket EXCEPT ![q] = 0]
      /\ UNCHANGED <<confVars, attempts, flagged, avoid, tickets, plans, leaseVars>>
  BY DEF PollFailed, Fail, Consumed
<1>3. TypeOK'
  BY <1>1, <1>2, PausedType DEF Inv, TypeOK
<1>4. SessionsLeft' /\ QueueMatchesCallers'
  BY <1>2 DEF Inv, TypeOK
<1> QED BY <1>2, <1>3, <1>4, SlotsUntouched DEF Inv

(* A task that holds no lease is granted one: everything the slots and     *)
(* leases conjuncts need, whether it happens in Submit or in Poll.         *)
LEMMA GrantInv ==
    ASSUME TypeOK, LeasesExist, SlotsMatchLeases, NEW q \in Requests, active[q] = 0,
           NEW k \in Attempts, NEW r \in Configured, Grant(q, k, r)
    PROVE  /\ bound' \in [Rows -> Idents \cup {Off}]
           /\ circuit' \in [Idents -> Circuit]
           /\ phase' = [phase EXCEPT ![q] = "leased"]
           /\ running' \in [Rows -> Nat] /\ total' \in Nat
           /\ active' = [active EXCEPT ![q] = k]
           /\ leases' \in [Requests -> [Attempts -> Lease \cup {NoLease}]]
           /\ LeasesExist' /\ SlotsMatchLeases'
<1>1. running' \in [Rows -> Nat] /\ total' \in Nat
  <2>1. r \in Rows
    BY ConfiguredRow
  <2>2. running' = [running EXCEPT ![r] = @ + 1] /\ total' = total + 1
    BY GrantEffect
  <2> QED BY <2>1, <2>2 DEF TypeOK
<1>2. LeasesExist'
  <2>1. /\ active' = [active EXCEPT ![q] = k] /\ leases'[q][k] \in Lease
        /\ \A e \in Requests \ {q} : leases'[e] = leases[e]
    BY GrantEffect
  <2> QED BY <2>1 DEF LeasesExist, TypeOK
<1> QED BY <1>1, <1>2, GrantEffect, GrantCounts

LEMMA SubmitInv ==
    ASSUME Inv, NEW q \in Requests, Submit(q)
    PROVE  Inv'
<1>1. /\ phase[q] = "idle" /\ attempts[q] < MaxAttempts /\ q \notin flagged
      /\ attempts' = [attempts EXCEPT ![q] = @ + 1] /\ tickets' = tickets + 1
      /\ UNCHANGED <<confVars, flagged, avoid, plans>>
      /\ active[q] = 0
  BY DEF Submit, Asks, Inv, TypeOK
<1>2. attempts' \in [Requests -> 0..MaxAttempts] /\ tickets' \in Nat
  BY <1>1 DEF Inv, TypeOK
<1>3. CASE NoModel(q) /\ Fail(q) /\ UNCHANGED ticket
  <2>1. /\ circuit' \in [Idents -> Circuit] /\ bound' \in [Rows -> Idents \cup {Off}]
        /\ budget' \in [Requests -> {"paused", "counting", "spent"}]
    BY <1>3, EnsuredType, PausedType DEF Inv, Fail, EnsureModels
  <2>2. /\ phase' = [phase EXCEPT ![q] = "failed"] /\ plan' = [plan EXCEPT ![q] = 0]
        /\ UNCHANGED leaseVars
    BY <1>3 DEF Fail, Consumed
  <2>3. TypeOK'
    BY <1>1, <1>2, <1>3, <2>1, <2>2 DEF Inv, TypeOK
  <2>4. SessionsLeft' /\ QueueMatchesCallers'
    BY <1>1, <1>3, <2>2 DEF Inv, TypeOK
  <2> QED BY <2>2, <2>3, <2>4, SlotsUntouched DEF Inv
<1>4. CASE /\ \E r \in Choices(plan, q) : Grant(q, attempts[q] + 1, r)
           /\ plan' = Consumed(plan, q)
           /\ UNCHANGED <<ticket, budget>>
  <2>1. PICK r \in Configured : Grant(q, attempts[q] + 1, r)
    BY <1>4, ChoicesConfigured
  <2>2. attempts[q] + 1 \in Attempts
    BY <1>1 DEF Inv, TypeOK
  <2>3. /\ bound' \in [Rows -> Idents \cup {Off}] /\ circuit' \in [Idents -> Circuit]
        /\ phase' = [phase EXCEPT ![q] = "leased"]
        /\ running' \in [Rows -> Nat] /\ total' \in Nat
        /\ active' = [active EXCEPT ![q] = attempts[q] + 1]
        /\ leases' \in [Requests -> [Attempts -> Lease \cup {NoLease}]]
        /\ LeasesExist' /\ SlotsMatchLeases'
    BY <1>1, <2>1, <2>2, GrantInv DEF Inv
  <2>4. plan' = [plan EXCEPT ![q] = 0]
    BY <1>4 DEF Consumed
  <2>5. TypeOK'
    BY <1>1, <1>2, <1>4, <2>2, <2>3, <2>4 DEF Inv, TypeOK
  <2>6. SessionsLeft' /\ QueueMatchesCallers'
    BY <1>1, <1>4, <2>3 DEF Inv, TypeOK
  <2> QED BY <2>3, <2>5, <2>6 DEF Inv
<1>5. CASE /\ EnsureModels
           /\ ticket' = [ticket EXCEPT ![q] = tickets + 1]
           /\ phase' = [phase EXCEPT ![q] = "notifying"]
           /\ UNCHANGED <<budget, plan, leaseVars>>
  <2>1. circuit' \in [Idents -> Circuit] /\ bound' \in [Rows -> Idents \cup {Off}]
    BY <1>5, EnsuredType DEF Inv, EnsureModels
  <2>2. TypeOK'
    BY <1>1, <1>2, <1>5, <2>1 DEF Inv, TypeOK
  <2>3. SessionsLeft' /\ QueueMatchesCallers'
    BY <1>1, <1>5 DEF Inv, TypeOK
  <2> QED BY <1>5, <2>2, <2>3, SlotsUntouched DEF Inv
<1> QED BY <1>3, <1>4, <1>5 DEF Submit

LEMMA PollInv ==
    ASSUME Inv, NEW q \in Requests, Poll(q)
    PROVE  Inv'
<1> DEFINE p == Cleared(plan, Pruned)
<1>1. /\ phase[q] = "waiting" /\ q \notin flagged
      /\ UNCHANGED <<confVars, attempts, flagged, avoid, tickets, plans>>
      /\ active[q] = 0 /\ attempts[q] \in Attempts
  BY DEF Poll, Inv, TypeOK
<1>2. budget' \in [Requests -> {"paused", "counting", "spent"}]
  BY DEF Poll, BudgetTicks, Inv, TypeOK
<1>3. p \in [Requests -> Nat] /\ Pruned \subseteq flagged
  BY DEF Cleared, Pruned, Inv, TypeOK
<1>4. CASE /\ IsNext(q, p)
           /\ \E r \in Choices(p, q) : Grant(q, attempts[q], r)
           /\ ticket' = Cleared(ticket, Pruned \cup {q})
           /\ plan' = Consumed(p, q)
  <2>1. PICK r \in Configured : Grant(q, attempts[q], r)
    BY <1>4, ChoicesConfigured
  <2>2. attempts[q] \in Attempts
    BY <1>1
  <2>3. /\ bound' \in [Rows -> Idents \cup {Off}] /\ circuit' \in [Idents -> Circuit]
        /\ phase' = [phase EXCEPT ![q] = "leased"]
        /\ running' \in [Rows -> Nat] /\ total' \in Nat
        /\ active' = [active EXCEPT ![q] = attempts[q]]
        /\ leases' \in [Requests -> [Attempts -> Lease \cup {NoLease}]]
        /\ LeasesExist' /\ SlotsMatchLeases'
    BY <1>1, <2>1, <2>2, GrantInv DEF Inv
  <2>4. plan' \in [Requests -> Nat] /\ ticket' \in [Requests -> Nat]
    BY <1>3, <1>4 DEF Consumed, Cleared, Inv, TypeOK
  <2>5. TypeOK'
    BY <1>1, <1>2, <2>2, <2>3, <2>4 DEF Inv, TypeOK
  <2>6. \A e \in Requests : ticket'[e] = IF e \in Pruned \cup {q} THEN 0 ELSE ticket[e]
    BY <1>4 DEF Cleared
  <2>7. SessionsLeft' /\ QueueMatchesCallers'
    BY <1>1, <1>3, <2>2, <2>3, <2>6 DEF Inv, TypeOK
  <2> QED BY <2>3, <2>5, <2>7 DEF Inv
<1>5. CASE /\ EnsureModels
           /\ ticket' = Cleared(ticket, Pruned) /\ plan' = p
           /\ UNCHANGED <<phase, leaseVars>>
  <2>1. circuit' \in [Idents -> Circuit] /\ bound' \in [Rows -> Idents \cup {Off}]
    BY <1>5, EnsuredType DEF Inv, EnsureModels
  <2>2. ticket' \in [Requests -> Nat]
    BY <1>5 DEF Cleared, Inv, TypeOK
  <2>3. TypeOK'
    BY <1>1, <1>2, <1>3, <1>5, <2>1, <2>2 DEF Inv, TypeOK
  <2>4. \A e \in Requests : ticket'[e] = IF e \in Pruned THEN 0 ELSE ticket[e]
    BY <1>5 DEF Cleared
  <2>5. SessionsLeft' /\ QueueMatchesCallers'
    BY <1>1, <1>3, <1>5, <2>4 DEF Inv, TypeOK
  <2> QED BY <1>5, <2>3, <2>5, SlotsUntouched DEF Inv
<1> QED BY <1>4, <1>5 DEF Poll

LEMMA ReleaseInv ==
    ASSUME Inv, NEW q \in Requests, Release(q)
    PROVE  Inv'
<1>1. PICK h \in Outcomes :
         /\ ReleaseLease(q, attempts[q], h)
         /\ \/ phase' = [phase EXCEPT ![q] = "done"] /\ UNCHANGED avoid
            \/ /\ HasFreshSession(q)
               /\ phase' = [phase EXCEPT ![q] = "idle"]
               /\ \/ avoid' = [avoid EXCEPT ![q] = @ \cup {leases[q][attempts[q]].ident}]
                  \/ UNCHANGED avoid
  BY DEF Release
<1>2. /\ phase[q] = "leased" /\ active[q] = attempts[q] /\ active[q] > 0
      /\ UNCHANGED <<confVars, attempts, flagged, budget, queueVars>>
  BY DEF Release, Inv
<1>3. /\ UNCHANGED <<bound, leases>> /\ circuit' \in [Idents -> Circuit]
      /\ running' \in [Rows -> Nat] /\ total' \in Nat
      /\ active' = [active EXCEPT ![q] = 0] /\ SlotsMatchLeases'
  BY <1>1, <1>2, ReleaseEffect DEF Inv
<1>4. leases[q][attempts[q]].ident \in Idents
  BY <1>2 DEF Inv, LeasesExist, Lease
<1>5. /\ phase' \in [Requests -> Phases]
      /\ avoid' \in [Requests -> SUBSET Idents]
  <2>1. /\ [phase EXCEPT ![q] = "done"] \in [Requests -> Phases]
        /\ [phase EXCEPT ![q] = "idle"] \in [Requests -> Phases]
    BY DEF Inv, TypeOK
  <2>2. PICK i \in Idents : i = leases[q][attempts[q]].ident
    BY <1>4
  <2>3. [avoid EXCEPT ![q] = @ \cup {i}] \in [Requests -> SUBSET Idents]
    BY DEF Inv, TypeOK
  <2>4. avoid \in [Requests -> SUBSET Idents]
    BY DEF Inv, TypeOK
  <2>5. phase' \in [Requests -> Phases]
    BY <1>1, <2>1
  <2>6. avoid' = [avoid EXCEPT ![q] = @ \cup {i}] \/ avoid' = avoid
    BY <1>1, <2>2
  <2> QED BY <2>3, <2>4, <2>5, <2>6
<1>6. TypeOK'
  <2>1. active' \in [Requests -> 0..MaxAttempts]
    BY <1>3 DEF Inv, TypeOK
  <2> HIDE DEF Phases
  <2> QED BY <1>2, <1>3, <1>5, <2>1 DEF Inv, TypeOK
<1>7. LeasesExist'
  BY <1>3 DEF Inv, TypeOK, LeasesExist
<1>8. SessionsLeft' /\ QueueMatchesCallers'
  BY <1>1, <1>2, <1>3 DEF Inv, TypeOK, HasFreshSession
<1> QED BY <1>3, <1>6, <1>7, <1>8 DEF Inv

(* The identity check of release_model_lease makes a duplicate or late     *)
(* release change nothing.                                                 *)
LEMMA LateReleaseChangesNothing ==
    ASSUME Inv, NEW q \in Requests, LateRelease(q)
    PROVE  UNCHANGED vars
<1>1. PICK k \in Attempts, h \in Outcomes :
         (phase[q] = "leased" => k # attempts[q]) /\ ReleaseLease(q, k, h)
  BY DEF LateRelease
<1>2. ~IsHeld(q, k)
  BY <1>1 DEF Inv, TypeOK, IsHeld
<1> QED BY <1>1, <1>2 DEF LateRelease, ReleaseLease, vars

-----------------------------------------------------------------------------
(* The theorems.                                                           *)

LEMMA NextInv == Inv /\ [Next]_vars => Inv'
<1> SUFFICES ASSUME Inv, [Next]_vars PROVE Inv'
  OBVIOUS
<1>1. CASE UNCHANGED vars
  BY <1>1, SlotsUntouched DEF Inv, TypeOK, vars
<1>2. ASSUME NEW q \in Requests, RequestStep(q) PROVE Inv'
  <2>1. CASE LateRelease(q)
    BY <2>1, <1>1, LateReleaseChangesNothing
  <2> QED BY <1>2, <2>1, RegisterPlanInv, ClearPlanInv, SubmitCancelledInv, SubmitInv,
             NotifiedInv, PollCancelledInv, PollFailedInv, PollInv, WithdrawInv,
             ReleaseInv DEF RequestStep
<1>3. CASE Environment
  BY <1>3, SetCancelInv, BudgetExpiresInv, CooldownInv, WindowMovesInv,
     ApplyConfigInv, RefreshInv DEF Environment
<1> QED BY <1>1, <1>2, <1>3 DEF Next

(* The inductive invariant: types, and counters, queue and leases that     *)
(* agree with what the callers hold and wait for.                          *)
THEOREM InvHolds == Spec => []Inv
BY InitInv, NextInv, PTL DEF Spec

(* Type correctness of the pool for every instance.                        *)
THEOREM TypeCorrect == Spec => []TypeOK
<1>1. Inv => TypeOK
  BY DEF Inv
<1> QED BY <1>1, InvHolds, PTL

(* No interleaving of grants, releases (late and duplicate ones included), *)
(* cancellations and configuration changes loses or duplicates a slot.     *)
THEOREM SlotsAlwaysMatch == Spec => []SlotsMatchLeases
<1>1. Inv => SlotsMatchLeases
  BY DEF Inv
<1> QED BY <1>1, InvHolds, PTL

(* No task ever loses its place in the queue, or holds a place or a slot   *)
(* its caller does not know of.                                            *)
THEOREM QueueAlwaysMatches == Spec => []QueueMatchesCallers
<1>1. Inv => QueueMatchesCallers
  BY DEF Inv
<1> QED BY <1>1, InvHolds, PTL

-----------------------------------------------------------------------------
(* Who is granted a lease, and what of.                                    *)

(* The step that grants q a lease under its k-th attempt: of a row it may  *)
(* choose, while p are the planned tasks.                                  *)
GrantedBy(q, p, k) ==
    /\ active' = [active EXCEPT ![q] = k] /\ k \in Attempts
    /\ leases'[q][k] \in Lease /\ leases'[q][k].row \in Choices(p, q)
    /\ \A e \in Requests \ {q} : leases'[e] = leases[e]
    /\ plan' = Consumed(p, q) /\ cfg' = cfg

SubmitGrants(q) ==
    active[q] = 0 /\ ticket[q] = 0 /\ Pending = {} /\ GrantedBy(q, plan, attempts[q] + 1)
PollGrants(q) ==
    /\ active[q] = 0 /\ ticket[q] > 0 /\ q \notin flagged
    /\ IsNext(q, Cleared(plan, Pruned))
    /\ GrantedBy(q, Cleared(plan, Pruned), attempts[q])

KeepsLeases == UNCHANGED <<active, leases>>

LEMMA SubmitKeepsOrGrants ==
    ASSUME Inv, NEW q \in Requests, Submit(q)
    PROVE  cfg' = cfg /\ (KeepsLeases \/ SubmitGrants(q))
<1>1. cfg' = cfg
  BY DEF Submit
<1>2. CASE UNCHANGED leaseVars
  BY <1>1, <1>2 DEF KeepsLeases
<1>3. CASE /\ Pending = {}
           /\ \E r \in Choices(plan, q) : Grant(q, attempts[q] + 1, r)
           /\ plan' = Consumed(plan, q)
  <2>1. PICK r \in Choices(plan, q) : Grant(q, attempts[q] + 1, r)
    BY <1>3
  <2>2. r \in Configured
    BY ChoicesConfigured
  <2>3. attempts[q] + 1 \in Attempts /\ active[q] = 0 /\ ticket[q] = 0
    BY DEF Submit, Asks, Inv, TypeOK
  <2>4. /\ active' = [active EXCEPT ![q] = attempts[q] + 1]
        /\ leases'[q][attempts[q] + 1] \in Lease
        /\ leases'[q][attempts[q] + 1].row = r
        /\ \A e \in Requests \ {q} : leases'[e] = leases[e]
    BY <2>1, <2>2, <2>3, GrantEffect DEF Inv
  <2> QED BY <1>1, <1>3, <2>3, <2>4 DEF SubmitGrants, GrantedBy
<1> QED BY <1>2, <1>3 DEF Submit, Fail

LEMMA PollKeepsOrGrants ==
    ASSUME Inv, NEW q \in Requests, Poll(q)
    PROVE  cfg' = cfg /\ (KeepsLeases \/ PollGrants(q))
<1> DEFINE p == Cleared(plan, Pruned)
<1>1. cfg' = cfg /\ phase[q] = "waiting" /\ q \notin flagged
  BY DEF Poll
<1>2. CASE UNCHANGED leaseVars
  BY <1>1, <1>2 DEF KeepsLeases
<1>3. CASE /\ IsNext(q, p)
           /\ \E r \in Choices(p, q) : Grant(q, attempts[q], r)
           /\ plan' = Consumed(p, q)
  <2>1. PICK r \in Choices(p, q) : Grant(q, attempts[q], r)
    BY <1>3
  <2>2. r \in Configured
    BY ChoicesConfigured
  <2>3. attempts[q] \in Attempts /\ active[q] = 0 /\ ticket[q] > 0
    BY <1>1 DEF Inv, TypeOK
  <2>4. /\ active' = [active EXCEPT ![q] = attempts[q]]
        /\ leases'[q][attempts[q]] \in Lease
        /\ leases'[q][attempts[q]].row = r
        /\ \A e \in Requests \ {q} : leases'[e] = leases[e]
    BY <2>1, <2>2, <2>3, GrantEffect DEF Inv
  <2> QED BY <1>1, <1>3, <2>3, <2>4 DEF PollGrants, GrantedBy
<1> QED BY <1>2, <1>3 DEF Poll

(* The current lease of a task is given back.                              *)
Gives(q) ==
    /\ active[q] > 0 /\ active' = [active EXCEPT ![q] = 0] /\ leases' = leases /\ cfg' = cfg
    /\ \E h \in Outcomes : circuit' = HealthAfter(leases[q][active[q]], h)

LEMMA ReleaseGives ==
    ASSUME Inv, NEW q \in Requests, Release(q)
    PROVE  Gives(q)
<1>1. PICK h \in Outcomes : ReleaseLease(q, attempts[q], h)
  BY DEF Release
<1>2. active[q] > 0 /\ active[q] = attempts[q] /\ cfg' = cfg
  BY DEF Release, Inv
<1> QED BY <1>1, <1>2 DEF Gives, ReleaseLease, IsHeld

(* So a step grants a lease, gives one back, or leaves the leases alone,   *)
(* and the configuration changes in steps of the last kind only.           *)
LEMMA LeaseSteps ==
    ASSUME Inv, [Next]_vars
    PROVE  \/ \E q \in Requests : SubmitGrants(q) \/ PollGrants(q) \/ Gives(q)
           \/ KeepsLeases /\ (cfg' = cfg \/ cfg' \in Configs)
<1>1. CASE UNCHANGED vars
  BY <1>1 DEF vars, KeepsLeases
<1>2. ASSUME NEW q \in Requests, RequestStep(q)
      PROVE  SubmitGrants(q) \/ PollGrants(q) \/ Gives(q) \/ (KeepsLeases /\ cfg' = cfg)
  <2>1. CASE Submit(q)
    BY <2>1, SubmitKeepsOrGrants
  <2>2. CASE Poll(q)
    BY <2>2, PollKeepsOrGrants
  <2>3. CASE Release(q)
    BY <2>3, ReleaseGives
  <2>4. CASE LateRelease(q)
    BY <2>4, LateReleaseChangesNothing DEF vars, KeepsLeases
  <2>5. CASE \/ RegisterPlan(q) \/ ClearPlan(q) \/ SubmitCancelled(q) \/ Notified(q)
             \/ PollCancelled(q) \/ PollFailed(q) \/ Withdraw(q)
    BY <2>5 DEF RegisterPlan, ClearPlan, SubmitCancelled, Notified, PollCancelled,
                PollFailed, Fail, Withdraw, Leave, KeepsLeases
  <2> QED BY <1>2, <2>1, <2>2, <2>3, <2>4, <2>5 DEF RequestStep
<1>3. CASE Environment
  BY <1>3 DEF Environment, SetCancel, BudgetExpires, Cooldown, WindowMoves, ApplyConfig,
              Refresh, KeepsLeases
<1> QED BY <1>1, <1>2, <1>3 DEF Next

(* Only the task the step is about is granted a lease.                     *)
LEMMA WhoIsGranted ==
    ASSUME Inv, [Next]_vars, NEW q \in Requests, Granted(q)
    PROVE  SubmitGrants(q) \/ PollGrants(q)
<1>1. active \in [Requests -> 0..MaxAttempts]
  BY DEF Inv, TypeOK
<1> QED BY <1>1, LeaseSteps DEF Granted, SubmitGrants, PollGrants, GrantedBy, Gives, KeepsLeases

(* For every number of tasks and rows: no task is granted a lease while a  *)
(* live one that ranks before it could have had one.                       *)
THEOREM NobodyOvertakes == Spec => NoOvertaking
<1> DEFINE p == Cleared(plan, Pruned)
           Fair(q) == \A e \in (Pending \ flagged) \ {q} :
                         OutranksGranted(e, q) => Choices(p, e) = {}
<1>1. ASSUME Inv, [Next]_vars, NEW q \in Requests, Granted(q) PROVE Fair(q)
  <2>1. CASE SubmitGrants(q)
    BY <2>1 DEF SubmitGrants
  <2>2. CASE PollGrants(q)
    <3>1. ticket[q] > 0 /\ \A e \in Requests : Runnable(e, p) => ~Precedes(e, q)
      BY <2>2 DEF PollGrants, IsNext
    <3>2. \A e \in Pending \ flagged : e \in Requests /\ (Choices(p, e) # {} => Runnable(e, p))
      BY DEF Pending, Pruned, Runnable
    <3>3. \A e \in Requests : OutranksGranted(e, q) => Precedes(e, q)
      BY <3>1 DEF OutranksGranted, Precedes
    <3> HIDE DEF p
    <3> QED BY <3>1, <3>2, <3>3
  <2> QED BY <1>1, <2>1, <2>2, WhoIsGranted
<1>2. Inv /\ [Next]_vars =>
        [\A q \in Requests : Granted(q) =>
           \A e \in (Pending \ flagged) \ {q} :
              OutranksGranted(e, q) => Choices(Cleared(plan, Pruned), e) = {}]_vars
  BY <1>1
<1> QED BY <1>2, InvHolds, PTL DEF Spec, NoOvertaking

(* A planned task of a group leaves the rows an earlier one could use.     *)
THEOREM GroupsInOrder == Spec => GroupOrder
<1>1. ASSUME Inv, [Next]_vars, NEW q \in Grouped, Granted(q), plan[q] > 0,
             NEW e \in Grouped, plan'[e] > 0, plan[e] < plan[q]
      PROVE  ~(cfg[leases'[q][active'[q]].row].cap >= Required[e])
  <2>1. q \in Requests /\ e \in Requests
    OBVIOUS
  <2>2. PICK p : /\ p \in [Requests -> Nat] /\ p[q] = plan[q]
                 /\ (p[e] = plan[e] \/ p[e] = 0)
                 /\ \E k \in Attempts : GrantedBy(q, p, k)
    <3>1. CASE SubmitGrants(q)
      <4>1. plan \in [Requests -> Nat]
        BY <1>1 DEF Inv, TypeOK
      <4>2. GrantedBy(q, plan, attempts[q] + 1) /\ attempts[q] + 1 \in Attempts
        BY <3>1 DEF SubmitGrants, GrantedBy
      <4> QED BY <4>1, <4>2
    <3>2. CASE PollGrants(q)
      <4> DEFINE pp == Cleared(plan, Pruned)
      <4>1. plan \in [Requests -> Nat] /\ q \notin Pruned
        BY <1>1, <3>2 DEF PollGrants, Pruned, Inv, TypeOK
      <4>2. pp \in [Requests -> Nat] /\ pp[q] = plan[q] /\ (pp[e] = plan[e] \/ pp[e] = 0)
        BY <2>1, <4>1 DEF Cleared
      <4>3. GrantedBy(q, pp, attempts[q]) /\ attempts[q] \in Attempts
        BY <3>2 DEF PollGrants, GrantedBy
      <4> QED BY <4>2, <4>3
    <3> QED BY <2>1, <3>1, <3>2, <1>1, WhoIsGranted
  <2>3. PICK k \in Attempts : GrantedBy(q, p, k)
    BY <2>2
  <2>4. active'[q] = k /\ leases'[q][k].row \in Choices(p, q) /\ plan' = [p EXCEPT ![q] = 0]
    BY <1>1, <2>1, <2>3 DEF GrantedBy, Consumed, Inv, TypeOK
  <2>5. PlanAllows(p, q, leases'[q][active'[q]].row)
    BY <2>4 DEF Choices
  <2>6. e # q /\ p[e] > 0 /\ p[e] < p[q] /\ p[q] # 0
    <3>1. e # q
      BY <1>1, <2>1, <2>2 DEF Inv, TypeOK
    <3>2. p[e] > 0
      BY <1>1, <2>1, <2>2, <2>4, <3>1
    <3> QED BY <1>1, <2>1, <2>2, <3>1, <3>2 DEF Inv, TypeOK
  <2> QED BY <2>5, <2>6 DEF PlanAllows
<1>2. Inv /\ [Next]_vars =>
        [\A q \in Grouped : Granted(q) /\ plan[q] > 0 =>
           \A e \in Grouped : plan'[e] > 0 /\ plan[e] < plan[q] =>
              ~(cfg[leases'[q][active'[q]].row].cap >= Required[e])]_vars
  BY <1>1
<1> QED BY <1>2, InvHolds, PTL DEF Spec, GroupOrder

(* Only the health state a lease was taken under is changed by its release.*)
THEOREM HealthIsFenced == Spec => HealthFence
<1>1. ASSUME Inv, [Next]_vars, NEW q \in Requests, active[q] > 0, active'[q] = 0,
             NEW i \in Idents, circuit'[i] # circuit[i]
      PROVE  i = leases[q][active[q]].ident /\ circuit[i].gen = leases[q][active[q]].gen
  <2>1. active \in [Requests -> 0..MaxAttempts] /\ circuit \in [Idents -> Circuit]
    BY <1>1 DEF Inv, TypeOK
  <2>2. Gives(q)
    BY <1>1, <2>1, LeaseSteps DEF SubmitGrants, PollGrants, GrantedBy, Gives, KeepsLeases
  <2>3. PICK h \in Outcomes : circuit' = HealthAfter(leases[q][active[q]], h)
    BY <2>2 DEF Gives
  <2>4. PICK l : l = leases[q][active[q]]
    OBVIOUS
  <2>5. circuit' = HealthAfter(l, h)
    BY <2>3, <2>4
  <2>6. Tracked(l) \/ TrackedAtRow(l)
    BY <1>1, <2>5 DEF HealthAfter
  <2>7. i = l.ident
    BY <1>1, <2>1, <2>5 DEF HealthAfter
  <2> QED BY <2>4, <2>6, <2>7 DEF Tracked, TrackedAtRow
<1>2. Inv /\ [Next]_vars =>
        [\A q \in Requests : active[q] > 0 /\ active'[q] = 0 =>
           LET l == leases[q][active[q]] IN
           \A i \in Idents : circuit'[i] # circuit[i] =>
              i = l.ident /\ circuit[i].gen = l.gen]_vars
  BY <1>1
<1> QED BY <1>2, InvHolds, PTL DEF Spec, HealthFence

-----------------------------------------------------------------------------
(* The loop over the configured rows.                                      *)

(* Every nonempty set of naturals has a least element.                     *)
LEMMA LeastNumber ==
    ASSUME NEW T, T \subseteq Nat, T # {}
    PROVE  \E n \in T : \A m \in T : n <= m
<1> DEFINE R == OpToRel(<, Nat)
<1>1. R = {ss \in Nat \X Nat : ss[1] < ss[2]}
  BY DEF OpToRel
<1>2. IsWellFoundedOn(R, Nat)
  BY NatLessThanWellFounded, Zenon
<1> HIDE DEF R
<1>3. \E n \in T : \A m \in T : ~(<<m, n>> \in R)
  BY <1>2, WFMin
<1>4. ASSUME NEW m \in Nat, NEW n \in Nat, m < n PROVE <<m, n>> \in R
  <2>1. <<m, n>> \in Nat \X Nat /\ <<m, n>>[1] = m /\ <<m, n>>[2] = n
    OBVIOUS
  <2> QED BY <1>1, <1>4, <2>1
<1>5. PICK n \in T : \A m \in T : ~(<<m, n>> \in R)
  BY <1>3
<1>6. ASSUME NEW m \in T PROVE n <= m
  <2>1. m \in Nat /\ n \in Nat /\ ~(<<m, n>> \in R)
    BY <1>5
  <2>2. ~(m < n)
    BY <1>4, <2>1, Zenon
  <2> QED BY <2>1, <2>2
<1> QED BY <1>5, <1>6

(* A nonempty finite set of naturals has a greatest element.               *)
LEMMA GreatestNumber ==
    ASSUME NEW S, S \subseteq Nat, S # {}, IsFiniteSet(S)
    PROVE  \E n \in S : \A m \in S : m <= n
<1> DEFINE Topless(T) == T # {} /\ ~ \E n \in T : \A m \in T : m <= n
           Sizes == {Cardinality(T) : T \in {U \in SUBSET S : Topless(U)}}
<1> SUFFICES ASSUME Topless(S) PROVE FALSE
  OBVIOUS
<1>1. Sizes \subseteq Nat /\ Sizes # {}
  <2>1. ASSUME NEW T \in SUBSET S PROVE Cardinality(T) \in Nat
    BY FS_Subset, FS_CardinalityType
  <2>2. Cardinality(S) \in Sizes
    OBVIOUS
  <2> QED BY <2>1, <2>2
<1>2. PICK c \in Sizes : \A d \in Sizes : c <= d
  BY <1>1, LeastNumber
<1>3. PICK T \in SUBSET S : Topless(T) /\ Cardinality(T) = c
  BY <1>2
<1>4. PICK x : x \in T
  BY <1>3
<1>5. IsFiniteSet(T) /\ Cardinality(T \ {x}) = c - 1
  BY <1>3, <1>4, FS_Subset, FS_RemoveElement
<1>6. ~Topless(T \ {x})
  <2> SUFFICES ASSUME Topless(T \ {x}) PROVE FALSE
    OBVIOUS
  <2>1. T \ {x} \in {U \in SUBSET S : Topless(U)}
    BY <1>3
  <2>2. c - 1 \in Sizes
    BY <1>5, <2>1
  <2>3. c \in Nat /\ c <= c - 1
    BY <1>1, <1>2, <2>2
  <2> QED BY <2>3
<1>7. CASE T \ {x} = {}
  BY <1>3, <1>4, <1>7
<1>8. CASE T \ {x} # {}
  <2>1. PICK y \in T \ {x} : \A m \in T \ {x} : m <= y
    BY <1>6, <1>8
  <2>2. x \in Nat /\ y \in Nat /\ T \subseteq Nat
    BY <1>3, <1>4
  <2>3. CASE x <= y
    BY <1>3, <2>1, <2>3
  <2>4. CASE y <= x
    BY <1>3, <1>4, <2>1, <2>2, <2>4
  <2> QED BY <2>2, <2>3, <2>4
<1> QED BY <1>7, <1>8

(* The loop ends with the last configured row id.                          *)
LEMMA HighestRowIsLast ==
    ASSUME Rows # {}
    PROVE  HighestRow \in Rows /\ \A s \in Rows : s <= HighestRow
BY GreatestNumber DEF HighestRow

(* The recursion that defines Visited, as an operator on a given table.    *)
Start == [r \in Rows |-> Object(r)]
Row(g, n) == IF n - 1 \in Rows THEN Visit(g[n - 1], n - 1) ELSE g[n - 1]
Table(g, n) == IF n = 0 THEN Start ELSE Row(g, n)

(* A table of n + 1 stages extends to one of n + 2, so the recursive        *)
(* function Visited is the one its definition describes.                   *)
LEMMA TablesExist == \A m \in Nat : \E g : g = [n \in 0..m |-> Table(g, n)]
<1> DEFINE Without == {m \in Nat : ~ \E g : g = [n \in 0..m |-> Table(g, n)]}
<1> SUFFICES ASSUME Without # {} PROVE FALSE
  OBVIOUS
<1>1. PICK m \in Without : \A n \in Without : m <= n
  BY LeastNumber
<1>2. CASE m = 0
  <2> DEFINE g == [n \in 0..0 |-> Start]
  <2>1. g = [n \in 0..0 |-> Table(g, n)]
    BY DEF Table
  <2> QED BY <1>1, <1>2, <2>1
<1>3. CASE m # 0
  <2>1. m - 1 \in Nat /\ m - 1 \notin Without
    BY <1>1, <1>3
  <2>2. PICK g : g = [n \in 0..m - 1 |-> Table(g, n)]
    BY <2>1
  <2> DEFINE h == [n \in 0..m |-> IF n = m THEN Row(g, m) ELSE g[n]]
  <2>3. ASSUME NEW n \in 0..m PROVE h[n] = Table(h, n)
    <3>1. CASE n = 0
      BY <1>1, <1>3, <2>2, <3>1 DEF Table
    <3>2. CASE n # 0
      <4>1. h[n - 1] = g[n - 1]
        BY <1>1, <3>2
      <4>2. Table(h, n) = Row(h, n) /\ Row(h, n) = Row(g, n)
        BY <3>2, <4>1 DEF Table, Row
      <4>3. n \in 0..m - 1 => g[n] = Row(g, n)
        BY <2>2, <3>2 DEF Table
      <4> HIDE DEF h
      <4>4. h[n] = IF n = m THEN Row(g, m) ELSE g[n]
        BY DEF h
      <4> QED BY <1>1, <4>2, <4>3, <4>4
    <3> QED BY <3>1, <3>2
  <2>4. h = [n \in 0..m |-> Table(h, n)]
    BY <2>3, Zenon
  <2> QED BY <1>1, <2>4
<1> QED BY <1>1, <1>2, <1>3

LEMMA VisitedRows ==
    ASSUME Rows # {}, NEW n \in 0..HighestRow + 1
    PROVE  /\ n = 0 => Visited[n] = Start
           /\ n # 0 /\ n - 1 \in Rows => Visited[n] = Visit(Visited[n - 1], n - 1)
           /\ n # 0 /\ n - 1 \notin Rows => Visited[n] = Visited[n - 1]
<1>0. HighestRow \in Nat
  BY HighestRowIsLast
<1>1. HighestRow + 1 \in Nat
  BY <1>0
<1>2. PICK g : g = [k \in 0..HighestRow + 1 |-> Table(g, k)]
  BY <1>1, TablesExist
<1>3. Visited = CHOOSE f : f = [k \in 0..HighestRow + 1 |-> Table(f, k)]
  BY DEF Visited, Table, Row, Start
<1>4. Visited = [k \in 0..HighestRow + 1 |-> Table(Visited, k)]
  BY <1>2, <1>3, Zenon
<1>5. Visited[n] = Table(Visited, n)
  BY <1>4
<1> QED BY <1>5 DEF Table, Row

(* The stages in closed form: the configured rows below n have the state of*)
(* their target, the others are as they were.                              *)
Named(i) == <<i, Ensured[i].gen>>
TableAt(n) == [r \in Rows |-> IF r \in Configured /\ r < n THEN Named(cfg[r].ident)
                                                         ELSE Object(r)]

(* A target with a row has a first one.                                    *)
LEMMA FirstRow ==
    ASSUME NEW i, NEW r \in RowsOf(i)
    PROVE  \E f \in Rows : IsFirst(f, i) /\ f <= r
<1>1. PICK f \in RowsOf(i) : \A s \in RowsOf(i) : f <= s
  <2>1. RowsOf(i) \subseteq Nat /\ RowsOf(i) # {}
    BY DEF RowsOf, Configured
  <2> QED BY <2>1, LeastNumber
<1> QED BY <1>1 DEF IsFirst, RowsOf, Configured

(* What a row points to before it is visited, and after.                   *)
LEMMA Entries ==
    ASSUME TypeOK, NEW n \in Nat, NEW k \in Rows
    PROVE  /\ k \notin Configured \/ k >= n =>
                /\ TableAt(n)[k] # <<>> <=> bound[k] # Off
                /\ bound[k] # Off => TableAt(n)[k] = <<bound[k], circuit[bound[k]].gen>>
           /\ k \in Configured /\ k < n => /\ TableAt(n)[k] # <<>>
                                          /\ TableAt(n)[k] = Named(cfg[k].ident)
<1>1. \A x, y : <<x, y>> # <<>>
  OBVIOUS
<1>2. k \in Nat
  OBVIOUS
<1>3. k \notin Configured \/ k >= n => TableAt(n)[k] = Object(k)
  BY <1>2 DEF TableAt
<1>4. k \in Configured /\ k < n => TableAt(n)[k] = Named(cfg[k].ident)
  BY <1>2 DEF TableAt
<1> QED BY <1>1, <1>3, <1>4 DEF Object, Named

(* One iteration: the row's own state, that of another row that has the    *)
(* target now or had it before, or a fresh one if no such row is left.     *)
LEMMA VisitFollows ==
    ASSUME TypeOK, NEW r \in Rows
    PROVE  Visit(TableAt(r), r) = TableAt(r + 1)
<1> DEFINE h == TableAt(r)
           i == cfg[r].ident
           others == {k \in Rows \ {r} : h[k] # <<>> /\ h[k][1] = i}
<1>0. r \in Nat /\ \A k \in Rows : k \in Nat
  OBVIOUS
<1>1. CASE r \notin Configured
  <2>1. \A k \in Rows : (k \in Configured /\ k < r) <=> (k \in Configured /\ k < r + 1)
    BY <1>0, <1>1
  <2> QED BY <1>1, <2>1 DEF Visit, TableAt
<1>2. CASE r \in Configured
  <2>1. cfg[r] \in RowConf /\ i \in Idents /\ i # Off /\ r \in RowsOf(i)
    BY <1>2, ConfiguredRow DEF RowConf, RowsOf
  <2>2. PICK f \in Rows : IsFirst(f, i) /\ f <= r
    BY <2>1, FirstRow
  <2>3. f \in RowsOf(i) /\ f \in Configured /\ cfg[f].ident = i
    BY <2>2 DEF IsFirst, RowsOf
  <2>4. TableAt(r + 1) = [h EXCEPT ![r] = Named(i)]
    <3>1. \A k \in Rows \ {r} : (k < r <=> k < r + 1)
      BY <1>0
    <3>2. r < r + 1
      BY <1>0
    <3> QED BY <1>2, <3>1, <3>2 DEF TableAt
  <2>5. Found(i) => Named(i) = <<i, circuit[i].gen>>
    BY <2>1 DEF Named, Ensured
  <2>6. ~Found(i) => Named(i) = <<i, circuit[i].gen + 1>>
    BY <2>1 DEF Named, Ensured, FreshCircuit
  <2>7. ASSUME NEW k \in Rows, k \notin Configured \/ k >= r, h[k] # <<>>, h[k][1] = i
        PROVE  Found(i) /\ h[k] = Named(i)
    <3>1. bound[k] = i /\ h[k] = <<i, circuit[i].gen>>
      BY <1>0, <2>7, Entries
    <3>2. k \notin Configured \/ k >= f
      <4>1. k \in Nat /\ f \in Nat /\ f <= r /\ r \in Nat
        BY <1>0, <2>2
      <4>2. k \notin Configured \/ k >= r
        BY <2>7
      <4> HIDE DEF h, i, others
      <4> QED BY <4>1, <4>2
    <3>3. Found(i)
      BY <2>2, <3>1, <3>2 DEF Found
    <3> QED BY <2>5, <3>1, <3>3
  <2>8. CASE h[r] # <<>> /\ h[r][1] = i
    <3>1. h[r] = Named(i)
      BY <1>0, <2>7, <2>8
    <3>2. [h EXCEPT ![r] = Named(i)] = h
      BY <3>1 DEF TableAt
    <3>3. Visit(h, r) = h
      BY <1>2, <2>8 DEF Visit
    <3> QED BY <2>4, <3>2, <3>3
  <2>9. CASE ~(h[r] # <<>> /\ h[r][1] = i) /\ others # {}
    <3>1. PICK k \in others : k = CHOOSE e \in others : TRUE
      BY <2>9
    <3>2. Visit(h, r) = [h EXCEPT ![r] = h[k]]
      BY <1>2, <2>9, <3>1 DEF Visit
    <3>3. CASE k \in Configured /\ k < r
      <4>1. h[k] = Named(cfg[k].ident)
        BY <1>0, <3>3, Entries
      <4>2. cfg[k].ident = i
        <5>1. h[k][1] = i
          BY <3>1
        <5> HIDE DEF h, i, others
        <5> QED BY <4>1, <5>1 DEF Named
      <4> QED BY <2>4, <3>2, <4>1, <4>2
    <3>4. CASE ~(k \in Configured /\ k < r)
      <4>1. h[k] = Named(i)
        <5>1. k \in Rows /\ k \in Nat /\ h[k] # <<>> /\ h[k][1] = i
          BY <1>0, <3>1
        <5>2. k \notin Configured \/ k >= r
          <6> HIDE DEF h, i, others
          <6> QED BY <1>0, <3>4, <5>1
        <5> HIDE DEF h, i, others
        <5> QED BY <2>7, <5>1, <5>2
      <4> QED BY <2>4, <3>2, <4>1
    <3> QED BY <3>3, <3>4
  <2>10. CASE ~(h[r] # <<>> /\ h[r][1] = i) /\ others = {}
    <3>1. Visit(h, r) = [h EXCEPT ![r] = <<i, circuit[i].gen + 1>>]
      BY <1>2, <2>10 DEF Visit
    <3>2. ~Found(i)
      <4> SUFFICES ASSUME Found(i) PROVE FALSE
        OBVIOUS
      <4>1. PICK e, k \in Rows : IsFirst(e, i) /\ bound[k] = i /\ (k \notin Configured \/ k >= e)
        BY DEF Found
      <4>2. e = f
        BY <1>0, <2>2, <4>1 DEF IsFirst, RowsOf, Configured
      <4>3. f = r
        <5> SUFFICES ASSUME f # r PROVE FALSE
          OBVIOUS
        <5>1. f < r
          BY <1>0, <2>2
        <5>2. h[f] # <<>> /\ h[f] = Named(i)
          <6>1. cfg[f].ident = i /\ f \in Configured /\ r \in Nat
            BY <1>0, <2>3
          <6>2. h[f] # <<>> /\ h[f] = Named(cfg[f].ident)
            BY <5>1, <6>1, Entries
          <6> QED BY <6>1, <6>2
        <5>3. f \in others
          BY <5>2 DEF Named
        <5> QED BY <2>10, <5>3
      <4>4. k \notin Configured \/ k >= r
        BY <4>1, <4>2, <4>3
      <4>5. h[k] # <<>> /\ h[k] = <<i, circuit[i].gen>>
        BY <1>0, <2>1, <4>1, <4>4, Entries
      <4>6. k = r \/ k \in others
        BY <4>5
      <4> QED BY <2>10, <4>5, <4>6
    <3> QED BY <2>4, <2>6, <3>1, <3>2
  <2> QED BY <2>8, <2>9, <2>10
<1> QED BY <1>1, <1>2

(* So every stage has its closed form: a first stage without it would      *)
(* contradict the iteration that leads to it.                              *)
LEMMA LoopTables ==
    ASSUME TypeOK, Rows # {}
    PROVE  \A n \in 0..HighestRow + 1 : Visited[n] = TableAt(n)
<1> DEFINE Wrong == {n \in 0..HighestRow + 1 : Visited[n] # TableAt(n)}
<1> SUFFICES ASSUME Wrong # {} PROVE FALSE
  OBVIOUS
<1>1. PICK n \in Wrong : \A m \in Wrong : n <= m
  <2>1. Wrong \subseteq Nat
    OBVIOUS
  <2> QED BY <2>1, LeastNumber
<1>2. n # 0
  <2>1. TableAt(0) = Start
    BY DEF TableAt, Start
  <2> QED BY <1>1, <2>1, VisitedRows
<1>3. n - 1 \in 0..HighestRow + 1 /\ n - 1 \notin Wrong /\ n - 1 \in Nat
  <2>1. HighestRow \in Nat
    BY HighestRowIsLast
  <2> QED BY <1>1, <1>2, <2>1
<1>4. Visited[n - 1] = TableAt(n - 1)
  BY <1>3
<1>5. CASE n - 1 \in Rows
  <2>1. Visited[n] = Visit(TableAt(n - 1), n - 1)
    BY <1>1, <1>2, <1>4, <1>5, VisitedRows
  <2>2. Visit(TableAt(n - 1), n - 1) = TableAt((n - 1) + 1)
    BY <1>5, VisitFollows
  <2>3. (n - 1) + 1 = n
    BY <1>3, <1>1
  <2> QED BY <1>1, <2>1, <2>2, <2>3
<1>6. CASE n - 1 \notin Rows
  <2>1. \A r \in Rows : r < n - 1 <=> r < n
    BY <1>1, <1>3, <1>6
  <2>2. TableAt(n - 1) = TableAt(n)
    BY <2>1 DEF TableAt
  <2> QED BY <1>1, <1>2, <1>4, <1>6, <2>2, VisitedRows
<1> QED BY <1>5, <1>6

(* After the last row every configured row is bound, and the closed form of*)
(* the model is what the loop computes.                                    *)
LEMMA LoopBinds == ASSUME TypeOK PROVE EnsuredIsTheLoop
<1> SUFFICES ASSUME NEW r \in Rows
             PROVE  AfterLoop[r] = IF Rebound[r] = Off THEN <<>>
                                   ELSE <<Rebound[r], Ensured[Rebound[r]].gen>>
  BY DEF EnsuredIsTheLoop
<1>1. HighestRow \in Nat /\ r <= HighestRow
  BY HighestRowIsLast
<1>2. AfterLoop = TableAt(HighestRow + 1)
  BY <1>1, LoopTables DEF AfterLoop
<1>3. r \in Nat /\ r < HighestRow + 1
  BY <1>1
<1>4. CASE r \in Configured
  <2>1. cfg[r].ident # Off
    BY <1>4, ConfiguredRow DEF RowConf
  <2> QED BY <1>2, <1>3, <1>4, <2>1 DEF TableAt, Named, Rebound
<1>5. CASE r \notin Configured
  <2>1. AfterLoop[r] = Object(r) /\ Rebound[r] = bound[r]
    BY <1>2, <1>5 DEF TableAt, Rebound
  <2>2. CASE bound[r] # Off
    <3>1. bound[r] \in Idents
      BY <2>2 DEF TypeOK
    <3>2. RowsOf(bound[r]) = {} \/ Found(bound[r])
      <4> SUFFICES ASSUME NEW s \in RowsOf(bound[r]) PROVE Found(bound[r])
        OBVIOUS
      <4> QED BY <1>5, FirstRow DEF Found
    <3> QED BY <2>1, <2>2, <3>1, <3>2 DEF Object, Ensured
  <2> QED BY <2>1, <2>2 DEF Object
<1> QED BY <1>4, <1>5

(* For every set of rows and targets, in every reachable state: the loop of*)
(* _ensure_global_models_locked binds the row ids as EnsureModels does.    *)
THEOREM LoopBindsAlike == Spec => []EnsuredIsTheLoop
BY InvHolds, LoopBinds, PTL DEF Inv

-----------------------------------------------------------------------------
(* The pool is the semaphore of LeasePool.                                 *)

Holding == [q \in Requests |-> HeldRow(q)]
Slots == [r \in Rows |-> SlotsOf(r)]

LEMMA SlotsAreNumbers == ASSUME TypeOK PROVE Slots \in [Rows -> Nat]
<1>1. \A r \in Rows : cfg[r] # Off => cfg[r] \in RowConf
  BY DEF TypeOK
<1> QED BY <1>1 DEF Slots, SlotsOf, RowConf

(* The semaphore and the counters agree on who holds a slot of a row.      *)
LEMMA SameHolders ==
    ASSUME NEW r \in Rows
    PROVE  Semaphore!HoldersOf(r) = HoldersOf(r)
BY DEF Semaphore!HoldersOf, HeldRow, HoldersOf

LEMMA SameCount == \A S : Semaphore!Cardinality(S) = Cardinality(S)
BY DEF Semaphore!Cardinality, Cardinality

LEMMA GrantTakes ==
    ASSUME Inv, NEW q \in Requests, active[q] = 0, NEW p, NEW k, GrantedBy(q, p, k)
    PROVE  Semaphore!Next
<1>1. PICK r \in Choices(p, q) : r = leases'[q][k].row
  BY DEF GrantedBy
<1>2. r \in Configured /\ HasSlot(r)
  BY ChoicesConfigured DEF Choices
<1>3. r \in Rows /\ cfg[r] \in RowConf /\ Slots[r] = cfg[r].max
  BY <1>2, ConfiguredRow DEF Configured, Slots, SlotsOf, Inv
<1>4. Semaphore!Cardinality(Semaphore!HoldersOf(r)) < Slots[r]
  BY <1>2, <1>3, SameHolders, SameCount DEF HasSlot, Inv, SlotsMatchLeases
<1>5. Holding[q] = Off
  BY DEF Holding, HeldRow, Inv, TypeOK
<1>6. Holding' = [Holding EXCEPT ![q] = r] /\ Slots' = Slots
  <2>1. active'[q] = k /\ k > 0 /\ cfg' = cfg
    BY DEF GrantedBy, Inv, TypeOK
  <2>2. \A e \in Requests \ {q} : active'[e] = active[e] /\ leases'[e] = leases[e]
    BY DEF GrantedBy, Inv, TypeOK
  <2>3. HeldRow(q)' = r /\ \A e \in Requests \ {q} : HeldRow(e)' = HeldRow(e)
    BY <1>1, <2>1, <2>2 DEF HeldRow
  <2> QED BY <2>1, <2>3 DEF Holding, Slots, SlotsOf
<1>7. Semaphore!Take(q, r)
  BY <1>4, <1>5, <1>6 DEF Semaphore!Take, Holding, Slots
<1> QED BY <1>3, <1>7 DEF Semaphore!Next

LEMMA ReleaseFrees ==
    ASSUME Inv, NEW q \in Requests, Gives(q)
    PROVE  Semaphore!Next
<1>1. PICK r \in Rows : HeldRow(q) = r
  BY DEF Gives, HeldRow, Inv, LeasesExist, Lease
<1>2. /\ active'[q] = 0 /\ cfg' = cfg /\ leases' = leases
      /\ \A e \in Requests \ {q} : active'[e] = active[e]
  BY DEF Gives, Inv, TypeOK
<1>3. HeldRow(q)' = Off /\ \A e \in Requests \ {q} : HeldRow(e)' = HeldRow(e)
  BY <1>2 DEF HeldRow
<1>4. Holding[q] # Off /\ Holding' = [Holding EXCEPT ![q] = Off] /\ Slots' = Slots
  BY <1>1, <1>2, <1>3 DEF Holding, Slots, SlotsOf
<1>5. Semaphore!Give(q)
  BY <1>4 DEF Semaphore!Give, Holding, Slots
<1> QED BY <1>5 DEF Semaphore!Next

(* Grants take, releases give, configurations configure; all else, planning*)
(* and health included, is none of the semaphore's business.               *)
LEMMA PoolStepMaps ==
    ASSUME Inv, [Next]_vars
    PROVE  Semaphore!Next \/ UNCHANGED <<Holding, Slots>>
<1>1. ASSUME NEW q \in Requests, SubmitGrants(q) \/ PollGrants(q) PROVE Semaphore!Next
  BY <1>1, GrantTakes DEF SubmitGrants, PollGrants
<1>2. CASE KeepsLeases
  <2>1. Holding' = Holding
    BY <1>2 DEF KeepsLeases, Holding, HeldRow
  <2>2. Slots' \in [Rows -> Nat]
    <3>1. \A r \in Rows : cfg'[r] # Off => cfg'[r] \in RowConf
      BY NextInv DEF Inv, TypeOK
    <3> QED BY <3>1 DEF Slots, SlotsOf, RowConf
  <2>3. Semaphore!Configure
    BY <2>1, <2>2 DEF Semaphore!Configure, Holding, Slots
  <2> QED BY <2>3 DEF Semaphore!Next
<1> QED BY <1>1, <1>2, ReleaseFrees, LeaseSteps

(* Every behaviour of the pool is one of the semaphore: the slot counters, *)
(* the identity check of a release and the re-read configuration never let *)
(* more tasks onto a row than its slots at the moment of the grant.        *)
THEOREM PoolIsASemaphore == Spec => ImplementsLeasePool
<1>1. Init => Semaphore!Init
  <2> SUFFICES ASSUME Init PROVE Semaphore!Init
    OBVIOUS
  <2>1. \A q \in Requests : HeldRow(q) = Off
    BY DEF Init, HeldRow
  <2>2. Slots \in [Rows -> Nat]
    BY InitInv, SlotsAreNumbers DEF Inv
  <2> QED BY <2>1, <2>2 DEF Semaphore!Init, Slots
<1>2. Inv /\ [Next]_vars => [Semaphore!Next]_<<Holding, Slots>>
  BY PoolStepMaps
<1> QED BY <1>1, <1>2, InvHolds, PTL
        DEF Spec, ImplementsLeasePool, Semaphore!Spec, Holding, Slots

=============================================================================
