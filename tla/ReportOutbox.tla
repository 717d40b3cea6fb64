----------------------------- MODULE ReportOutbox -----------------------------
(***************************************************************************)
(* Delivery of authoritative reports from the Agent to the server:         *)
(* deephole_client/report_outbox.py (SQLite rows and in-process claims) and*)
(* the delivery code of deephole_client/reporter.py.                       *)
(*                                                                         *)
(* Callers queue a report and, when its row is the head of its stream,     *)
(* deliver it themselves; a worker delivers the heads of all streams.  Every*)
(* outbox operation runs under one lock, so it is one action; callers, the *)
(* worker, the server, timeouts, cancellations and crashes interleave      *)
(* between the operations.                                                 *)
(*                                                                         *)
(* Abstracted: payloads (a report is the number of its enqueue); back-off  *)
(* lengths; the caller's wait for the worker's answer, which a timeout     *)
(* bounds; other target URLs; a failing SQLite operation.  A fault is a    *)
(* crash, a cancellation, or a request that outlives its sender.           *)
(***************************************************************************)
EXTENDS Naturals, FiniteSets

CONSTANTS
    Keys,          \* dedupe keys: report identities
    Streams,       \* stream keys: one per scan
    StreamOf,      \* the stream of each key
    Callers,       \* coroutines that report through _queue_post
    Captured,      \* keys stored by _capture_opencode_task_report only
    WithCallback,  \* keys reported with on_delivered
    Terminal,      \* finish and start-failure keys, announced on reconnect
    None,
    MaxReports,    \* bound: enqueued reports
    MaxFaults      \* bound: crashes, cancellations and requests that outlive their sender

ASSUME OutboxAssumption ==
    /\ StreamOf \in [Keys -> Streams]
    /\ Callers \cap Streams = {}
    /\ Captured \subseteq Keys /\ WithCallback \subseteq Keys \ Captured
    /\ Terminal \subseteq Keys
    /\ MaxReports \in Nat /\ MaxFaults \in Nat

VARIABLES
    row,       \* pending_reports: the row of each key, or None
    lastId,    \* AUTOINCREMENT counter of the table
    newest,    \* the newest report enqueued under each key
    reports,   \* reports enqueued so far
    at,        \* where each delivery is
    rep,       \* the PendingReport each delivery works on
    holds,     \* deliveries whose report is in _inflight_reports
    receipts,  \* _outbox_delivery_receipts: (row id, generation)
    late,      \* outbox operations of cancelled coroutines
    calls,     \* on_delivered callbacks run, per report
    answers,   \* what the server has decided about which report
    stray,     \* requests still under way that no delivery waits for
    faults     \* faults so far

tableVars  == <<row, lastId, newest, reports>>
slotVars   == <<at, rep, holds>>
serverVars == <<answers, stray>>
vars == <<tableVars, slotVars, receipts, late, calls, serverVars, faults>>

(* The worker's delivery of a stream's head, and each caller's own delivery.*)
Slots == Streams \cup Callers
Ids == 1..MaxReports
Row == [id : Ids, gen : Ids, blocked : BOOLEAN, due : BOOLEAN]
Report == [key : Keys, id : Ids, gen : Ids, ver : Ids]
ASSUME NoneAssumption == None \notin Row \cup Report
Decisions == {"accepted", "stale", "refused"}
Places == {"idle", "claiming", "orphaned", "sending", "posted", "failed", "busy",
           "closing"} \cup Decisions

Init ==
    /\ row = [k \in Keys |-> None] /\ lastId = 0
    /\ newest = [k \in Keys |-> 0] /\ reports = 0
    /\ at = [s \in Slots |-> "idle"] /\ rep = [s \in Slots |-> None] /\ holds = {}
    /\ receipts = {} /\ late = {}
    /\ calls = [n \in Ids |-> 0]
    /\ answers = {} /\ stray = {} /\ faults = 0

-----------------------------------------------------------------------------
(* The table and the claims.                                               *)

Pending == {k \in Keys : row[k] # None}
ReportOf(k) == [key |-> k, id |-> row[k].id, gen |-> row[k].gen, ver |-> newest[k]]

InFlight(i) == \E s \in holds : rep[s].id = i

IsHead(k) == \A e \in Pending : StreamOf[e] = StreamOf[k] => row[e].id >= row[k].id
PassesBlockedHeads(k) ==   \* faulty variant
    /\ k \in Pending /\ ~row[k].blocked /\ row[k].due
    /\ \A e \in Pending :
         StreamOf[e] = StreamOf[k] /\ ~row[e].blocked => row[e].id >= row[k].id
Ready(k) == k \in Pending /\ ~row[k].blocked /\ row[k].due /\ IsHead(k)

MatchesById(r) == row[r.key] # None /\ row[r.key].id = r.id   \* faulty variant
Matches(r) == row[r.key] # None /\ row[r.key].id = r.id /\ row[r.key].gen = r.gen

ReleasedById(s) == {t \in holds : rep[t].id # rep[s].id}   \* faulty variant
Released(s) == holds \ {s}

Moves(s, from, to) == at[s] = from /\ at' = [at EXCEPT ![s] = to]
Fault == faults < MaxFaults /\ faults' = faults + 1

(* enqueue                                                                 *)
CountsFromZero(k) ==   \* faulty variant
    IF row[k] = None
    THEN [id |-> lastId + 1, gen |-> 0, blocked |-> FALSE, due |-> TRUE]
    ELSE [id |-> row[k].id, gen |-> row[k].gen + 1, blocked |-> FALSE, due |-> TRUE]
Upserted(k) ==
    IF row[k] = None
    THEN [id |-> lastId + 1, gen |-> 1, blocked |-> FALSE, due |-> TRUE]
    ELSE [id |-> row[k].id, gen |-> row[k].gen + 1, blocked |-> FALSE, due |-> TRUE]
Store(k) ==
    /\ reports < MaxReports
    /\ reports' = reports + 1
    /\ row' = [row EXCEPT ![k] = Upserted(k)]
    /\ lastId' = IF row[k] = None THEN lastId + 1 ELSE lastId
    /\ newest' = [newest EXCEPT ![k] = reports + 1]

-----------------------------------------------------------------------------
(* Reporting: _queue_post and the model pool's completion sink.            *)

LockFree == \A p \in Callers : at[p] # "claiming"

Receipt(r) == [id |-> r.id, gen |-> r.gen]

Enqueue(p, k) ==
    /\ at[p] = "idle" /\ LockFree /\ k \notin Captured
    /\ Store(k)
    /\ LET r == [key |-> k, id |-> Upserted(k).id, gen |-> Upserted(k).gen,
                 ver |-> reports + 1]
       IN  /\ rep' = [rep EXCEPT ![p] = r]
           /\ receipts' = {x \in receipts : x.id # r.id}
                            \cup (IF k \in WithCallback THEN {Receipt(r)} ELSE {})
    /\ at' = [at EXCEPT ![p] = "claiming"]
    /\ UNCHANGED <<holds, late, calls, serverVars, faults>>

(* The caller is cancelled while the thread stores its report: the report  *)
(* is kept, its callback is not registered, and the callback of the report *)
(* it replaces is not discarded.                                           *)
CancelEnqueue(p, k) ==
    /\ at[p] = "idle" /\ k \notin Captured /\ Fault
    /\ Store(k)
    /\ late' = IF row[k] = None THEN late
               ELSE late \cup {[rep |-> ReportOf(k), outcome |-> "replaced", done |-> TRUE]}
    /\ UNCHANGED <<slotVars, receipts, calls, serverVars>>

Capture(k) ==
    /\ k \in Captured
    /\ Store(k)
    /\ UNCHANGED <<slotVars, receipts, late, calls, serverVars, faults>>

(* claim                                                                   *)
Claims(p, then) ==
    LET r == rep[p]
        can == ~InFlight(r.id) /\ Matches(r) /\ Ready(r.key)
    IN  /\ at' = [at EXCEPT ![p] = IF can THEN then ELSE "idle"]
        /\ holds' = IF can THEN holds \cup {p} ELSE holds
        /\ rep' = IF can THEN rep ELSE [rep EXCEPT ![p] = None]
        /\ UNCHANGED <<tableVars, receipts, late, calls, serverVars, faults>>

Claim(p) == at[p] = "claiming" /\ Claims(p, "sending")

(* The caller is cancelled while its claim runs in a thread: the lock is   *)
(* released at once, the claim completes later and is then given back.     *)
CancelClaim(p) ==
    /\ Moves(p, "claiming", "orphaned") /\ Fault
    /\ UNCHANGED <<tableVars, rep, holds, receipts, late, calls, serverVars>>

NeverRetired(p) == at[p] = "orphaned" /\ Claims(p, "kept")   \* faulty variant
OrphanClaim(p) == at[p] = "orphaned" /\ Claims(p, "closing")

(* claim_ready, once the worker's previous batch has ended                 *)
WorkerClaim ==
    LET heads == {k \in Keys : Ready(k) /\ ~InFlight(row[k].id)}
        served == {StreamOf[k] : k \in heads}
    IN  /\ \A s \in Streams : at[s] = "idle"
        /\ LockFree /\ heads # {}
        /\ rep' = [s \in Slots |-> IF s \in served
                     THEN ReportOf(CHOOSE k \in heads : StreamOf[k] = s) ELSE rep[s]]
        /\ at' = [s \in Slots |-> IF s \in served THEN "sending" ELSE at[s]]
        /\ holds' = holds \cup served
        /\ UNCHANGED <<tableVars, receipts, late, calls, serverVars, faults>>

-----------------------------------------------------------------------------
(* _send_outbox_report                                                     *)

Post(s) ==
    /\ Moves(s, "sending", "posted")
    /\ UNCHANGED <<tableVars, rep, holds, receipts, late, calls, serverVars, faults>>

(* No agent id yet, or no connection.                                      *)
Offline(s) ==
    /\ Moves(s, "sending", "failed")
    /\ UNCHANGED <<tableVars, rep, holds, receipts, late, calls, serverVars, faults>>

Answer(r, d) == [key |-> r.key, ver |-> r.ver, decision |-> d]

Handled(s, d) ==
    /\ Moves(s, "posted", d)
    /\ answers' = answers \cup {Answer(rep[s], d)}
    /\ UNCHANGED <<tableVars, rep, holds, receipts, late, calls, stray, faults>>

(* 5xx, 408, 425, 429 or a retryable 404                                   *)
Busy(s) ==
    /\ Moves(s, "posted", "busy")
    /\ UNCHANGED <<tableVars, rep, holds, receipts, late, calls, serverVars, faults>>

(* No answer in time: the request is lost, or still under way.             *)
GiveUp(s) ==
    /\ Moves(s, "posted", "failed")
    /\ \/ UNCHANGED <<stray, faults>>
       \/ stray' = stray \cup {rep[s]} /\ Fault
    /\ UNCHANGED <<tableVars, rep, holds, receipts, late, calls, answers>>

(* A request whose sender no longer waits reaches the server.              *)
StrayHandled(r, d) ==
    /\ r \in stray
    /\ stray' = stray \ {r}
    /\ answers' = answers \cup {Answer(r, d)}
    /\ UNCHANGED <<tableVars, slotVars, receipts, late, calls, faults>>

(* What the answer does to the table: acknowledge, defer, block.           *)
Settled(r, outcome) ==
    IF ~Matches(r) THEN row
    ELSE [row EXCEPT ![r.key] = CASE outcome \in {"accepted", "stale"} -> None
                                  [] outcome \in {"failed", "busy"} -> [@ EXCEPT !.due = FALSE]
                                  [] outcome = "refused" -> [@ EXCEPT !.blocked = TRUE]]

Outcomes == Decisions \cup {"failed", "busy"}
CalledBack(r) == Receipt(r) \in receipts /\ Matches(r)

AlwaysCompletes(s) ==   \* faulty variant
    /\ at[s] \in Outcomes
    /\ row' = Settled(rep[s], at[s])
    /\ calls' = IF at[s] = "accepted" /\ rep[s].key \in WithCallback
                THEN [calls EXCEPT ![rep[s].ver] = @ + 1] ELSE calls
    /\ receipts' = IF at[s] \in Decisions THEN receipts \ {Receipt(rep[s])} ELSE receipts
    /\ holds' = Released(s)
    /\ at' = [at EXCEPT ![s] = "closing"]
    /\ UNCHANGED <<lastId, newest, reports, rep, late, serverVars, faults>>
KeepsReceipts(s) ==   \* faulty variant
    /\ at[s] \in Outcomes
    /\ row' = Settled(rep[s], at[s])
    /\ holds' = Released(s)
    /\ at' = [at EXCEPT ![s] = "closing"]
    /\ UNCHANGED <<lastId, newest, reports, rep, receipts, late, calls, serverVars, faults>>
Settle(s) ==
    /\ at[s] \in Outcomes
    /\ row' = Settled(rep[s], at[s])
    /\ calls' = IF at[s] = "accepted" /\ CalledBack(rep[s])
                THEN [calls EXCEPT ![rep[s].ver] = @ + 1] ELSE calls
    /\ receipts' = IF at[s] \in Decisions THEN receipts \ {Receipt(rep[s])} ELSE receipts
    /\ holds' = Released(s)
    /\ at' = [at EXCEPT ![s] = "closing"]
    /\ UNCHANGED <<lastId, newest, reports, rep, late, serverVars, faults>>

(* The finally of _deliver_outbox_report, or of an interrupted claim.      *)
Close(s) ==
    /\ Moves(s, "closing", "idle")
    /\ holds' = Released(s)
    /\ rep' = [rep EXCEPT ![s] = None]
    /\ UNCHANGED <<tableVars, receipts, late, calls, serverVars, faults>>

(* A caller is cancelled while it waits for the server ...                 *)
Cancel(p) ==
    /\ \/ Moves(p, "sending", "closing") /\ UNCHANGED stray
       \/ Moves(p, "posted", "closing") /\ stray' \in {stray, stray \cup {rep[p]}}
    /\ Fault
    /\ UNCHANGED <<tableVars, rep, holds, receipts, late, calls, answers>>

(* ... or while the outbox operation runs in a thread, which goes on.      *)
CancelSettle(p) ==
    /\ at[p] \in Outcomes /\ Fault
    /\ at' = [at EXCEPT ![p] = "closing"]
    /\ late' = late \cup {[rep |-> rep[p], outcome |-> at[p], done |-> FALSE]}
    /\ UNCHANGED <<tableVars, rep, holds, receipts, calls, serverVars>>

LateSettle(x) ==
    /\ x \in late /\ ~x.done
    /\ row' = Settled(x.rep, x.outcome)
    /\ late' = (late \ {x}) \cup {[x EXCEPT !.done = TRUE]}
    /\ holds' = holds \ {p \in Callers : rep[p] = x.rep}
    /\ UNCHANGED <<lastId, newest, reports, at, rep, receipts, calls, serverVars, faults>>

-----------------------------------------------------------------------------
(* Time and crashes.                                                       *)

Due(k) ==
    /\ k \in Pending /\ ~row[k].due
    /\ row' = [row EXCEPT ![k].due = TRUE]
    /\ UNCHANGED <<lastId, newest, reports, slotVars, receipts, late, calls, serverVars,
                   faults>>

Crash ==
    /\ Fault
    /\ at' = [s \in Slots |-> "idle"] /\ rep' = [s \in Slots |-> None] /\ holds' = {}
    /\ receipts' = {} /\ late' = {}
    /\ \E sent \in SUBSET {s \in Slots : at[s] = "posted"} :
         stray' = stray \cup {rep[s] : s \in sent}
    /\ UNCHANGED <<tableVars, calls, answers>>

Deliver(s) ==
    \/ Post(s) \/ Offline(s) \/ Busy(s) \/ GiveUp(s)
    \/ \E d \in Decisions : Handled(s, d)
    \/ Settle(s) \/ Close(s)

Call(p) ==
    \/ \E k \in Keys : Enqueue(p, k) \/ CancelEnqueue(p, k)
    \/ Claim(p) \/ CancelClaim(p) \/ OrphanClaim(p)
    \/ Cancel(p) \/ CancelSettle(p)

Next ==
    \/ \E s \in Slots : Deliver(s)
    \/ \E p \in Callers : Call(p)
    \/ \E k \in Keys : Capture(k) \/ Due(k)
    \/ \E r \in stray, d \in Decisions : StrayHandled(r, d)
    \/ \E x \in late : LateSettle(x)
    \/ WorkerClaim \/ Crash

Spec == Init /\ [][Next]_vars

(* The worker polls every 2 s, back-offs end, requests time out, threads   *)
(* end; the Agent is connected and the server decides again and again.     *)
Fairness ==
    /\ WF_vars(WorkerClaim)
    /\ \A p \in Callers : WF_vars(Claim(p) \/ CancelClaim(p)) /\ WF_vars(OrphanClaim(p))
    /\ \A s \in Slots :
         /\ WF_vars(Post(s) \/ Offline(s)) /\ WF_vars(Settle(s)) /\ WF_vars(Close(s))
         /\ WF_vars(Busy(s) \/ GiveUp(s) \/ \E d \in Decisions : Handled(s, d))
         /\ SF_vars(Post(s)) /\ SF_vars(\E d \in Decisions : Handled(s, d))
    /\ \A k \in Keys : WF_vars(Due(k))

FairSpec == Spec /\ Fairness

-----------------------------------------------------------------------------
(* Properties.                                                             *)

(* Every variable has its type: rows, claims, receipts and requests are    *)
(* about reports that were enqueued.                                       *)
TypeOK ==
    /\ row \in [Keys -> Row \cup {None}] /\ lastId \in 0..MaxReports
    /\ newest \in [Keys -> 0..MaxReports] /\ reports \in 0..MaxReports
    /\ at \in [Slots -> Places] /\ rep \in [Slots -> Report \cup {None}]
    /\ holds \subseteq Slots
    /\ receipts \subseteq [id : Ids, gen : Ids]
    /\ late \subseteq [rep : Report, outcome : Outcomes \cup {"replaced"}, done : BOOLEAN]
    /\ calls \in [Ids -> Nat]
    /\ answers \subseteq [key : Keys, ver : Ids, decision : Decisions]
    /\ stray \subseteq Report
    /\ faults \in 0..MaxFaults

Decided(k, n, d) == [key |-> k, ver |-> n, decision |-> d] \in answers
Received(k, n) == Decided(k, n, "accepted") \/ Decided(k, n, "stale")

(* Nothing is lost: when a report is no longer in the outbox, the server   *)
(* has accepted it or found its execution superseded - that report, not an *)
(* older one that was coalesced into the same row, and whatever crashed,   *)
(* was cancelled, timed out or came late (acknowledge).                    *)
NothingLost ==
    \A k \in Keys : newest[k] > 0 /\ row[k] = None => Received(k, newest[k])

(* A row is blocked only by the server's refusal of its present payload:   *)
(* a refusal that comes back after a newer report was coalesced into the   *)
(* row does not block the newer one (block).                               *)
BlockedIsRefused ==
    \A k \in Pending : row[k].blocked => Decided(k, newest[k], "refused")

(* One process never has two deliveries of one row under way: an older one *)
(* that ends late does not free the claim of its successor (release_claim).*)
OneDelivery ==
    \A s, t \in Slots :
        at[s] \in {"sending", "posted"} /\ at[t] \in {"sending", "posted"} /\ s # t
            => rep[s].id # rep[t].id

(* No overtaking in a stream: the server never first decides about the     *)
(* report in a row while an earlier row of its stream is pending, blocked  *)
(* and deferred ones included (ready, claim).                              *)
NoOvertaking ==
    [][\A k \in Pending :
         (\E d \in Decisions : [key |-> k, ver |-> newest[k], decision |-> d]
                                   \in answers' \ answers) => IsHead(k)]_vars

(* A callback runs at most once, only after the server accepted its report,*)
(* and never for a report that a newer one has replaced: downstream work is*)
(* dispatched once and from the present result, although rows are delivered*)
(* again and a replaced report may still be under way.                     *)
CallbackOnce ==
    [][\A n \in Ids : calls'[n] # calls[n] =>
         /\ calls[n] = 0 /\ calls'[n] = 1
         /\ \E k \in Keys : newest[k] = n /\ Decided(k, n, "accepted")]_vars

(* No callback is forgotten: while a callback is registered its report is  *)
(* still to be delivered, so no answer was consumed without it - unless a  *)
(* delivery was cancelled between the server's answer and its effect, or   *)
(* the enqueue that replaced the report was.                               *)
CallbackAwaitsReport ==
    \A x \in receipts :
        \/ \E k \in Pending : row[k].id = x.id /\ row[k].gen = x.gen
        \/ \E y \in late : Receipt(y.rep) = x

(* Every report gets through: a row is eventually gone, unless a row the   *)
(* server refused heads its stream.                                        *)
Wedged(k) == \E e \in Pending : StreamOf[e] = StreamOf[k] /\ row[e].blocked
GetsThrough == \A k \in Keys : row[k] # None ~> row[k] = None \/ Wedged(k)

(* Expected, but not so when an older row of the stream was refused:       *)
(* a terminal report announced on reconnect is eventually no longer        *)
(* pending: the server defers the recovery of its scan until then          *)
(* (pending_terminal_work, _recover_missing_agent_work).                   *)
Announced(k) == k \in Terminal \cap Pending /\ ~row[k].blocked
AnnouncedIsDelivered == \A k \in Keys : Announced(k) ~> ~Announced(k)

(* The outbox is a durable mailbox: crashes, claims, coalescing and        *)
(* cancelled deliveries implement it.                                      *)
Mailbox == INSTANCE DurableMailbox WITH
    Identities <- Keys,
    box <- [k \in Keys |-> IF row[k] = None THEN 0 ELSE newest[k]],
    last <- newest,
    decided <- {<<x.key, x.ver>> : x \in {y \in answers : y.decision # "refused"}}
ImplementsMailbox == Mailbox!Spec

=============================================================================
