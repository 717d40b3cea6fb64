# A verification model of OpenDeepHole

OpenDeepHole finds vulnerabilities in C/C++ repositories with the help of language
models. A **server** (FastAPI, `src/backend`) keeps scans, users and results; **Agents**
(`src/deephole_client`) run on other machines, connect by WebSocket and HTTP, and execute
the scans; inside an Agent the **task service** (`src/task_agent`) runs LLM sessions of
OpenCode or Codex under the limits of a **model pool**. The parts fail separately: the
server restarts, an Agent restarts, the network drops a connection, an LLM session times
out or exhausts its quota, an administrator changes the models while tasks run, a user
stops and continues a scan. This directory holds TLA+ models of those parts, the TLC
configurations that check them, and TLAPS proofs about them.

| module | what it is |
|---|---|
| `LeasePool` | abstract: a semaphore per model row whose slots may be changed at any time |
| `ModelPool` | the Agent's model pool: queue, admission, planned groups, quota circuits, reconfiguration |
| `MCModelPool` | small instances of `ModelPool` |
| `ModelPoolProofs` | 9 theorems about `ModelPool`, the refinement of `LeasePool` among them |
| `DurableMailbox` | abstract: one durable place per report identity |
| `ReportOutbox` | the Agent's durable outbox and the delivery of its reports |
| `MCReportOutbox` | small instances of `ReportOutbox` |
| `ReportOutboxProofs` | 10 theorems about `ReportOutbox`, the refinement of `DurableMailbox` among them |
| `OneExecution` | abstract: one execution at a time, each revision once, in rising order |
| `ScanExecution` | one scan between the server and its Agent: requests, commands, reports, reconnects, recovery, restarts |
| `MCScanExecution` | small instances of `ScanExecution` |
| `ScanExecutionProofs` | 4 theorems about `ScanExecution`, the refinement of `OneExecution` among them |
| `TaskOutcome` | abstract: one result for each task, over the slots of `LeasePool` |
| `TaskService` | the Agent's task service: the life of a task over the slots of `LeasePool`, sessions, JSON recovery, the stop of an execution |
| `MCTaskService` | a small instance of `TaskService` |
| `TaskServiceProofs` | 6 theorems about `TaskService`, the refinement of `TaskOutcome` among them |
| `FpReview` | the review of findings between the server's jobs, the dispatches and the Agent's queue |
| `MCFpReview` | a small instance of `FpReview` |
| `FpReviewProofs` | 6 theorems about `FpReview` |
| `SharedProcess` | abstract: a process shared by many, replaced only while nobody uses it |
| `ServeManager` | the one OpenCode process that all prompts share, its reloads, and the graph MCP of a directory |
| `MCServeManager` | small instances of `ServeManager` |
| `ServeManagerProofs` | 8 theorems about `ServeManager`, the refinement of `SharedProcess` among them |
| `EventFeed` | abstract: an append-only log, and pages that show all up to the id they remember |
| `EventFanOut` | the live updates of one scan: replicas, the event table, the pages' queues |
| `MCEventFanOut` | a small instance of `EventFanOut` |
| `EventFanOutProofs` | 4 theorems about `EventFanOut`, the refinement of `EventFeed` among them |

`PROJECT.json` maps every definition to the lines it models, lists the hazards of the code
with the properties that guard against them, the runs, the mutants and the findings.

## 1. Inventory

### Inside an Agent

**Model pool** (`task_agent/model_pool.py`). *State*: the configured model rows, re-read
from a callable at every critical section; slot counters per row and in total; active
leases by task; the pending requests and the planned tasks, each with a sequence number; a
health state per execution target with its quota circuit (open until a cooldown ends, then
one probe). *Operations*: `register_planned_task`, `clear_planned_task`,
`acquire_model_lease` (one pass, then a loop that polls every 0.2 s), `release_model_lease`,
`refresh_configured_model_pool`. *Interaction*: called by the task service once per session
of a task; the Agent's main loop applies a configuration and then refreshes. *Hard*:
everything is one event loop, but a caller may be cancelled, its lease replaced and its row
re-bound between any two of its awaits. *Correct when* no slot is lost or freed twice, the
queue is fair, a grant obeys the configuration in force, an outcome touches only the target
it is about, planned groups keep their order, and every wait ends.

**Report outbox** (`deephole_client/report_outbox.py`, delivery in `reporter.py:448-861`).
*State*: a SQLite table with one row per report identity, a generation and a back-off; in
memory the claims, the receipts and callbacks of callers. *Operations*: `enqueue` (replaces
in place), `claim`, `claim_ready`, `acknowledge`, `defer`, `block`, `release_claim`,
`retire_claim`. *Interaction*: callers and one worker deliver over HTTP; on a reconnect the
Agent announces its pending terminal reports and the server defers recovery for those.
*Hard*: crash between any two steps, duplicated and late requests, a report replaced while
the old one is under way, cancellation while a thread runs the SQLite operation. *Correct
when* no report is lost, streams keep their order, callbacks run once.

**Task service** (`task_agent/task_service.py`, `deadline.py`). *State*: the record of each
task (queued, running, terminal) with the frame of its worker, the locks of the sessions,
the cancel events of the executions. *Operations*: `submit_task`, `run_task`,
`cancel_execution`, the attempt loop with validation turns, the formatter, JSON correction
and fresh sessions. *Interaction*: takes a slot of the pool for every session it talks to
and sends its messages through the serve client; a stop of the scan cancels it. *Hard*: a
task queues up to three times for a slot and twice for a session before it ends;
cancellation against completion; a bounded wait for tasks that do not end. *Correct when*
every task ends once and is recorded once, messages of one session never overlap, and a
stopped execution starts nothing more.

**Scan execution, client side** (`server.py`, `task_manager.py`). *State*: the running
tasks with their control revision, the newest revision seen per scan, the FIFO of commands.
*Operations*: `handle_task`, `handle_stop`, `handle_resume`, the hello message and the
confirmation or release of a run. *Hard*: delayed and repeated commands, a disconnect that
drops queued commands, a restart that forgets what was seen.

**Scanner pipeline** (`scanner.py`, `scan_modes.py`, `variant_hunter.py`). One task per
scan: indexing, threat analysis, mining as producers, audit as consumers. *Correct when*
every candidate is audited once, end-of-input reaches every consumer, and a resumed scan
continues from its checkpoint.

**FP review** (server: `scan.py:814-980`, `4402-5094`; Agent: `server.py:504-1137`). *State*:
a job with its execution revision on the server; on the Agent a queue of items, a worker and
a cancel event per job. *Operations*: dispatch by a finding, by the end of the scan or by the
user, `enqueue_fp_review`, the worker, progress, result and finish reports, stop. *Hard*: a
dispatch reads what is unreviewed and sends it some awaits later, into a review that starts,
winds up, was stopped or superseded. *Correct when* no item is lost in a review that is just
ending, and none runs twice at a time. The validation queue beside it (`server.py:1138-1381`)
has the same shape, per item.

**OpenCode serve client** (`task_agent/serve_client.py`). One external process for all the
prompts of the Agent. *State*: the process with its key, the flags dirty and restart
required, the counts of sessions and listings, a lock; per directory the graph MCP entry with
its count and condition. *Operations*: `run_prompt` (acquire, connect the graph, talk, release
each), model listing, skill update, reload when idle. *Hard*: requests, starts and stops of
the process fail or are cancelled at any await; the process may have to be replaced while
others use it; prompts of two scans want different graphs of one directory. *Correct when*
nobody loses the process under its request, an unusable one is replaced before it is given
away, a prompt reads the graph of its scan only, and nobody waits for ever.

**Codex SDK and runtime.** Own external processes and their pipes. Process I/O.

**Engines, prompts, parsers** (`vulnerability_mining`, `threat_analysis`, `fp_review`,
`vulnerability_validation`, `code_graph_build`, `mcp_server`, `llm_json.py`). Analysis of
text and calls to a language model: data, with no protocol.

**Agent process, configuration, self-update** (`main.py`, `config.py`, `updater.py`).
Start-up, the WebSocket loop, configuration; the loop's part in a reconfiguration of the
pool is modelled with the pool, its reconnect and command worker with the scan execution.

### On the server

**Scan execution, server side** (`backend/api/agent.py`, `scan.py`, `scan_runtime.py`, with
the conditional updates of `store/sqlite.py`). *State*: a row per scan with status, reason
of an interruption, execution id and control revision; a cache of running scans; a handler
per connected Agent; a grace timer per lost connection. *Operations*: create, stop,
continue, resume, finish, start failure, events, reattach and recovery after a reconnect,
grace after a disconnect, reconciliation on a read. *Hard*: handlers read, await and write;
stop, continue, finish and recovery of one scan interleave; reports of an old execution
come late; both sides restart. *Correct when* a scan is executed at most once at a time,
by executions of rising revision; an old execution changes nothing of a newer one; a manual
stop lasts; and a scan shown as running is running.

**Agent commands and distributed runtime** (`backend/distributed.py`, `store/postgres.py`).
At-least-once commands claimed by the replica that holds the Agent's socket, recovery of a
dead replica's claims, leases of singletons. *Correct when* a command is executed in its
generation only.

**Event fan-out** (`sse.py`, `distributed.py`, `scan.py`). *State*: per replica a queue of
events to store, the id up to which it has read the common event table, and a bounded queue
per connected page; per page the last id it was sent. *Operations*: publish, store a batch,
read and hand out, connect, replay, receive, disconnect. *Hard*: ids are given out before
they are visible; a batch whose outcome is unknown is stored again; queues overflow; pages
reconnect with an id they remember. *Correct when* no page misses a change unnoticed.

**Store, store maintenance** (`store/*`). One statement or transaction per operation;
offline tools.

**REST administration, frontend, scripts.** One row or directory per request; a display;
packaging. Not protocols.

## 2. Plan

In this order, the most important behaviour first:

1. `ModelPool`, `LeasePool`, their runs and proofs. **Done.**
2. `ReportOutbox`, `DurableMailbox`, their runs and proofs. **Done.**
3. `ScanExecution`, `OneExecution`, their runs and proofs. **Done.**
4. `TaskService`, `TaskOutcome` on top of `LeasePool`: the life of a task, the recovery of
   its JSON output, `cancel_execution`. **Done.** `update_queued_task`, `cancel_task` and `delete_session` have
   no caller in the Agent and are left out.
5. `FpReview`: findings, end of the scan and user dispatch reviews into one queue, its run
   and proofs. **Done**; the validation queue with the sequences of its deltas is left.
6. `ServeManager`, `SharedProcess`: the process, its reloads and the graph MCP. **Done.**
7. `EventFanOut`, `EventFeed`: ids and commits of the event table, its readers, the pages. **Done.**
8. `AgentCommands`: claims by replica and generation, recovery of a dead replica's
   commands. Theorem: a command is never handed to a connection of another generation.
9. `CandidateQueue` of the scanner: producers, consumers, end-of-input, checkpoint, resume.
10. Pure algorithms against a reference: wait-budget and deadline arithmetic, dedupe of
   candidates, merge of token usage.

Every invariant, action property and refinement that a passing run checks is stated by a
theorem; the liveness properties stay with TLC (section 12). `NothingLost`, `RecordedOnce` and
`NobodyIsCutOff` have theorems of their own and no run: they are contained in the refinements
`ImplementsMailbox`, `ImplementsTaskOutcome` and `ImplementsSharedProcess`, which runs check. The theorems left are those of
the modules above that are still to come.

## 3. The model pool

### Correspondence

One asyncio loop runs the pool, and `_STATE_LOCK` sections contain no await. So each
critical section is one action, and callers interleave between them:

| action | code (`model_pool.py` unless named) |
|---|---|
| `RegisterPlan`, `ClearPlan` | `register_planned_task`, `clear_planned_task` (1033, 1067) |
| `SubmitCancelled`, `Submit` | `acquire_model_lease` up to its first await: cancel check, no model, immediate grant, or queueing (1254-1352) |
| `Notified` | the `on_queued` callback returned (1423) |
| `PollCancelled`, `PollFailed`, `Poll` | one turn of the waiting loop (1353-1428): withdrawn by its flag; failed for lack of a model or with its wait over; granted, or not |
| `Withdraw` | the coroutine is cancelled, the `finally` withdraws the request (1429) |
| `Release` | the attempt's `finally`: `release_model_lease`, then the end of the task or a fresh session (`task_service.py:1640-1798`) |
| `LateRelease` | a second release, or that of a lease no longer in `_active_tasks` (1455) |
| `SetCancel`, `BudgetExpires`, `Cooldown`, `WindowMoves` | the caller's cancel event, and clocks |
| `ApplyConfig`, `Refresh` | the configuration the callable returns changes; later `refresh_configured_model_pool` runs (`main.py:476-507`, 1837) |

Every critical section calls `_ensure_global_models_locked`, which binds row ids to health
states in a loop. The actions use its closed form (`Ensured`, `Rebound`). The loop itself is
the recursive function `Visited`, row by row on the objects the ids point to, and
`EnsuredIsTheLoop` says that both agree in every reachable state: TLC checks it on two rows,
`LoopBindsAlike` proves it for every number of them.
A health state is a record named by its target and a generation, since the code compares
objects by identity (`Tracked`).

Abstractions: weights, the health penalty and the order of preference among admissible rows
(the model may pick any of them, so it has every behaviour of the code); statistics,
snapshots, token usage and completion records; the lengths of cooldowns and wait budgets,
which end at any moment. Rows are in the order of their ids. All callers pass
`quota_wait_deadline=None` and `prefer_high=False`, and so does the model; the formatter's
and the JSON correction's leases (`task_service.py:1977`, `2264`) are acquisitions without
extra behaviour and have no actions of their own. Not modelled, and hence "partly" in the
component list: delivery of completion records (229-290).

### Runs

| run | instance | shows |
|---|---|---|
| `pool_queue` | 3 planned requests of one group, of two priorities and three capabilities, 2 rows, one with a window, two wait budgets, cancellation | slots and queue stay consistent with callers, nobody overtakes, groups keep their order |
| `pool_config` | 2 requests, 2 rows, 2 of 5 configurations (row removed, resized, renamed, targets swapped) | the closed form is the loop; the pool implements `LeasePool`, so a grant obeys the slots in force; late outcomes touch only their own target |
| `pool_live` | 2 requests with 2 sessions each, one target with 2 slots, no reconfiguration, fair | every wait ends |

Bounds (`MaxAttempts`, `MaxChanges`, the sets) are small because each behaviour needs little:
an overtaking needs two requests and a third that holds the slot; a swap needs two rows; a
stale outcome needs a lease, a change and a release, and a second change shows the return to
the first target; a retry needs two sessions. `CHECK_DEADLOCK FALSE` is right because
finitely many requests all end.

Fairness (`Fairness`): a waiting request polls every 0.2 s; callbacks return; a task's
attempt has a timeout, and its `finally` releases the lease; owners clear planned entries in
a `finally` (`scanner.py:1143`, `server.py:772`, `970`); clocks run; the main loop refreshes
after it applied a configuration. All weak. An endless supply of requests of higher
priority starves one of lower priority by design; the number of requests is finite here, so
`WaitEnds` does not speak of that.

### Proofs

`ModelPoolProofs` proves, from `PoolAssumption` alone (the shape of the constants, finitely
many rows and requests), by the inductive invariant

    Inv == TypeOK /\ SessionsLeft /\ LeasesExist /\ QueueMatchesCallers /\ SlotsMatchLeases

`TypeOK` is not inductive by itself: that `attempts` stays in range needs a fresh session
left while a caller is idle (`SessionsLeft`); that a counter stays natural needs the held
lease to exist (`LeasesExist`) and the counters to equal the leases. `SlotsMatchLeases`
counts sets, so a grant and a release need the lemmas that `HoldersOf` gains, resp. loses,
exactly one member (`FS_AddElement`, `FS_RemoveElement`); that a late release changes
nothing follows from `QueueMatchesCallers`, because a released or superseded attempt is not
the one in `_active_tasks`. Theorems: `InvHolds`, `TypeCorrect`, `SlotsAlwaysMatch`,
`QueueAlwaysMatches`.

The other theorems are about steps. `LeaseSteps` sums up `Next`: a step grants a lease to one
task, when it submits (`SubmitGrants`) or polls (`PollGrants`), takes back the one its task
holds (`Gives`), or leaves the leases alone; the configuration changes in steps of the last
kind only. A late release is one of these because of the identity check
(`LateReleaseChangesNothing`).

* `NobodyOvertakes` (`NoOvertaking`) and `GroupsInOrder` (`GroupOrder`): a poll grants what
  `IsNext` says over the plan pruned in the same critical section, and whoever submits into
  an empty queue overtakes nobody.
* `HealthIsFenced` (`HealthFence`): only an outcome whose lease has the target and the
  generation of a health state changes it when a lease ends.
* `PoolIsASemaphore` (`ImplementsLeasePool`): a grant is a `Take`, since the counter that
  `HasSlot` reads equals the number of holders (`SlotsMatchLeases`); `Gives` is a `Give`; all
  else is a `Configure`, which may keep the slots. The mapping reads `Off` as "no row", so
  `PoolAssumption` says that it is none; in the code it is `None`, and rows have ids.

* `LoopBindsAlike` (`EnsuredIsTheLoop`): what a loop computes for every number of rows takes an
  induction, and the library's induction theorems take an operator the provers cannot
  instantiate. Least elements do the same in first order: every nonempty set of naturals has
  one (`LeastNumber`, from the library's well-foundedness of `<`). So there is no least stage
  that the recursive definition cannot reach (`TablesExist`), hence `Visited` satisfies its
  equations (`VisitedRows`); and no least stage at which the table differs from its closed form
  `TableAt` (`LoopTables`), since one iteration leads from one closed form to the next
  (`VisitFollows`). There, the row's own state is that of its target, or another row's is, or
  none is, and then every row that had the target was visited before its first new row. The
  entries of two rows with one target are always the same object, so which of them the code's
  `next` finds does not matter.

Only model-checked: liveness.

## 4. The report outbox

### Correspondence

Each `ReportOutbox` method runs under one lock in a thread, so it is one action; the awaits
of `reporter.py` are the borders between actions.

| action | code |
|---|---|
| `Enqueue`, `CancelEnqueue` | `_queue_post` (`reporter.py:648-697`), completed or cancelled in its `to_thread` |
| `Capture` | `_capture_opencode_task_report` (495), the sink of the pool's completion records |
| `Claim`, `CancelClaim`, `OrphanClaim` | `_claim_outbox` (734): claimed; cancelled; the orphaned thread's claim, retired |
| `WorkerClaim` | `claim_ready` of `_run_outbox_worker` (843), one head per stream |
| `Post`, `Offline`, `Handled`, `Busy`, `GiveUp` | `_send_outbox_report` (773): the request leaves; no connection; the server decided; retryable status; no answer in time |
| `Settle`, `Close` | `acknowledge`, `defer` or `block` with callback and receipt; the `finally` |
| `Cancel`, `CancelSettle`, `LateSettle` | the delivery is cancelled while it waits for the server, resp. while the outbox operation runs on in its thread |
| `StrayHandled` | a request whose sender no longer waits reaches the server |
| `Due`, `Crash` | a back-off ended; the process died and restarts with its table |

Abstractions: a report is the number of its enqueue, so "newest" is a comparison; lengths of
back-offs; the caller's bounded wait for the worker's answer (it only reads); one target
URL; the stream of a key is fixed; a failing SQLite operation; the worker's batch limit of
16 (never reached); a receipt is completed in the step that acknowledges, with no await
between; claims are named by the delivery that holds them, as the code compares claim
objects; waiters without callback. Server decisions are arbitrary: any report may be
accepted, refused or found stale, more than once.

### Runs

`outbox`: a reported identity with a callback and one captured from the model pool, in one
stream; one caller and the worker; three enqueues, so that a report is replaced while its
old version is under way; one fault (a crash, a cancellation or a request that outlives its
sender) at any moment. The safety properties, the refinement of `DurableMailbox` (which contains
`NothingLost`), and, fair:
every report gets through unless a refused row heads its stream. One fault is enough to
separate each property from its faulty variants; two interacting faults are outside the run,
and inside the proofs.

Fairness: the worker polls every 2 s, back-offs end, requests time out, threads end (weak);
the Agent is connected and the server decides again and again (strong, on `Post` and
`Handled`): without a connection nothing can be promised.

### Proofs

`ReportOutboxProofs` proves, from the two assumptions on the constants and for any number of
faults, callers, streams and reports,

    Inv == TypeOK /\ TableOK /\ ReportsKnown /\ SentFromHead /\ ClaimsOK /\ CallersApart
             /\ Answered /\ NothingLost /\ BlockedIsRefused

The idea: row ids and generations only grow, so a report that a delivery, a stray request or
a late operation still works on is the one in its row *iff* it is the newest of its identity
(`ReportsKnown`); whoever is between the server's answer and its effect has that answer in
`answers` (`Answered`). Acknowledging by id and generation is then exactly "remove what was
decided". `ClaimsOK` and `CallersApart` say who holds a claim, and give `OneDelivery`.
Theorems: `TypeCorrect`, `NothingIsLost`, `BlockedWasRefused`, `DeliveriesApart`,
`StreamsInOrder` (`NoOvertaking`, which needs `SentFromHead`) and `OutboxIsAMailbox`
(`ImplementsMailbox`: `Init` maps to `Init`, every step to a step or a stutter).

`CallbacksOK` adds what the callbacks need, and is proved on top of `Inv`: a receipt is about
a row that a caller enqueued, a callback of the report that is in a row has not run, and no
report belongs to two keys. A deferred or blocked row keeps its receipts; a row leaves with
them, or leaves an operation in a thread that still has to settle them. It gives
`NoCallbackForgotten` (`CallbackAwaitsReport`) and `CallbacksRunOnce` (`CallbackOnce`).

`BlockedIsRefused` (a late refusal of a report that was replaced blocks nothing) is proved
only and in no run. Only model-checked: liveness.

## 5. The scan execution

### Correspondence

The server's handlers are coroutines: a handler is one action per stretch between the awaits
at which it reads or writes what another handler changes. Its local state is in `req` (the
requests and the recovery), `post` (the handlers of reports), `hello` (the handshake of each
connection) and `saw` (what a page or a stop has read and will go by).
The Agent's command worker takes one command at a time; its state is `doing`.

| action | code (`backend/api/agent.py`, `scan.py`; Agent: `main.py`, `server.py`) |
|---|---|
| `Begin`, `SendTask` | `create_scan`: the first revision, then the task command |
| `LoadForStop`, `WriteStop`, `WriteBack`, `Ask`, `Tell`, `TimesOut` | `stop_scan` and `request_agent_scan_stop`: the user's intent is stored, then the Agent is asked; its answer or 10 s end the wait. A stop that finds the scan ended and its review active writes the status it read back |
| `LoadForContinue`, `Ask`, `Claim`, `PrepareFails`, `SendResume`, `Lost` | `_continue_scan`, for a user and for a recovery |
| `ListInflight`, `Reclaim`, `Overtaken`, `GiveUpRecovery` | `_recover_missing_agent_work` |
| `CheckFinish`, `LoadFinish`, `WriteFinish`, `DropFinished` | `agent_finish_scan` |
| `FailStart` | `agent_scan_execution_failed` |
| `EnsureRunning`, `Revive`, `Cache`, `Advance` | `_ensure_running_scan` and what a result or an event does to the status |
| `Deliver`, `Unanswered`, `Answered` | a report of the Agent's outbox leaves, is given up for now, is acknowledged |
| `TakeStop`, `Stopped` | `handle_stop` |
| `TakeStart`, `Prepared`, `CannotStart`, `Start`, `ReportFailure` | `_handle_resume_command` with `prepare_scan_resume`, `handle_task`, `handle_resume` |
| `RunReports`, `RunEnds`, `RunGone` | the scan's task: a result, its outcome, its end in `TaskManager` |
| `Connect`, `LoadReattached`, `WriteReattached`, `CacheReattached`, `Welcome`, `HangUp` | the hello, `_reattach_active_agent_scans_async`, the welcome with a stop for a scan that was stopped meanwhile, or the discovery that the socket broke |
| `Disconnect`, `GraceEnds` | the end of the socket, `_delayed_cancel` |
| `ReadScan`, `Reconcile`, `ReconcileCached` | a page or a list loads the scan; later `reconcile_offline_agent_scan_state` goes by what was loaded, or by `_running_scans` without an await in between |
| `AgentRestarts`, `ServerRestarts` | what either process forgets |

Abstractions. There is one scan and one Agent. The session id of an execution is new in each
execution, so its revision stands for both. `analyzing` and `auditing` are `running`; the
error messages are the few classes that the code distinguishes (`Whys`). A connection ends
at both ends in one step, except that a handshake under way goes on to its end and writes
what it had loaded before it notices. A page counts the Agent as offline when there is no
connection, and the grace after the start of the server as elapsed. Adjacent writes of one
handler to the Agent of the row and to its status are one step. An event
is handled like a result (`EnsureRunning` may go on to `Advance`). A start is retried by
nobody: a command on a lost connection is lost. Left out: the resume manifest's contents,
candidates, stages, reviews, validations, the runtime update, and PostgreSQL mode, where
a replica claims commands (section 2, step 8). That a refused report blocks its stream is in
`ReportOutbox`; here the server answers every report.

### Runs

| run | instance | shows |
|---|---|---|
| `exec_requests` | two revisions, one result, one page; one stop with a second connection, or any two of a stop and two interchangeable continues (`SYMMETRY`) on one connection | requests, pages, commands, reports and a reattachment interleave at every await, and revisions run one at a time and in order; a settled stop lasts |
| `exec_links` | three connections, two restarts of one side or one of each, three revisions, fair | across reconnects and restarts, a recovery that claimed the scan ends |
| `found_stop_revived` | one execution, one stop | see findings |

A command can be overtaken only by one of another revision, and two continues that read the
same row are what the conditional claim is for: `MaxRev = 2` and two continues suffice. A
command of an old connection needs two connections; a recovery that a second disconnect
cuts short, and the one that takes over from it, need a third. `exec_requests` begins in one
of several states (`MCInit`): whoever does not ask is done from the start, and where two
users ask, the bound on connections is used up. So a reattachment and a page race with a
stop there; that the socket breaks within a second handshake (`HangUp`) is reached in
`exec_links` only, and `StopLasts` across it rests on the theorem. `Posts` is one handler: a
report that was given up by the Agent and is still handled while the next is sent is outside
these runs (`StopLasts` speaks of each handler of `Posts`). `CHECK_DEADLOCK FALSE` because finitely many requests, revisions and
connections are all used up at some point.

`StopLasts` says what is left of a stop after `found_stop_revived`. A user's stop is *settled*
(`Settled`) once the scan is out of the cache and nothing that had read the row before is
still to write: no report, no reattachment (on whatever connection, broken or not), no page,
no other stop with a status to write back, no continue that prepares. From then on only a new
execution takes it back. Before that, every one of these may: section 10.

Fairness (`FairSpec`): the Agent reconnects with a back-off and sends its hello, the server
handles it (`Handshake`); the recovery of a connection goes on, each of its waits being
bounded (`Recovery`). Weak: the awaits end, and nothing disables these steps for ever but a
new disconnect, of which there are finitely many. `RecoverySettles` excepts the last
connection if a command was sent on it before the welcome: the Agent then drops it and
connects again, which the bound on connections no longer allows.

### Proofs

`ScanExecutionProofs` proves, from `ScanAssumption` alone and so for any number of requests,
executions, connections and restarts, the invariant

    Inv == Typed /\ RunsFit /\ CommandsFit /\ DoingFits /\ HandlersFit

`Typed` is `TypeOK` with what it needs to be inductive: finish reports have an outcome, and
connections are numbered. The rest is about *starts under way*: a start can be a command in
the queue, what the worker does, or a handler that has claimed and prepares. `RunsFit` says
that whatever runs has the revision `last`, that the Agent has seen `last` or (after a
restart) nothing, and that `last` is not above the row's revision. If the Agent has seen
something, the fence of the task manager rejects what is not newer. If it has not, every start
under way that can still reach it is newer than `last` (`Below`, `Fits`): an Agent restart
ends the connection, and with it the queue and the reach of every handler that had resolved
it. A claim by a continue raises the revision above all of these. A claim by the recovery
does not: it keeps the revision of `Reclaim`, and is safe because nothing has been sent with
that revision while the recovery holds it (`Recovers`).

`StopsLast` needs that nobody who reads the row after a settled stop comes to write over it
(`ReadsFit`): a page goes by an active row only, a stop writes back the `cancelled` it finds,
and a handshake that finds the user's stop goes on to its welcome. Every step shows this of
what it reads (`ReadsStay`, `HelloMoves`, `SawMoves`).

Every step but one is *calm* (`Calm`): it keeps the invariant and a settled stop, leaves
`last` alone and starts nothing, so it maps to an end or a stutter of `OneExecution`. The one
left is `Start`, which maps to the abstract one. Theorems: `TypeCorrect`, `StopsLast`
(`StopLasts`), `OneExecutionAtATime` (`ImplementsOneExecution`). `RecoverySettles` is only
model-checked.

## 6. The task service

### Correspondence

Every task runs in a worker of its own on one event loop. The frame of the worker (where it
waits, which attempt and which turn it is in) is `rec`; the release of a lease does not
suspend, so it is one step with what surrounds it. The slots are those of `LeasePool`, whose
actions `Take` and `Give` the module uses: what the model pool implements is what the task
service relies on.

| action | code (`task_service.py` unless named) |
|---|---|
| `Submit` | `submit_task` (653), by a component of the run, or of a run that was cancelled and not waited for |
| `Granted`, `Withdrawn`, `Unserved` | `acquire_model_lease` as seen from `_execute_record` (920) and `_recover_structured_output`: a slot, the task's cancellation, no model |
| `Locked` | `async with session_lock` (1057), `correction_lock.acquire` (2294) |
| `Succeeds`, `Again`, `Fails`, `NoServe` | the message in the session: accepted, another turn, failed or timed out, the serve does not start (1165-1656) |
| `Recovers`, `NotFormatted`, `NotCorrected` | the answer has no valid JSON: the slot is released, a formatter queues for one, then the correction in the old session (1376-1474, 2134-2592) |
| `Interrupted` | `OperationDeadline.wait` finds the cancellation (1504) |
| `CallerCancels` | `run_task` is cancelled (708) |
| `RunEnds`, `RunStarts` | the scan's run ends, the next one starts (`server.py:160`, 466) |
| `Stop`, `StopReports` | `handle_stop` (`server.py:256`) with `cancel_execution` (776): the event of the execution is set, its tasks are cancelled, a bounded wait, the answer |

Abstractions: prompts, answers, statistics, which model serves a task. A task that is
cancelled while it waits for the lock of a session notices only once it has the lock, as in
the code. A task that is cancelled while its formatter or its correction is queued leaves no
completion record (`RecordedOnce` allows it). Not modelled, and hence "partly":
`update_queued_task`, `cancel_task` and `delete_session` (`docs/opencode_task_service.md:3`
describes the service; nothing in the Agent calls them), permissions and MCP leases of a
session, progress.

### Run

`tasks`: two tasks of one run continue the same session, with one validation turn, one or
two corrections, one of them with a fresh session; a task of the next run opens a session of
its own. Two slots of one model, so that a task that kept its slot while it queues for the
formatter could block both. The stop names the first revision and comes at any moment, also
when the second run has started. `ImplementsTaskOutcome` is the contract of the service, see
below; `SessionsSerial` is what `docs/opencode_task_service.md:475` promises; `QuietIsQuiet`
is the use the server makes of the answer of a stop.

Fairness (`FairSpec`): weak, for every task's worker. Messages end by their deadline, slots
and locks that stay free are taken. That a wait for a model is given up is *not* assumed:
`EveryTaskEnds` has to hold because slots and locks are given back.

### Proofs

`TaskServiceProofs` proves, from `TaskAssumption`, for any tasks, sessions, executions and
turns, the inductive invariant

    Inv == TypeOK /\ DoneHasEnded /\ SlotsAreUsed /\ LocksAreHeld /\ RecordedOnce
             /\ RunsStopped /\ TasksStopped /\ MatchedAreDone

Almost every step touches the frame, the slot and the lock of one task (`Alone`, `Own`): the
invariant says for each task that a slot and a lock are held exactly where its frame says so
(`SlotsAreUsed`, `LocksAreHeld`), so the session of a message is locked by the one that
sends it. What a stop may answer follows from a chain: the event of the execution is set
(`RunsStopped`), its tasks are marked (`TasksStopped`), and those the stop has waited for
have ended (`MatchedAreDone`). Theorems: `TypeCorrect`, `SessionsAreSerial`
(`SessionsSerial`), `EndsAreRecordedOnce` (`RecordedOnce`), `QuietStaysQuiet`
(`QuietIsQuiet`). Only `EveryTaskEnds` is left to TLC.

`ServiceGivesOutcomes` proves the refinement of `TaskOutcome`, which keeps the slots, the
results, the records and the answer of the stop, and forgets frames, sessions, runs and
events. It says more than the invariants: a result is final, it is written in the same step
that returns the slot and records the end, success and timeout need a slot, and no task of a
stopped execution begins after the stop was told that it is quiet. Each step of a worker is
a beginning (`GrantMaps`), a pause (`PauseMaps`), an end (`EndMaps`, `FailureMaps`) or an end
without a slot (`WaitMaps`); the rest does not show. `TaskOutcome` takes its slots from the
same `LeasePool` that `ModelPool` implements.

## 7. The false-positive review

### Correspondence

| action | code (server: `backend/api/scan.py`; Agent: `deephole_client/server.py`) |
|---|---|
| `Report` | a finding arrives (`agent.py:4325`) |
| `Ensure`, `Acquire`, `Send` | a dispatch: `_ensure_fp_review_job_for_scan` (888), `acquire_fp_review_execution` (`sqlite.py:5188`), the command (4524); for a finding the answer to its report instead |
| `StopReviews`, `TellStop` | `stop_fp_review` (4622) |
| `CalledBack`, `CallbackQueues` | the callback of a delivered finding: `_enqueue_vulnerability_downstream` (`scanner.py:345`), `enqueue_fp_review` (553) around its await |
| `TakeReview`, `TakeItem`, `QueueItem` | `handle_fp_review` (504), item by item |
| `Launch`, `Started`, `Reviewed`, `Collect` | `_run_fp_review_worker` (683) and the items it runs |
| `TakeStop`, `CancelItem`, `Clear`, `WindsUp`, `Leaves` | a stop; the worker's end: it clears the queue when the user stopped it, reports, and goes on if something came meanwhile |
| `WriteProgress`, `Deliver`, `Write` | the server's handlers of progress, results and finish, read and write apart (4851-5094) |

Abstractions: one scan; SQLite serialises store calls (PostgreSQL's concurrency is left out);
an item reports progress once; session ids; adoption of a review after a reconnect. The
outbox is a sequence in which a pending report is replaced in place, as `ReportOutbox` has it.

### Run

`reviews`: two interchangeable findings (`SYMMETRY`), the dispatch at the end of the scan,
two jobs, one worker slot, and a stop at any moment. Two items are what a review that winds
up while the other arrives needs; a second job is one opened after a stop. `NothingStranded` and
`OnceAtATime` except jobs that the user stopped: a stop that races an enqueue does leave the
item behind in a stopped review, in memory, where nothing reads it again. A stop between the
ensuring of a job and the command lets the Agent run a cancelled review, whose results the
server refuses.

`NoneForgotten` excepts scans for which the user asked for a review of his own: see section
10. No liveness is checked here.

### Proofs

`FpReviewProofs` proves, from `ReviewAssumption` and for any number of findings, jobs and
worker slots, three invariants, each of which uses the one before. TLC has checked them as
invariants of the instance of `reviews`.

`Sound` (`SoundInvariant`) is about every state: what a dispatch, a command, an item or a
report names exists, a dispatch has no revision from the future, the Agent knows none either
(`KnownOK`), and a job that is cancelled or whose event is raised was stopped by the user
(`StopOK`). It gives `Types` (`TypeOK`).

`Tracked` (`TrackedInvariant`) is about the jobs the user has not stopped. An item is in the
set of active items exactly if it is being registered, in the queue or in flight, and then in
one of these and once (`Where`, `Single`); the worker goes only with an empty queue
(`WorkerOK`). The steps that matter are those around the awaits: an item is queued after the
worker saw an empty queue and before it left, and `WorksAgain` finds it. It gives
`NothingIsStranded` and `OneReviewAtATime`.

`Kept` is about a scan for which nobody asked for anything else (`OnlyTheScan`). The dispatch
at the end of the scan comes after all findings' dispatches have their revision (`FinalLast`),
so its own is the job's last and no refusal as stale can meet it (`FinalCurrent`); hence a
finding that was not tried awaits that dispatch, is carried by it or is active (`Awaits`), and
when all has settled none is left: `NoneIsForgotten`. The theorem assumes `Final \in Others`,
that the scan's end does dispatch, as `agent_finish_scan` does. The hypothesis is needed: with
`Others = {}` and three findings TLC finds one forgotten, whose callback was overtaken by the
dispatch of another and refused as stale; with two findings it does not.

## 8. The shared OpenCode process

### Correspondence

`OpenCodeServeManager` runs on one event loop; an action is what happens between two awaits.

| action | code (`serve_client.py`) |
|---|---|
| `Begin` | a prompt, listing or update computes its key (6441) |
| `Reuse`, `Reload`, `Drain`, `Stopped`, `StopFails`, `Spawn`, `Healthy`, `StartFails` | `_acquire_session` (8025) with `_ensure_started_locked` (8377), `_wait_until_idle_locked` (8445), `_stop_locked` (9109), `_start_once_locked` (8653); `update_skill_catalog` (7984) |
| `ListNow`, `Probed`, `NotProbed`, `Fetched` | `_acquire_model_listing` (8043), its health check (8224), the request |
| `Enter`, `Connected`, `NotConnected`, `Rejoined` | `_acquire_scan_mcp` (5750-5998): the condition's lock, the wait for another scan's graph, the requests |
| `Finish` | the message, answered, failed or cancelled (6974) |
| `Close`, `Disconnect`, `GiveUp`, `Leave` | the `finally` of `run_prompt`: `_release_scan_mcp` (6171) within its budget, `_release_active_session` (8108) |
| `Withdraw`, `Abandon` | the deadline or the cancellation of a prompt at any await (`deadline.py:65`) |
| `Change`, `Crash` | `mark_dirty` (5173); the process dies |

One directory, one MCP role, and keys that differ in the managed configuration only. A
stopping thread goes on when its caller is cancelled. `live` is what the process itself has
connected, which the code's entry (`mcp`) may get wrong when an answer is lost. A prompt that
waits on a condition which a reload has forgotten (9083-9101) is never notified and ends by
its own deadline, during which the reload waits for it; a release whose budget is over does
not give its reference back until the process is replaced (`GiveUp`). Both are in the model.
Left out, hence "partly": ports and retries of a start, the adoption of a listener, event
channels, the knowledge base's role, `_disable_scan_mcp_lease`, the synchronisation of
managed MCPs, the session API of other components, `shutdown`. An update of the skill
catalogue always needs its update here. Nobody can mark the process during a start (no
session is counted then), so the code's failure generation adds nothing and is left out.

### Runs

| run | instance | shows |
|---|---|---|
| `serve` | three prompts, two of one scan (`SYMMETRY`), one change of the configuration, one crash | counts and lock agree with who holds what; an unusable one is not given away; a prompt that starts alone runs on its configuration; graphs of different scans apart, and none disconnected under a reader |
| `serve_ends` | two prompts of different scans, a listing, an update, one crash, fair | whoever began ends; the manager implements `SharedProcess` |

Three prompts: two that share a graph while a third waits for it. Starts, stops, connections
and messages fail freely in every run, so one change and one crash suffice. Fairness: one
weak condition per actor, on all its steps together: answers, exits and deadlines arrive,
which of them is open. Nothing is assumed of a prompt that waits on a condition, except its
deadline.

`OnOwnConfig` excepts prompts that join running sessions. A prompt whose key was computed
before a change may restart the process after it, with its own key and nothing dirty: then
`config_runtime_status` (5186) calls the process active, though its configuration is not the
latest. `OnOwnConfig` therefore speaks of the key of the prompt, not of the newest one.

### Proofs

`ServeManagerProofs` proves, from `ServeAssumption` (finitely many actors), the invariant
`ProcessInv /\ RefsFit /\ GraphInv`.

`ProcessInv` is about the process. `sessions` and `listings` are the numbers of those who use
it; the lock is held by exactly the one who drains, stops, spawns or probes; whoever replaces
the process is alone (`AllReady`): no session, no listing, no entry of a graph, no condition;
a process in its health gate has its starter's key and is not broken; a broken one is marked
for replacement (`Marked`). It gives `NobodyIsCutOff`, `BrokenIsReplaced` and `OnOwnConfig`.

`ImplementsSharedProcess` says what all this is for, in a specification that knows neither
locks nor counters: a process, its set of users, six steps. The mapping takes as users the
prompts counted in `_active_sessions` and the listings that fetch (`UsersNow`), and a process
that exited as gone at once, though the code learns of it by `poll()` later (`ProcessNow`).
Users of a crashed process hold nothing but must leave before another one starts; that is the
part that ties counters, lock and process together. `ManagerSharesOneProcess` proves it: a
step either leaves process and users alone, or only one of both changes. A process goes or
comes only where `ProcessInv` shows that nobody uses it (`GoesIdle`), which contains
`NobodyIsCutOff`; the step that declares it unusable changes that mark only (`MarkingGives`);
and a prompt joins a process that fits and is not broken (`AcquireMaps`, `UsesMaps`). The
mapping needs a value for "no process" that no process equals (`Nobody \notin Processes`).

`RefsFit` bounds the references of the entry by the prompts that ever entered, and says that
it is there exactly while it has some. `GraphInv` holds while the process is up: every
condition held is the directory's current one, at most one prompt switches the graph, all
holders agree with the entry's scan and are no more than its references, the first and the
last one are alone, a graph that is on is live, and a reader's lease is on only while it is.
Steps come in two kinds: those that acquire or replace the process, which find no graph or
leave it (`NoGraph`, `GraphKept`), and those of a prompt that uses it, which keep, change or
drop the entry (`EntryStays`, `EntryChanges`, `EntryGoes`). It gives `GraphsApart` and
`GraphStays`. `EveryoneEnds` is only model-checked.

## 9. The event stream

### Correspondence

| action | code |
|---|---|
| `Publish` | `publish` (`sse.py:80`): queued, or dropped with a notice to the replica's own pages |
| `TakeBatch`, `Commit`, `WriteFails` | `run_distributed_sse_writer` (142): a batch, stored, retried or given up |
| `BeginTxn`, `Insert`, `Commit` | `publish_stream_events_batch` (`postgres.py:1228`): the advisory lock, the rows with their ids, the commit |
| `Initialize`, `Read`, `Relay`, `Returns`, `ReadFails` | `_initialize_runtime` (`distributed.py:63`), `_fan_out_stream_events` (119) and the loop around it (143) |
| `Put`, `Tell` | `publish_local` (`sse.py:55`): a full queue is replaced by a notice |
| `Open`, `ListMissed`, `Replay`, `Receive`, `Close` | `event_generator` (`scan.py:4793`) and the page's `EventSource` |
| `Crash` | the worker process dies with what it had not stored |

One scan; rows of other scans only move the ids. An event is the number of its publication,
and a page shows the changes in `seen`: it reloads one resource on an event, and everything
on `resync_required`, from a database that already has the change. `last` is both the
generator's last id and the browser's Last-Event-ID, for what is on the wire when a
connection breaks was not taken. A row is handed out to all pages at once, as in the code;
rows of one list are handed out one by one, which lets pages take in between. Left out,
hence "partly": the conversions of `storage_notification`, the deletion of old rows
(`maintenance.py:95-107`), the streams of `sharing.py` and `integration.py`, and the mode
without PostgreSQL, where `publish` puts into the queues directly.

### Run

`events` has two replicas that store, one of which pages connect to (`Hosts`), one page, two
events, a queue of one message (the code: 200) and two attempts (the code: 3). Two events
suffice for ids and commits out of order, for a full queue and for a replay with something
left over. `MaxFaults = 1` is one of: a batch that fails at each attempt, with or without
its commit; a failed list; a crash; a dropped event. A replica that no page connects to
stores its events but does not read; that pages move between replicas is left to the proof,
which puts no bound on `Hosts`, and appears in the run as a replica that goes back to an
earlier id (`ReadFails`) or restarts. `CHECK_DEADLOCK FALSE` because everybody may leave once
all is published.

Fairness, all weak: the writer and the reader of a replica, and the generator of a page, are
tasks whose waits end: the reader wakes every 5 s, the lock is given back by the end of the
transaction. With ever new events another replica could take the lock each time; PostgreSQL
queues those who wait.

`NothingMissed` excepts an event that could not be stored, and a page that came before its
replica had read the newest id; see section 10 for both.

### Proofs

`EventFanOutProofs` proves, from `FanOutAssumption`,

    Inv == TypeOK /\ LockInv /\ Accounted /\ (\A r : ReadInv(r)) /\ (\A p : PageInv(p))

`LockInv`: at most one transaction has rows, and they lie above all committed ones; so the
log only grows at its end (`Grows`), and an id that somebody remembers, being that of a row
(`IsRowId`), stays below every row to come. `ReadInv`: what a replica has read and not handed
out are the next rows after its id. `PageInv`: a page has seen everything up to its id; what
its replica has passed and the page has not seen is told by a message in its queue
(`Covers`), and no message of a higher id comes first (`InOrder`). `Covers` alone is not
inductive: taking a message raises the page's id past an earlier row whose message comes
later. `Accounted` says that no event disappears between the queues. Together they give
`NothingMissed` (`NoPageMissesAny`); `EventuallyShown` is only model-checked.

`EventFeed` is what the ids are for: rows are appended above every id there is, and a page
shows every row up to the id it remembers, so that this id alone says where to go on.
`PagesFollowTheFeed` proves that the fan-out implements it. A step of a replica appends or
does not show (`ReplicaAppends`, from `Grows`); a page joins when it opens, by a reload
(`OpenJoins`), and follows when it replays or receives (`TakesFollow`): that nothing up to
the new id is unseen is `SeenInv` after the step, which is why this theorem needs the whole
invariant and not only the order of the ids.

## 10. Findings

`found_stop_revived` is a violation run with a single property; `PROJECT.json` quotes the
comment and the document it contradicts.

* `found_stop_revived`: `agent_finish_scan` loads the row, awaits, and writes the outcome
  without a condition (`agent.py:5324`); a stop that is stored in between is lost.

The following are known from runs that are not kept; the formula is in the module under
"Expected, but not so" or "What one would expect and the code does not do", and any of them
can be reproduced with the instance given here:

* `ProbeRecovers` of `ModelPool`, with a row that is renamed (`Configs <- Rename`,
  `Requests = {q1}`, `Idents = {a}`, `Windowed`, `Budgeted`, `Planners`, `Grouped = {}`,
  `Priority <- Equal`, `Required <- Low`, `Strict` and `Waits <- Everyone`,
  `MaxAttempts = 2`, `MaxChanges = 1`, `FairSpec`): a release without an outcome looks for
  the health state under the leased row id only (`model_pool.py:1498`); after a rename the
  flag stays and the target is never used again.
* `PastHealthGate` of `ServeManager`, with `Prompts = {p1, p3}`, `Listers` and
  `Updaters = {}`, `MaxChanges` and `MaxCrashes = 0`, `Spec`: the start of the process cleans
  up after an `Exception` only (`serve_client.py:8754`); a prompt cancelled during the health
  gate leaves a process that the next one is given unchecked, against the comment at 8633.
* `StoredOnce` of `EventFanOut`, on the instance of `events`, as are the next two: a batch
  whose commit is not answered is stored again (`sse.py:159-184`), so pages get its events
  twice; `docs/production_scaling.md:79` says that write transactions of unknown outcome are
  not replayed.
* `LossIsTold` of `EventFanOut`: when an event is dropped or its batch given up, the notice
  goes to the pages of that replica only (`sse.py:92`, `174`); pages of the others show the
  old state until something else happens.
* `EarlyMissNothing` of `EventFanOut`: a page that connects before `_initialize_runtime` has
  read the newest id (`distributed.py:69`) misses what is stored in between.
* `AnnouncedIsDelivered` of `ReportOutbox`, with `Terminal = {finish}` and `FairSpec`: a
  terminal report behind a refused row is announced on every reconnect and never delivered,
  and the server defers recovery for it (`report_outbox.py:369`, `agent.py:1681`).
* `RunningIsRun` of `ScanExecution`, with `Stops`, `Continues` and `Viewers = {}`, `Posts = {w1}`,
  `MaxRev = 1`, `MaxConns = 2`, `MaxResults = 0`, `MaxRestarts = 0`:
  `_reattach_active_agent_scans_async` writes the running state it had loaded over a finish
  handled meanwhile (`agent.py:1316`), and the recovery skips the scan because the hello
  announced it: it is shown as running with nothing running.
* `StopStays` of `FpReview`, with `Items = {v1}`, `MaxJob = 1`, `Others = {Final}`: the
  finish of a review (`scan.py:5079`), its progress (4881) or a result (4935) is checked,
  awaits and is written, over a stop that came between; the next dispatch takes the job for
  one to continue. `fp_review/README.md:21` promises that a job the user stopped remains
  cancelled, and the comment at `scan.py:5068` calls that state authoritative.
* `AllReviewed` of `FpReview`, with `Others = {Manual, Final}` and `Early = {v2}`: a review
  the user forces after the dispatch at the end of the scan makes the callback of a late
  finding and that dispatch stale; the Agent refuses both, and the finding waits for the
  next request of the user.
* `RunningRuns` of `FpReview`, on the instance of `reviews`: the outbox replaces a pending
  finish in place, so it overtakes the result that reopens the job, which is then shown as
  running.

Divergences that have no formula; the models behave as the code does:

* Releasing any lease clears the probe flag of its target, whether or not it is the
  probe (`model_pool.py:563`), so a second probe may start while the first one runs.
* When two rows exchange their targets in one update, one target loses its health state
  (`model_pool.py:461`), though the comment at 1847 says health follows the target.
* A retry prefers an untried row only among the rows that are available now (800), so it
  goes back to a tried target while an untried one cools down.
* Replacing a pending report keeps its place in the stream (`report_outbox.py:123`): the
  newest finish of a scan overtakes reports that were enqueued before it.
* Of the writes without a condition in the scan execution, the model contains more than the
  finding above: a continue claimed between the check and the write of a finish is
  overwritten by the older outcome (`agent.py:5324`); a continue whose Agent is gone writes
  its error over whatever the row became (`scan.py:3211`, `Lost`); a user's continue between
  a reconnect and the listing of the recovery is taken for missing work (`agent.py:1582`).
  A user's stop is overwritten by a page that had read the scan and finds the Agent offline
  (`agent.py:1189`: the stop becomes a disconnect, and the recovery continues the scan), by a
  reattachment that had loaded it, even on a socket that broke meanwhile (`agent.py:1316`),
  and by an earlier stop that writes an ended status back (`scan.py:2593`). A page that
  finds a finished scan still cached as running while the Agent is offline cancels it.
  They change what is shown and what is recovered; that one execution runs at a time, each
  revision once, holds nevertheless (`ImplementsOneExecution`).

## 11. Faulty variants

Definitions marked `faulty variant` are not part of any specification. Each is the mutated
form of the definition after it, changed the way a plausible mistake would change the code;
with it in place the property named in `PROJECT.json` fails. A property no such change could
break would say nothing about the code.

## 12. Out of reach and left out

* Liveness and fairness are checked by TLC on the instances above and not proved: `WaitEnds`,
  `GetsThrough`, `RecoverySettles`, `EveryTaskEnds`, `EveryoneEnds`, `EventuallyShown`.
* Wall-clock jumps, SQLite and disk errors, memory limits.
* Components with status `not_modelled` in `PROJECT.json`, each with its reason: planned
  protocols (section 2), text and prompt processing, process I/O, display and tooling. The
  larger part of the repository by lines is of the last three kinds: engines, prompts,
  parsers, REST resources, and the tables behind them.
* Hazards that no property covers yet have a note in `PROJECT.json`; they belong to the
  modules planned next, or to section 10.
* A crash between the storing of a scan and its first revision (`scan.py:1806`) is outside
  the model of the scan execution, and so is a list of scans that looks for a scan in the
  cache after it has left it (`scan.py:1976`: the request fails, no state changes).

## 13. Running

    tlc -workers 2 -config pool_queue.cfg MCModelPool
    tlc -workers 2 -config outbox.cfg MCReportOutbox
    tlc -workers 2 -config exec_requests.cfg MCScanExecution
    tlc -workers 2 -config tasks.cfg MCTaskService
    tlc -workers 2 -config reviews.cfg MCFpReview
    tlc -workers 2 -config serve.cfg MCServeManager
    tlc -workers 2 -config events.cfg MCEventFanOut
    tlapm ModelPoolProofs.tla
    tlapm ReportOutboxProofs.tla
    tlapm ScanExecutionProofs.tla
    tlapm TaskServiceProofs.tla
    tlapm ServeManagerProofs.tla
    tlapm FpReviewProofs.tla
    tlapm EventFanOutProofs.tla
