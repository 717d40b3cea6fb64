---------------------------- MODULE EventFanOut ----------------------------
(***************************************************************************)
(* The live updates of one scan with PostgreSQL and several replicas of    *)
(* the server (backend/sse.py, distributed.py, store/postgres.py, scan.py).*)
(* A handler that changed the scan publishes an event on its replica.  The *)
(* replica's writer stores events in batches; every replica reads the      *)
(* stored rows by rising id and hands them to the pages (browsers) that    *)
(* are connected to it.  A page told of a row reloads what the row is      *)
(* about; a page told to resynchronise reloads everything.                 *)
(*                                                                         *)
(* An event is the number of its publication.  A page's generator and its  *)
(* browser are one: what is on the wire when a connection breaks is a      *)
(* message that was not taken.  Any put may be the one the writer's queue  *)
(* of 10,000 has no room for; a batch is any front part of that queue.     *)
(***************************************************************************)
EXTENDS Integers, Sequences, FiniteSets

CONSTANTS
    Replicas,    \* the server's worker processes
    Hosts,       \* bound: those that pages connect to, and that read
    Pages,       \* browser pages that show the scan
    None,        \* no replica
    QueueLimit,  \* messages a page's queue holds (200)
    MaxTries,    \* attempts to store a batch (3)
    MaxEvents,   \* bound: events
    MaxFaults    \* bound: batches and lists that fail, crashes, overflows of
                 \* a writer's queue

ASSUME FanOutAssumption ==
    /\ None \notin Replicas /\ Hosts \subseteq Replicas
    /\ QueueLimit \in Nat \ {0} /\ MaxTries \in Nat \ {0}
    /\ MaxEvents \in Nat /\ MaxFaults \in Nat

VARIABLES
    published,  \* events published so far
    queued,     \* _distributed_event_queue of each replica
    batch,      \* what its writer is storing
    tries,      \* attempts that failed for this batch
    inTxn,      \* replicas whose writer is inside its transaction
    inserted,   \* rows of that transaction, not visible to others
    log,        \* the committed rows of scan_stream_events
    ids,        \* the last id the sequence gave out
    started,    \* replicas whose distributed runtime is initialised
    cursor,     \* last_id of run_distributed_runtime
    at,         \* last_id inside _fan_out_stream_events
    rows,       \* rows that were read and not yet handed out
    home,       \* the replica a page is connected to
    inbox,      \* the page's queue on that replica
    listed,     \* the page's missed rows have been listed
    replay,     \* those that are still to be sent
    last,       \* the Last-Event-ID of the page
    early,      \* the page came before its replica was initialised
    seen,       \* events whose change the page shows
    lost,       \* events that could not be stored
    faults

writeVars == <<published, queued, batch, tries, inTxn, inserted, ids, lost>>
readVars  == <<started, cursor, at, rows>>
pageVars  == <<home, listed, replay, last, early, seen>>
vars == <<writeVars, log, readVars, pageVars, inbox, faults>>

Row == [id : Nat \ {0}, event : Nat \ {0}]
Notice(i) == [id |-> i, event |-> 0]   \* resync_required; 0: without an id
Message == [id : Nat, event : Nat]

Init ==
    /\ published = 0 /\ ids = 0 /\ faults = 0
    /\ log = {} /\ inTxn = {} /\ started = {}
    /\ queued = [r \in Replicas |-> {}] /\ batch = [r \in Replicas |-> {}]
    /\ tries = [r \in Replicas |-> 0]
    /\ inserted = [r \in Replicas |-> {}] /\ lost = [r \in Replicas |-> {}]
    /\ cursor = [r \in Replicas |-> 0] /\ at = [r \in Replicas |-> 0]
    /\ rows = [r \in Replicas |-> {}]
    /\ home = [p \in Pages |-> None] /\ inbox = [p \in Pages |-> <<>>]
    /\ listed = [p \in Pages |-> FALSE] /\ replay = [p \in Pages |-> {}]
    /\ last = [p \in Pages |-> 0] /\ early = [p \in Pages |-> FALSE]
    /\ seen = [p \in Pages |-> {}]

-----------------------------------------------------------------------------
(* publish_local: a message for every page of the replica; a full queue is *)
(* replaced by a notice.                                                   *)

DropsOldest(q, m) ==   \* faulty variant
    IF Len(q) < QueueLimit THEN Append(q, m) ELSE Append(Tail(q), m)
Put(q, m) == IF Len(q) < QueueLimit THEN Append(q, m) ELSE <<Notice(m.id)>>
Tell(r, m) == inbox' = [p \in Pages |-> IF home[p] = r THEN Put(inbox[p], m) ELSE inbox[p]]

-----------------------------------------------------------------------------
(* The writer.                                                             *)

(* publish: queued, or dropped with a notice to the replica's own pages.   *)
Publish(r) ==
    LET e == published + 1 IN
    /\ published < MaxEvents
    /\ published' = e
    /\ \/ queued' = [queued EXCEPT ![r] = @ \cup {e}] /\ UNCHANGED <<lost, inbox, faults>>
       \/ /\ faults < MaxFaults
          /\ faults' = faults + 1
          /\ lost' = [lost EXCEPT ![r] = @ \cup {e}] /\ Tell(r, Notice(0))
          /\ UNCHANGED queued
    /\ UNCHANGED <<batch, tries, inTxn, inserted, ids, log, readVars, pageVars>>

(* The writer's task is started by an initialised runtime.                 *)
TakeBatch(r) ==
    /\ r \in started /\ batch[r] = {}
    /\ \E e \in queued[r] :
         /\ batch' = [batch EXCEPT ![r] = {x \in queued[r] : x <= e}]
         /\ queued' = [queued EXCEPT ![r] = {x \in @ : x > e}]
    /\ UNCHANGED <<published, tries, inTxn, inserted, ids, lost, log, readVars,
                   pageVars, inbox, faults>>

(* pg_advisory_xact_lock: ids are given out in the order of the commits.   *)
NoLock == TRUE   \* faulty variant
LockIsFree == inTxn = {}

BeginTxn(r) ==
    /\ batch[r] # {} /\ r \notin inTxn /\ LockIsFree
    /\ inTxn' = inTxn \cup {r}
    /\ UNCHANGED <<published, queued, batch, tries, inserted, ids, lost, log, readVars,
                   pageVars, inbox, faults>>

Uninserted(r) == {e \in batch[r] : \A x \in inserted[r] : x.event # e}

Insert(r) ==
    /\ r \in inTxn
    /\ \E e \in Uninserted(r) :
         /\ \A x \in Uninserted(r) : e <= x
         /\ inserted' = [inserted EXCEPT ![r] = @ \cup {[id |-> ids + 1, event |-> e]}]
    /\ ids' = ids + 1
    /\ UNCHANGED <<published, queued, batch, tries, inTxn, lost, log, readVars,
                   pageVars, inbox, faults>>

(* The transaction's end, by commit, rollback or a broken connection.      *)
KeepsLock(r) ==   \* faulty variant
    inTxn' = inTxn /\ inserted' = [inserted EXCEPT ![r] = {}]
EndTxn(r) == inTxn' = inTxn \ {r} /\ inserted' = [inserted EXCEPT ![r] = {}]

CanCommit(r) == r \in inTxn /\ Uninserted(r) = {}

Commit(r) ==
    /\ CanCommit(r)
    /\ log' = log \cup inserted[r]
    /\ batch' = [batch EXCEPT ![r] = {}] /\ tries' = [tries EXCEPT ![r] = 0]
    /\ EndTxn(r)
    /\ UNCHANGED <<published, queued, ids, lost, readVars, pageVars, inbox, faults>>

(* A call failed before its commit, or its commit's answer is lost.        *)
Interrupted(r) == log' = log \/ (CanCommit(r) /\ log' = log \cup inserted[r])

TriesForEver(r) == TRUE   \* faulty variant
MayRetry(r) == tries[r] + 1 < MaxTries

WriteFails(r) ==
    /\ batch[r] # {}
    /\ \/ tries[r] > 0 /\ UNCHANGED faults
       \/ tries[r] = 0 /\ faults < MaxFaults /\ faults' = faults + 1
    /\ Interrupted(r) /\ EndTxn(r)
    /\ \/ /\ MayRetry(r)
          /\ tries' = [tries EXCEPT ![r] = @ + 1]
          /\ UNCHANGED <<batch, lost, inbox>>
       \/ /\ ~MayRetry(r)
          /\ tries' = [tries EXCEPT ![r] = 0] /\ batch' = [batch EXCEPT ![r] = {}]
          /\ lost' = [lost EXCEPT ![r] = @ \cup batch[r]]
          /\ Tell(r, Notice(0))
    /\ UNCHANGED <<published, queued, ids, readVars, pageVars>>

-----------------------------------------------------------------------------
(* The reader: _initialize_runtime and _fan_out_stream_events.             *)

Initialize(r) ==
    /\ r \notin started
    /\ \E i \in {0} \cup {x.id : x \in log} :
         /\ \A x \in log : x.id <= i
         /\ cursor' = [cursor EXCEPT ![r] = i] /\ at' = [at EXCEPT ![r] = i]
    /\ started' = started \cup {r}
    /\ UNCHANGED <<writeVars, log, rows, pageVars, inbox, faults>>

(* One list of at most 1000 rows.  The rows are handed out without an      *)
(* await; the model does it row by row, so that pages may take in between. *)
Unread(r) == {x \in log : x.id > at[r]}

Read(r) ==
    /\ r \in Hosts \cap started /\ rows[r] = {}
    /\ \E c \in Unread(r) : rows' = [rows EXCEPT ![r] = {x \in Unread(r) : x.id <= c.id}]
    /\ UNCHANGED <<writeVars, log, started, cursor, at, pageVars, inbox, faults>>

Relay(r) ==
    /\ \E x \in rows[r] :
         /\ \A y \in rows[r] : x.id <= y.id
         /\ rows' = [rows EXCEPT ![r] = @ \ {x}]
         /\ at' = [at EXCEPT ![r] = x.id]
         /\ Tell(r, x)
    /\ UNCHANGED <<writeVars, log, started, cursor, pageVars, faults>>

(* A list was short, and the loop takes over the id that was reached.      *)
Returns(r) ==
    /\ rows[r] = {} /\ at[r] # cursor[r]
    /\ cursor' = [cursor EXCEPT ![r] = at[r]]
    /\ UNCHANGED <<writeVars, log, started, at, rows, pageVars, inbox, faults>>

(* The list after a full one failed: the loop starts again from its id.    *)
ReadFails(r) ==
    /\ rows[r] = {} /\ at[r] # cursor[r] /\ faults < MaxFaults
    /\ faults' = faults + 1
    /\ at' = [at EXCEPT ![r] = cursor[r]]
    /\ UNCHANGED <<writeVars, log, started, cursor, rows, pageVars, inbox>>

(* The process dies and is started again.                                  *)
Crash(r) ==
    /\ faults < MaxFaults
    /\ faults' = faults + 1
    /\ Interrupted(r) /\ EndTxn(r)
    /\ lost' = [lost EXCEPT ![r] = @ \cup queued[r] \cup batch[r]]
    /\ queued' = [queued EXCEPT ![r] = {}] /\ batch' = [batch EXCEPT ![r] = {}]
    /\ tries' = [tries EXCEPT ![r] = 0]
    /\ started' = started \ {r}
    /\ cursor' = [cursor EXCEPT ![r] = 0] /\ at' = [at EXCEPT ![r] = 0]
    /\ rows' = [rows EXCEPT ![r] = {}]
    /\ home' = [p \in Pages |-> IF home[p] = r THEN None ELSE home[p]]
    /\ UNCHANGED <<published, ids, listed, replay, last, early, seen, inbox>>

-----------------------------------------------------------------------------
(* A page: event_generator of the scan's event stream.                     *)

All == 1..published

(* Subscribed, then told to resynchronise.                                 *)
Open(p, r) ==
    /\ home[p] = None
    /\ home' = [home EXCEPT ![p] = r]
    /\ inbox' = [inbox EXCEPT ![p] = <<>>] /\ replay' = [replay EXCEPT ![p] = {}]
    /\ listed' = [listed EXCEPT ![p] = (last[p] = 0)]
    /\ early' = [early EXCEPT ![p] = (r \notin started)]
    /\ seen' = [seen EXCEPT ![p] = All]
    /\ UNCHANGED <<writeVars, log, readVars, last, faults>>

(* list_stream_events after the Last-Event-ID, at most 1000 rows.          *)
Missed(p) == {x \in log : x.id > last[p]}

ListMissed(p) ==
    /\ home[p] # None /\ ~listed[p]
    /\ listed' = [listed EXCEPT ![p] = TRUE]
    /\ \/ Missed(p) = {} /\ UNCHANGED replay
       \/ \E c \in Missed(p) :
            replay' = [replay EXCEPT ![p] = {x \in Missed(p) : x.id <= c.id}]
    /\ UNCHANGED <<writeVars, log, readVars, home, last, early, seen, inbox, faults>>

Replay(p) ==
    /\ home[p] # None
    /\ \E x \in replay[p] :
         /\ \A y \in replay[p] : x.id <= y.id
         /\ replay' = [replay EXCEPT ![p] = @ \ {x}]
         /\ last' = [last EXCEPT ![p] = x.id]
         /\ seen' = [seen EXCEPT ![p] = @ \cup {x.event}]
    /\ UNCHANGED <<writeVars, log, readVars, home, listed, early, inbox, faults>>

(* A message that a replay or an earlier message covers is left out.       *)
IsOld(p, m) == m.id # 0 /\ m.id <= last[p]

Receive(p) ==
    LET m == Head(inbox[p]) IN
    /\ home[p] # None /\ listed[p] /\ replay[p] = {} /\ inbox[p] # <<>>
    /\ inbox' = [inbox EXCEPT ![p] = Tail(@)]
    /\ \/ IsOld(p, m) /\ UNCHANGED <<last, seen>>
       \/ /\ ~IsOld(p, m)
          /\ last' = [last EXCEPT ![p] = IF m.id = 0 THEN @ ELSE m.id]
          /\ seen' = [seen EXCEPT ![p] = IF m.event = 0 THEN All ELSE @ \cup {m.event}]
    /\ UNCHANGED <<writeVars, log, readVars, home, listed, replay, early, faults>>

Close(p) ==
    /\ home[p] # None
    /\ home' = [home EXCEPT ![p] = None]
    /\ UNCHANGED <<writeVars, log, readVars, listed, replay, last, early, seen, inbox,
                   faults>>

-----------------------------------------------------------------------------
Writer(r) == TakeBatch(r) \/ BeginTxn(r) \/ Insert(r) \/ Commit(r)
Reader(r) == Initialize(r) \/ Read(r) \/ Relay(r) \/ Returns(r)
Page(p)   == ListMissed(p) \/ Replay(p) \/ Receive(p)

ReplicaStep(r) ==
    Publish(r) \/ Writer(r) \/ WriteFails(r) \/ Reader(r) \/ ReadFails(r) \/ Crash(r)
PageStep(p) == (\E r \in Hosts : Open(p, r)) \/ Page(p) \/ Close(p)

Next == (\E r \in Replicas : ReplicaStep(r)) \/ (\E p \in Pages : PageStep(p))

Spec == Init /\ [][Next]_vars

(* The tasks of a replica go on: the writer waits for events and for the   *)
(* lock, which others give back, the reader sweeps every 5 s, and a page   *)
(* that is connected takes what it is sent.                                *)
Fairness ==
    /\ \A r \in Replicas : WF_vars(Writer(r)) /\ WF_vars(Reader(r))
    /\ \A p \in Pages : WF_vars(Page(p))

FairSpec == Spec /\ Fairness

-----------------------------------------------------------------------------
(* Properties.                                                             *)

(* Every variable has its type: the queues of sse.py, the rows of the      *)
(* stream, the ids of the runtime and of the pages.                        *)
TypeOK ==
    /\ published \in 0..MaxEvents /\ ids \in Nat /\ faults \in 0..MaxFaults
    /\ inTxn \subseteq Replicas /\ started \subseteq Replicas
    /\ log \subseteq Row
    /\ queued \in [Replicas -> SUBSET All] /\ batch \in [Replicas -> SUBSET All]
    /\ lost \in [Replicas -> SUBSET All]
    /\ tries \in [Replicas -> 0..(MaxTries - 1)]
    /\ inserted \in [Replicas -> SUBSET Row] /\ rows \in [Replicas -> SUBSET Row]
    /\ cursor \in [Replicas -> Nat] /\ at \in [Replicas -> Nat]
    /\ home \in [Pages -> Replicas \cup {None}]
    /\ inbox \in [Pages -> Seq(Message)]
    /\ listed \in [Pages -> BOOLEAN] /\ early \in [Pages -> BOOLEAN]
    /\ replay \in [Pages -> SUBSET Row]
    /\ last \in [Pages -> Nat]
    /\ seen \in [Pages -> SUBSET Nat]

(* No page misses a change unnoticed.  An event that was published, and    *)
(* whose change a connected page does not show, is still to be stored, or  *)
(* stored above the id its replica has reached, or it waits in the page's  *)
(* queue, as itself or under a notice, and the page will not leave that    *)
(* message out.  This needs the order of ids and commits (the advisory     *)
(* lock), the notice that replaces a full queue, and the ids that the page *)
(* and its replica remember, to fit together.  Excepted are events that    *)
(* could not be stored (lost) and pages that came before their replica was *)
(* initialised.                                                            *)
Unstored == UNION {queued[r] \cup batch[r] : r \in Replicas}
Lost == UNION {lost[r] : r \in Replicas}
WillTell(p, e) ==
    \E k \in 1..Len(inbox[p]) :
        LET m == inbox[p][k] IN m.event \in {0, e} /\ ~IsOld(p, m)
OnItsWay(p, e) ==
    \/ e \in Unstored
    \/ \E x \in Unread(home[p]) : x.event = e
    \/ WillTell(p, e)
NothingMissed ==
    \A p \in Pages : home[p] # None /\ ~early[p] =>
        \A e \in All \ Lost : e \in seen[p] \/ OnItsWay(p, e)

(* Every change that is published while a page is connected is eventually  *)
(* shown, unless the page leaves or the event is lost, although writers    *)
(* fail, replicas stop and others hold the lock.                           *)
EventuallyShown ==
    \A p \in Pages : \A e \in 1..MaxEvents :
        (e \in All /\ home[p] # None /\ ~early[p])
            ~> (e \in seen[p] \/ e \in Lost \/ home[p] = None)

(* The fan-out implements EventFeed: although several replicas store, read,*)
(* fail and repeat, rows appear above every id that anybody remembers, and *)
(* a page's Last-Event-ID never passes a change that it does not show.     *)
Feed == INSTANCE EventFeed WITH upTo <- last, shown <- seen, excused <- early
ImplementsEventFeed == Feed!Spec

-----------------------------------------------------------------------------
(* What one would expect and the code does not do.                         *)

(* A stored event is stored once: the writer repeats a batch whose commit  *)
(* was not answered (sse.py:162).                                          *)
StoredOnce == \A x, y \in log : x.event = y.event => x = y

(* A page is told when an event was lost: only the pages of the replica    *)
(* that lost it are (sse.py:92, 174).                                      *)
LossIsTold ==
    \A p \in Pages : home[p] # None /\ ~early[p] =>
        \A e \in Lost : e \in seen[p] \/ WillTell(p, e)

(* A page that came while its replica was starting misses nothing either:  *)
(* the runtime starts from the newest id (distributed.py:69).              *)
EarlyMissNothing ==
    \A p \in Pages : home[p] # None =>
        \A e \in All \ Lost : e \in seen[p] \/ OnItsWay(p, e)

=============================================================================
