------------------------- MODULE EventFanOutProofs -------------------------
(* Proofs about EventFanOut: types, and that no page misses a change.      *)
EXTENDS EventFanOut, FiniteSetTheorems, TLAPS

-----------------------------------------------------------------------------
(* The inductive invariant.                                                *)

(* One transaction at a time, whose rows lie above all committed ones.     *)
LockInv ==
    /\ \A r, s \in inTxn : r = s
    /\ \A r \in Replicas : \A x \in inserted[r] :
         /\ r \in inTxn /\ x.id <= ids /\ x.event \in batch[r]
         /\ \A y \in log : y.id < x.id
         /\ \A y \in inserted[r] : x.id = y.id => x = y
    /\ \A x \in log : x.id <= ids /\ x.event \in All
    /\ \A x, y \in log : x.id = y.id => x = y

(* Every event is to be stored, lost or stored.                            *)
Accounted ==
    \A e \in All : \/ \E r \in Replicas : e \in queued[r] \cup batch[r] \cup lost[r]
                   \/ \E x \in log : x.event = e

(* An id somebody remembers is that of a row.                              *)
IsRowId(i) == i = 0 \/ \E x \in log : x.id = i

(* What a replica has read and not handed out follows the id it reached.   *)
ReadInv(r) ==
    /\ IsRowId(at[r]) /\ IsRowId(cursor[r]) /\ cursor[r] <= at[r]
    /\ \A y \in rows[r] : r \in started /\ y \in log /\ at[r] < y.id
    /\ \A x \in log : \A y \in rows[r] : at[r] < x.id /\ x.id < y.id => x \in rows[r]

ReplayInv(p) ==
    /\ \A y \in replay[p] : y \in log /\ last[p] < y.id
    /\ \A x \in log : \A y \in replay[p] : last[p] < x.id /\ x.id < y.id => x \in replay[p]

(* The message brings the row, or a notice that the page will not skip.    *)
Tells(m, x) == m.event = x.event \/ (m.event = 0 /\ (m.id = 0 \/ x.id <= m.id))

Unseen(p) == {x \in log : x.event \notin seen[p]}

InboxInv(p) ==
    \A k \in 1..Len(inbox[p]) :
        IsRowId(inbox[p][k].id) /\ (inbox[p][k].event # 0 => inbox[p][k] \in log)

(* Up to the id it remembers, a page has seen everything.                  *)
SeenInv(p) == \A x \in Unseen(p) : last[p] < x.id

(* What the replica handed out is in the queue, and nothing of it stands   *)
(* behind a message of a higher id.                                        *)
Covers(p) ==
    \A x \in Unseen(p) : x.id <= at[home[p]] =>
        \E k \in 1..Len(inbox[p]) : Tells(inbox[p][k], x)
InOrder(p) ==
    \A x \in Unseen(p) : \A k \in 1..Len(inbox[p]) : x.id < inbox[p][k].id =>
        \E j \in 1..k : Tells(inbox[p][j], x)

PageInv(p) ==
    /\ IsRowId(last[p]) /\ ReplayInv(p) /\ InboxInv(p)
    /\ ~early[p] => SeenInv(p)
    /\ ~early[p] /\ home[p] # None => home[p] \in started /\ Covers(p) /\ InOrder(p)

Inv ==
    /\ TypeOK /\ LockInv /\ Accounted
    /\ \A r \in Replicas : ReadInv(r)
    /\ \A p \in Pages : PageInv(p)

-----------------------------------------------------------------------------
(* Types.                                                                  *)

LEMMA PutType ==
    ASSUME NEW q \in Seq(Message), NEW m \in Message
    PROVE  Put(q, m) \in Seq(Message)
<1>1. Notice(m.id) \in Message
  BY DEF Notice, Message
<1>2. <<Notice(m.id)>> \in Seq(Message) /\ Append(q, m) \in Seq(Message)
  BY <1>1
<1> QED BY <1>2 DEF Put

LEMMA TellType ==
    ASSUME TypeOK, NEW r, NEW m \in Message, Tell(r, m)
    PROVE  inbox' \in [Pages -> Seq(Message)]
BY PutType DEF TypeOK, Tell

(* The end of a transaction, with or without its commit.                   *)
LEMMA EndType ==
    ASSUME TypeOK, NEW r \in Replicas, EndTxn(r),
           log' = log \/ log' = log \cup inserted[r]
    PROVE  /\ inTxn' \subseteq Replicas /\ inserted' \in [Replicas -> SUBSET Row]
           /\ log' \subseteq Row
BY DEF TypeOK, EndTxn

LEMMA TypeInit == Init => TypeOK
BY FanOutAssumption DEF Init, TypeOK, All

LEMMA NoticeType == Notice(0) \in Message
BY DEF Notice, Message

LEMMA PublishType ==
    ASSUME TypeOK, NEW r \in Replicas, Publish(r)
    PROVE  TypeOK'
<1>1. published' \in 0..MaxEvents /\ All \subseteq All' /\ published + 1 \in All'
  BY FanOutAssumption DEF TypeOK, Publish, All
<1>2. inbox' \in [Pages -> Seq(Message)] /\ faults' \in 0..MaxFaults
  BY FanOutAssumption, TellType, NoticeType DEF TypeOK, Publish
<1>4. queued' \in [Replicas -> SUBSET All'] /\ lost' \in [Replicas -> SUBSET All']
  <2> DEFINE Grown(f) == [f EXCEPT ![r] = @ \cup {published + 1}]
  <2>1. queued' \in {queued, Grown(queued)} /\ lost' \in {lost, Grown(lost)}
    BY DEF Publish
  <2>2. \A f \in [Replicas -> SUBSET All] :
           f \in [Replicas -> SUBSET All'] /\ Grown(f) \in [Replicas -> SUBSET All']
    BY <1>1
  <2>3. queued \in [Replicas -> SUBSET All] /\ lost \in [Replicas -> SUBSET All]
    BY DEF TypeOK
  <2> QED BY <2>1, <2>2, <2>3
<1>5. batch' \in [Replicas -> SUBSET All']
  BY <1>1 DEF TypeOK, Publish
<1> QED BY <1>1, <1>2, <1>4, <1>5 DEF TypeOK, Publish, readVars, pageVars

LEMMA WriterType ==
    ASSUME TypeOK, NEW r \in Replicas, TakeBatch(r) \/ BeginTxn(r) \/ Insert(r) \/ Commit(r)
    PROVE  TypeOK'
<1>1. CASE TakeBatch(r)
  BY <1>1 DEF TypeOK, All, TakeBatch, readVars, pageVars
<1>2. CASE BeginTxn(r)
  BY <1>2 DEF TypeOK, All, BeginTxn, readVars, pageVars
<1>3. CASE Insert(r)
  <2>1. PICK e \in Uninserted(r) :
          inserted' = [inserted EXCEPT ![r] = @ \cup {[id |-> ids + 1, event |-> e]}]
    BY <1>3 DEF Insert
  <2>2. [id |-> ids + 1, event |-> e] \in Row
    BY DEF Uninserted, TypeOK, All, Row
  <2> QED BY <1>3, <2>1, <2>2 DEF TypeOK, All, Insert, readVars, pageVars
<1>4. CASE Commit(r)
  <2>1. 0 \in 0..(MaxTries - 1)
    BY FanOutAssumption
  <2>2. /\ inTxn' \subseteq Replicas /\ inserted' \in [Replicas -> SUBSET Row]
        /\ log' \subseteq Row
    BY <1>4, EndType DEF Commit
  <2> QED BY <1>4, <2>1, <2>2 DEF TypeOK, All, Commit, readVars, pageVars
<1> QED BY <1>1, <1>2, <1>3, <1>4

LEMMA WriteFailsType ==
    ASSUME TypeOK, NEW r \in Replicas, WriteFails(r)
    PROVE  TypeOK'
<1>1. /\ inTxn' \subseteq Replicas /\ inserted' \in [Replicas -> SUBSET Row] /\ log' \subseteq Row
  BY EndType DEF WriteFails, Interrupted
<1>2. All' = All /\ faults' \in 0..MaxFaults
  BY FanOutAssumption DEF TypeOK, WriteFails, All
<1>3. CASE MayRetry(r) /\ tries' = [tries EXCEPT ![r] = @ + 1] /\ UNCHANGED <<batch, lost, inbox>>
  <2>1. tries[r] + 1 \in 0..(MaxTries - 1)
    BY <1>3, FanOutAssumption DEF MayRetry, TypeOK
  <2> QED BY <1>1, <1>2, <1>3, <2>1 DEF TypeOK, WriteFails, readVars, pageVars
<1>4. CASE /\ tries' = [tries EXCEPT ![r] = 0] /\ batch' = [batch EXCEPT ![r] = {}]
           /\ lost' = [lost EXCEPT ![r] = @ \cup batch[r]] /\ Tell(r, Notice(0))
  <2>1. inbox' \in [Pages -> Seq(Message)] /\ 0 \in 0..(MaxTries - 1)
    BY <1>4, TellType, NoticeType, FanOutAssumption
  <2> QED BY <1>1, <1>2, <1>4, <2>1 DEF TypeOK, WriteFails, readVars, pageVars
<1> QED BY <1>3, <1>4 DEF WriteFails

LEMMA ReaderType ==
    ASSUME TypeOK, NEW r \in Replicas,
           Initialize(r) \/ Read(r) \/ Relay(r) \/ Returns(r) \/ ReadFails(r)
    PROVE  TypeOK'
<1>1. CASE Initialize(r)
  <2>1. {0} \cup {x.id : x \in log} \subseteq Nat
    BY DEF TypeOK, Row
  <2> QED BY <1>1, <2>1 DEF TypeOK, All, Initialize, writeVars, pageVars
<1>2. CASE Read(r)
  BY <1>2 DEF TypeOK, All, Read, Unread, writeVars, pageVars
<1>3. CASE Relay(r)
  <2>1. PICK x \in rows[r] : /\ rows' = [rows EXCEPT ![r] = @ \ {x}]
                             /\ at' = [at EXCEPT ![r] = x.id] /\ Tell(r, x)
    BY <1>3 DEF Relay
  <2>2. x \in Row /\ x \in Message /\ x.id \in Nat
    BY DEF TypeOK, Row, Message
  <2> QED BY <1>3, <2>1, <2>2, TellType DEF TypeOK, All, Relay, writeVars, pageVars
<1>4. CASE Returns(r)
  BY <1>4 DEF TypeOK, All, Returns, writeVars, pageVars
<1>5. CASE ReadFails(r)
  BY <1>5, FanOutAssumption DEF TypeOK, All, ReadFails, writeVars, pageVars
<1> QED BY <1>1, <1>2, <1>3, <1>4, <1>5

LEMMA CrashType ==
    ASSUME TypeOK, NEW r \in Replicas, Crash(r)
    PROVE  TypeOK'
<1>1. /\ inTxn' \subseteq Replicas /\ inserted' \in [Replicas -> SUBSET Row] /\ log' \subseteq Row
  BY EndType DEF Crash, Interrupted
<1>2. 0 \in 0..(MaxTries - 1) /\ faults' \in 0..MaxFaults
  BY FanOutAssumption DEF Crash, TypeOK
<1> QED BY <1>1, <1>2 DEF TypeOK, All, Crash

LEMMA PageType ==
    ASSUME TypeOK, NEW p \in Pages,
           (\E r \in Replicas : Open(p, r)) \/ ListMissed(p) \/ Replay(p) \/ Receive(p) \/ Close(p)
    PROVE  TypeOK'
<1>1. ASSUME NEW r \in Replicas, Open(p, r) PROVE TypeOK'
  <2>1. <<>> \in Seq(Message)
    OBVIOUS
  <2> QED BY <1>1, <2>1 DEF TypeOK, All, Open, writeVars, readVars
<1>2. CASE ListMissed(p)
  BY <1>2 DEF TypeOK, All, ListMissed, Missed, writeVars, readVars
<1>3. CASE Replay(p)
  <2>1. PICK x \in replay[p] : /\ replay' = [replay EXCEPT ![p] = @ \ {x}]
                               /\ last' = [last EXCEPT ![p] = x.id]
                               /\ seen' = [seen EXCEPT ![p] = @ \cup {x.event}]
    BY <1>3 DEF Replay
  <2>2. x.id \in Nat /\ x.event \in Nat
    BY DEF TypeOK, Row
  <2> QED BY <1>3, <2>1, <2>2 DEF TypeOK, All, Replay, writeVars, readVars
<1>4. CASE Receive(p)
  <2>1. /\ inbox[p] \in Seq(Message) /\ inbox[p] # <<>>
        /\ inbox' = [inbox EXCEPT ![p] = Tail(@)]
    BY <1>4 DEF TypeOK, Receive
  <2>2. Head(inbox[p]) \in Message /\ Tail(inbox[p]) \in Seq(Message)
    BY <2>1
  <2>3. Head(inbox[p]).id \in Nat /\ Head(inbox[p]).event \in Nat /\ All \subseteq Nat
    BY <2>2 DEF Message, All
  <2>4. last' \in [Pages -> Nat]
    BY <1>4, <2>3 DEF TypeOK, Receive
  <2>5. seen' \in [Pages -> SUBSET Nat]
    <3>1. \/ seen' = seen \/ seen' = [seen EXCEPT ![p] = All]
          \/ seen' = [seen EXCEPT ![p] = @ \cup {Head(inbox[p]).event}]
      BY <1>4 DEF Receive
    <3>2. seen \in [Pages -> SUBSET Nat]
      BY DEF TypeOK
    <3> QED BY <2>3, <3>1, <3>2
  <2>6. inbox' \in [Pages -> Seq(Message)]
    BY <2>1, <2>2 DEF TypeOK
  <2>7. UNCHANGED <<writeVars, log, readVars, home, listed, replay, early, faults>>
    BY <1>4 DEF Receive
  <2> QED BY <2>4, <2>5, <2>6, <2>7 DEF TypeOK, All, writeVars, readVars
<1>5. CASE Close(p)
  BY <1>5 DEF TypeOK, All, Close, writeVars, readVars
<1> QED BY <1>1, <1>2, <1>3, <1>4, <1>5

-----------------------------------------------------------------------------
(* The log only grows, at its end.                                         *)

Grows == log \subseteq log' /\ \A x \in log' \ log : \A y \in log : y.id < x.id

LEMMA TxnEnds ==
    ASSUME TypeOK, LockInv, NEW r \in Replicas, EndTxn(r), Interrupted(r),
           ids' = ids, published' = published,
           \A s \in Replicas \ {r} : batch'[s] = batch[s]
    PROVE  LockInv' /\ Grows
<1>1. \/ log' = log
      \/ r \in inTxn /\ log' = log \cup inserted[r]
  BY DEF Interrupted, CanCommit
<1>2. Grows
  BY <1>1 DEF Grows, LockInv
<1>3. \A x \in log' : x.id <= ids' /\ x.event \in All'
  <2>1. \A x \in inserted[r] : x.id <= ids /\ x.event \in All
    BY DEF LockInv, TypeOK
  <2> QED BY <1>1, <2>1 DEF LockInv, All
<1>4. \A x, y \in log' : x.id = y.id => x = y
  <2>1. \A x \in inserted[r] : x.id \in Nat /\ \A y \in log : y.id \in Nat /\ y.id < x.id
    BY DEF LockInv, TypeOK, Row
  <2>2. \A x, y \in inserted[r] : x.id = y.id => x = y
    BY DEF LockInv
  <2>3. \A x \in inserted[r] : \A y \in log : x.id # y.id
    BY <2>1
  <2> QED BY <1>1, <2>2, <2>3 DEF LockInv
<1>5. \A s, q \in inTxn' : s = q
  BY DEF LockInv, EndTxn
<1>6. ASSUME NEW s \in Replicas, NEW x \in inserted'[s]
      PROVE  /\ s \in inTxn' /\ x.id <= ids' /\ x.event \in batch'[s]
             /\ \A y \in log' : y.id < x.id
             /\ \A y \in inserted'[s] : x.id = y.id => x = y
  <2>1. s # r /\ inserted'[s] = inserted[s]
    BY <1>6 DEF EndTxn, TypeOK
  <2>2. s \in inTxn /\ s \in inTxn'
    BY <1>6, <2>1 DEF LockInv, EndTxn
  <2>3. log' = log
    BY <1>1, <2>1, <2>2 DEF LockInv
  <2> QED BY <1>6, <2>1, <2>2, <2>3 DEF LockInv
<1> QED BY <1>2, <1>3, <1>4, <1>5, <1>6 DEF LockInv

LEMMA InsertLock ==
    ASSUME TypeOK, LockInv, NEW r \in Replicas, Insert(r)
    PROVE  LockInv'
<1>1. PICK e \in batch[r] :
        inserted' = [inserted EXCEPT ![r] = @ \cup {[id |-> ids + 1, event |-> e]}]
  BY DEF Insert, Uninserted
<1> DEFINE new == [id |-> ids + 1, event |-> e]
<1>2. /\ r \in inTxn /\ ids \in Nat /\ ids' = ids + 1
      /\ UNCHANGED <<inTxn, log, batch, published>>
  BY DEF Insert, TypeOK
<1>3. \A x \in log : x.id \in Nat /\ x.id <= ids /\ x.event \in All
  BY DEF LockInv, TypeOK, Row
<1>4. ASSUME NEW s \in Replicas, NEW x \in inserted'[s]
      PROVE  /\ s \in inTxn' /\ x.id <= ids' /\ x.event \in batch'[s]
             /\ \A y \in log' : y.id < x.id
             /\ \A y \in inserted'[s] : x.id = y.id => x = y
  <2>1. \A y \in inserted[s] : /\ s \in inTxn /\ y.id \in Nat /\ y.id <= ids /\ y.event \in batch[s]
                               /\ \A z \in log : z.id < y.id
                               /\ \A z \in inserted[s] : y.id = z.id => y = z
    BY DEF LockInv, TypeOK, Row
  <2>2. inserted'[s] = IF s = r THEN inserted[s] \cup {new} ELSE inserted[s]
    BY <1>1 DEF TypeOK
  <2>3. CASE x \in inserted[s]
    <3>1. x.id # new.id
      BY <1>2, <2>1, <2>3
    <3> QED BY <1>2, <2>1, <2>2, <2>3, <3>1
  <2>4. CASE s = r /\ x = new
    <3>1. \A y \in inserted[s] : y.id # new.id
      BY <1>2, <2>1
    <3> QED BY <1>2, <1>3, <2>2, <2>4, <3>1
  <2> QED BY <1>4, <2>2, <2>3, <2>4
<1>5. \A x \in log' : x.id <= ids' /\ x.event \in All'
  BY <1>2, <1>3 DEF All
<1> QED BY <1>2, <1>4, <1>5 DEF LockInv

LEMMA LockStep ==
    ASSUME TypeOK, LockInv, [Next]_vars
    PROVE  LockInv' /\ Grows
<1>1. ASSUME UNCHANGED <<log, inTxn, inserted, ids, batch, published>>
      PROVE  LockInv' /\ Grows
  BY <1>1 DEF LockInv, Grows, All
<1>2. ASSUME NEW r \in Replicas, ReplicaStep(r)
      PROVE  LockInv' /\ Grows
  <2>1. CASE Publish(r)
    <3>1. All \subseteq All' /\ UNCHANGED <<log, inTxn, inserted, ids, batch>>
      BY <2>1 DEF Publish, All, TypeOK
    <3> QED BY <3>1 DEF LockInv, Grows
  <2>2. CASE TakeBatch(r)
    <3>1. inserted[r] = {} /\ \A s \in Replicas \ {r} : batch'[s] = batch[s]
      BY <2>2 DEF TakeBatch, LockInv, TypeOK
    <3>2. UNCHANGED <<log, inTxn, inserted, ids, published>>
      BY <2>2 DEF TakeBatch
    <3> QED BY <3>1, <3>2 DEF LockInv, Grows, All
  <2>3. CASE BeginTxn(r)
    BY <2>3 DEF BeginTxn, LockIsFree, LockInv, Grows, All
  <2>4. CASE Insert(r)
    BY <2>4, InsertLock DEF Insert, Grows
  <2>5. CASE Commit(r)
    BY <2>5, TxnEnds DEF Commit, Interrupted, TypeOK
  <2>6. CASE WriteFails(r)
    <3>1. \A s \in Replicas \ {r} : batch'[s] = batch[s]
      BY <2>6 DEF WriteFails, TypeOK
    <3> QED BY <2>6, <3>1, TxnEnds DEF WriteFails
  <2>7. CASE Crash(r)
    BY <2>7, TxnEnds DEF Crash, TypeOK
  <2>8. CASE Reader(r) \/ ReadFails(r)
    BY <2>8, <1>1 DEF Reader, Initialize, Read, Relay, Returns, ReadFails, writeVars
  <2> QED BY <1>2, <2>1, <2>2, <2>3, <2>4, <2>5, <2>6, <2>7, <2>8 DEF ReplicaStep, Writer
<1>3. ASSUME NEW p \in Pages, PageStep(p)
      PROVE  LockInv' /\ Grows
  BY <1>1, <1>3 DEF PageStep, Page, Open, ListMissed, Replay, Receive, Close, writeVars
<1>4. CASE UNCHANGED vars
  BY <1>1, <1>4 DEF vars, writeVars
<1> QED BY <1>2, <1>3, <1>4 DEF Next

-----------------------------------------------------------------------------
(* No event disappears.                                                    *)

LEMMA AccountedStep ==
    ASSUME TypeOK, LockInv, LockInv', Accounted, Grows, [Next]_vars
    PROVE  Accounted'
<1> DEFINE At(e, r) == e \in queued[r] \cup batch[r] \cup lost[r]
<1>1. ASSUME All' = All, NEW r \in Replicas,
             \A s \in Replicas \ {r} : \A e \in All : At(e, s) => At(e, s)',
             \A e \in All : At(e, r) => At(e, r)' \/ \E x \in log' : x.event = e
      PROVE  Accounted'
  <2>1. \A e \in All : \A s \in Replicas :
           At(e, s) => (\E q \in Replicas : At(e, q)') \/ \E x \in log' : x.event = e
    BY <1>1
  <2>2. \A e \in All : (\E x \in log : x.event = e) => \E x \in log' : x.event = e
    BY DEF Grows
  <2> QED BY <1>1, <2>1, <2>2 DEF Accounted
<1>2. ASSUME UNCHANGED <<queued, batch, lost, log, published>>
      PROVE  Accounted'
  BY <1>2 DEF Accounted, All
<1>3. ASSUME NEW r \in Replicas, ReplicaStep(r)
      PROVE  Accounted'
  <2>1. CASE Publish(r)
    <3>1. /\ \A e \in All' : e \in All \/ e = published + 1
          /\ log' = log /\ batch' = batch
      BY <2>1 DEF Publish, All, TypeOK
    <3>2. /\ \A s \in Replicas : queued[s] \subseteq queued'[s] /\ lost[s] \subseteq lost'[s]
          /\ published + 1 \in queued'[r] \cup lost'[r]
      <4>1. CASE queued' = [queued EXCEPT ![r] = @ \cup {published + 1}] /\ lost' = lost
        BY <4>1 DEF TypeOK
      <4>2. CASE lost' = [lost EXCEPT ![r] = @ \cup {published + 1}] /\ queued' = queued
        BY <4>2 DEF TypeOK
      <4> QED BY <2>1, <4>1, <4>2 DEF Publish
    <3> QED BY <3>1, <3>2 DEF Accounted
  <2>2. CASE TakeBatch(r)
    <3>1. /\ \A s \in Replicas \ {r} : queued'[s] = queued[s] /\ batch'[s] = batch[s]
          /\ lost' = lost /\ All' = All
      BY <2>2 DEF TakeBatch, TypeOK, All
    <3>2. PICK e \in queued[r] : /\ batch' = [batch EXCEPT ![r] = {x \in queued[r] : x <= e}]
                                 /\ queued' = [queued EXCEPT ![r] = {x \in @ : x > e}]
      BY <2>2 DEF TakeBatch
    <3>3. \A x \in queued[r] : x \in Nat /\ e \in Nat
      BY DEF TypeOK, All
    <3>4. \A x \in queued[r] : x <= e \/ x > e
      BY <3>3
    <3>5. batch[r] = {}
      BY <2>2 DEF TakeBatch
    <3>6. \A x \in queued[r] : x \in batch'[r] \/ x \in queued'[r]
      BY <3>2, <3>4 DEF TypeOK
    <3> QED BY <1>1, <3>1, <3>5, <3>6
  <2>3. CASE BeginTxn(r) \/ Insert(r)
    BY <1>2, <2>3 DEF BeginTxn, Insert
  <2>4. CASE Commit(r)
    <3>1. \A e \in batch[r] : \E x \in log' : x.event = e
      BY <2>4 DEF Commit, CanCommit, Uninserted
    <3>2. /\ \A s \in Replicas \ {r} : batch'[s] = batch[s]
          /\ UNCHANGED <<queued, lost>> /\ All' = All
      BY <2>4 DEF Commit, TypeOK, All
    <3> QED BY <1>1, <3>1, <3>2
  <2>5. CASE WriteFails(r)
    <3>1. /\ \A s \in Replicas \ {r} : batch'[s] = batch[s] /\ lost'[s] = lost[s]
          /\ queued' = queued /\ All' = All
      BY <2>5 DEF WriteFails, TypeOK, All
    <3>2. \A e \in batch[r] \cup lost[r] : e \in batch'[r] \cup lost'[r]
      BY <2>5 DEF WriteFails, TypeOK
    <3> QED BY <1>1, <3>1, <3>2
  <2>6. CASE Crash(r)
    <3>1. /\ \A s \in Replicas \ {r} : /\ batch'[s] = batch[s] /\ lost'[s] = lost[s]
                                       /\ queued'[s] = queued[s]
          /\ All' = All
      BY <2>6 DEF Crash, TypeOK, All
    <3>2. lost'[r] = lost[r] \cup queued[r] \cup batch[r]
      BY <2>6 DEF Crash, TypeOK
    <3> QED BY <1>1, <3>1, <3>2
  <2>7. CASE Reader(r) \/ ReadFails(r)
    BY <1>2, <2>7 DEF Reader, Initialize, Read, Relay, Returns, ReadFails, writeVars
  <2> QED BY <1>3, <2>1, <2>2, <2>3, <2>4, <2>5, <2>6, <2>7 DEF ReplicaStep, Writer
<1>4. ASSUME NEW p \in Pages, PageStep(p)
      PROVE  Accounted'
  BY <1>2, <1>4 DEF PageStep, Page, Open, ListMissed, Replay, Receive, Close, writeVars
<1>5. CASE UNCHANGED vars
  BY <1>2, <1>5 DEF vars, writeVars
<1> QED BY <1>3, <1>4, <1>5 DEF Next

-----------------------------------------------------------------------------
(* The reader of a replica.                                                *)

LEMMA RowIdStays ==
    ASSUME Grows, NEW i, IsRowId(i)
    PROVE  IsRowId(i)'
BY DEF IsRowId, Grows

LEMMA RowIdNotAbove ==
    ASSUME TypeOK, TypeOK', Grows, NEW i, IsRowId(i), NEW x \in log' \ log
    PROVE  i < x.id
BY DEF IsRowId, Grows, TypeOK, Row

LEMMA ReadStays ==
    ASSUME TypeOK, TypeOK', Grows, NEW r \in Replicas, ReadInv(r),
           at'[r] = at[r], cursor'[r] = cursor[r], rows'[r] = rows[r],
           r \in started => r \in started'
    PROVE  ReadInv(r)'
<1>1. IsRowId(at[r])' /\ IsRowId(cursor[r])'
  BY RowIdStays DEF ReadInv, IsRowId
<1>2. \A x \in log' \ log : \A y \in rows[r] : y.id < x.id /\ x.id \in Nat /\ y.id \in Nat
  BY DEF Grows, ReadInv, TypeOK, Row
<1>3. \A x \in log' : \A y \in rows[r] : at[r] < x.id /\ x.id < y.id => x \in log
  BY <1>2
<1> QED BY <1>1, <1>3 DEF ReadInv, Grows

LEMMA ReadStep ==
    ASSUME TypeOK, TypeOK', LockInv, Grows, [Next]_vars,
           \A r \in Replicas : ReadInv(r)
    PROVE  \A r \in Replicas : ReadInv(r)'
<1>1. ASSUME UNCHANGED readVars
      PROVE  \A r \in Replicas : ReadInv(r)'
  BY <1>1, ReadStays DEF readVars
<1>2. ASSUME NEW r \in Replicas, ReplicaStep(r)
      PROVE  \A s \in Replicas : ReadInv(s)'
  <2>1. ASSUME \A s \in Replicas \ {r} : /\ at'[s] = at[s] /\ cursor'[s] = cursor[s]
                                         /\ rows'[s] = rows[s] /\ (s \in started => s \in started'),
               ReadInv(r)'
        PROVE  \A s \in Replicas : ReadInv(s)'
    BY <2>1, ReadStays
  <2>2. CASE Publish(r) \/ Writer(r) \/ WriteFails(r)
    BY <1>1, <2>2 DEF Publish, Writer, TakeBatch, BeginTxn, Insert, Commit, WriteFails
  <2>3. CASE Initialize(r)
    <3>1. PICK i \in {0} \cup {x.id : x \in log} :
            /\ \A x \in log : x.id <= i
            /\ cursor' = [cursor EXCEPT ![r] = i] /\ at' = [at EXCEPT ![r] = i]
      BY <2>3 DEF Initialize
    <3>2. log' = log /\ rows' = rows /\ i \in Nat /\ IsRowId(i)
      BY <2>3 DEF Initialize, IsRowId, TypeOK, Row
    <3>3. rows[r] = {}
      BY <2>3 DEF Initialize, ReadInv
    <3>4. ReadInv(r)'
      BY <3>1, <3>2, <3>3 DEF ReadInv, IsRowId, TypeOK
    <3> QED BY <2>1, <2>3, <3>1, <3>2, <3>4 DEF TypeOK, Initialize
  <2>4. CASE Read(r)
    <3>1. PICK c \in Unread(r) : rows' = [rows EXCEPT ![r] = {x \in Unread(r) : x.id <= c.id}]
      BY <2>4 DEF Read
    <3>2. \A x \in log : x.id \in Nat
      BY DEF TypeOK, Row
    <3>3. rows'[r] = {x \in Unread(r) : x.id <= c.id} /\ c \in log
      BY <3>1 DEF TypeOK, Unread
    <3>4. UNCHANGED <<at, cursor, log, started>> /\ r \in started
      BY <2>4 DEF Read
    <3>5. ReadInv(r)'
      BY <3>2, <3>3, <3>4 DEF ReadInv, IsRowId, Unread
    <3> QED BY <2>1, <3>1, <3>4, <3>5 DEF TypeOK
  <2>5. CASE Relay(r)
    <3>1. PICK x \in rows[r] : /\ \A y \in rows[r] : x.id <= y.id
                               /\ rows' = [rows EXCEPT ![r] = @ \ {x}]
                               /\ at' = [at EXCEPT ![r] = x.id]
      BY <2>5 DEF Relay
    <3>2. UNCHANGED <<cursor, log, started>> /\ r \in started
      BY <2>5 DEF Relay, ReadInv
    <3>3. /\ \A y \in log : y.id \in Nat
          /\ x \in log /\ at[r] \in Nat /\ at[r] < x.id /\ cursor[r] \in Nat
      BY DEF TypeOK, Row, ReadInv
    <3>4. at'[r] = x.id /\ rows'[r] = rows[r] \ {x}
      BY <3>1 DEF TypeOK
    <3>5. \A y \in rows'[r] : y \in log /\ x.id < y.id
      BY <3>1, <3>3, <3>4 DEF ReadInv, LockInv
    <3>6. \A z \in log : \A y \in rows'[r] : x.id < z.id /\ z.id < y.id => z \in rows'[r]
      BY <3>3, <3>4 DEF ReadInv
    <3>7. ReadInv(r)'
      BY <3>2, <3>3, <3>4, <3>5, <3>6 DEF ReadInv, IsRowId
    <3> QED BY <2>1, <3>1, <3>2, <3>7 DEF TypeOK
  <2>6. CASE Returns(r)
    BY <2>1, <2>6 DEF Returns, ReadInv, IsRowId, TypeOK
  <2>7. CASE ReadFails(r)
    BY <2>1, <2>7 DEF ReadFails, ReadInv, IsRowId, TypeOK
  <2>8. CASE Crash(r)
    BY <2>1, <2>8 DEF Crash, ReadInv, IsRowId, TypeOK
  <2> QED BY <1>2, <2>2, <2>3, <2>4, <2>5, <2>6, <2>7, <2>8 DEF ReplicaStep, Reader
<1>3. ASSUME NEW p \in Pages, PageStep(p)
      PROVE  \A s \in Replicas : ReadInv(s)'
  BY <1>1, <1>3 DEF PageStep, Page, Open, ListMissed, Replay, Receive, Close
<1>4. CASE UNCHANGED vars
  BY <1>1, <1>4 DEF vars
<1> QED BY <1>2, <1>3, <1>4 DEF Next

-----------------------------------------------------------------------------
(* The pages, one at a time.                                               *)

(* The queue of a page is unchanged, or a notice that covers everything    *)
(* was put.                                                                *)
Told(p) ==
    /\ \A k \in 1..Len(inbox'[p]) :
         inbox'[p][k] = Notice(0) \/ (k \in 1..Len(inbox[p]) /\ inbox'[p][k] = inbox[p][k])
    /\ inbox'[p] = inbox[p] \/ \E k \in 1..Len(inbox'[p]) : inbox'[p][k] = Notice(0)

LEMMA TellTold ==
    ASSUME TypeOK, NEW r, Tell(r, Notice(0)) \/ inbox' = inbox, NEW p \in Pages
    PROVE  Told(p)
<1> DEFINE q == inbox[p]
<1>1. q \in Seq(Message)
  BY DEF TypeOK
<1>2. \/ inbox'[p] = q
      \/ inbox'[p] = Append(q, Notice(0))
      \/ inbox'[p] = <<Notice(0)>>
  BY DEF Tell, Put, Notice
<1>3. CASE inbox'[p] = q
  BY <1>3 DEF Told
<1>4. CASE inbox'[p] = Append(q, Notice(0))
  <2>1. /\ Len(inbox'[p]) = Len(q) + 1 /\ Len(q) \in Nat /\ inbox'[p][Len(q) + 1] = Notice(0)
        /\ \A k \in 1..Len(q) : inbox'[p][k] = q[k]
    BY <1>1, <1>4
  <2>2. \A k \in 1..(Len(q) + 1) : k = Len(q) + 1 \/ k \in 1..Len(q)
    BY <2>1
  <2>3. Len(q) + 1 \in 1..(Len(q) + 1)
    BY <2>1
  <2> QED BY <2>1, <2>2, <2>3 DEF Told
<1>5. CASE inbox'[p] = <<Notice(0)>>
  BY <1>5 DEF Told
<1> QED BY <1>2, <1>3, <1>4, <1>5

LEMMA MessageTypes ==
    ASSUME TypeOK, NEW p \in Pages, NEW k \in 1..Len(inbox[p])
    PROVE  inbox[p][k].id \in Nat /\ inbox[p][k].event \in Nat
<1>1. inbox[p] \in Seq(Message)
  BY DEF TypeOK
<1>2. inbox[p][k] \in Message
  BY <1>1
<1> QED BY <1>2 DEF Message

(* New rows are above whatever a page or its replica remembers.            *)
LEMMA NewRows ==
    ASSUME TypeOK, TypeOK', Grows, NEW p \in Pages, PageInv(p),
           \A r \in Replicas : ReadInv(r), NEW x \in log' \ log
    PROVE  /\ last[p] < x.id
           /\ \A k \in 1..Len(inbox[p]) : inbox[p][k].id < x.id
           /\ \A y \in replay[p] : y.id < x.id
           /\ home[p] # None => at[home[p]] < x.id
<1>1. last[p] < x.id /\ \A k \in 1..Len(inbox[p]) : inbox[p][k].id < x.id
  BY RowIdNotAbove DEF PageInv, InboxInv
<1>2. \A y \in replay[p] : y.id < x.id
  BY DEF PageInv, ReplayInv, Grows
<1>3. ASSUME home[p] # None PROVE at[home[p]] < x.id
  <2>1. home[p] \in Replicas
    BY <1>3 DEF TypeOK
  <2> QED BY <2>1, RowIdNotAbove DEF ReadInv
<1> QED BY <1>1, <1>2, <1>3

(* What does not touch a page but may let the log grow, tell it a notice,  *)
(* take its replica back or disconnect it.                                 *)
LEMMA PageKept ==
    ASSUME TypeOK, TypeOK', Grows, NEW p \in Pages, PageInv(p),
           \A r \in Replicas : ReadInv(r), Told(p),
           last'[p] = last[p], replay'[p] = replay[p], seen'[p] = seen[p], early'[p] = early[p],
           home'[p] # None => /\ home'[p] = home[p] /\ at'[home[p]] <= at[home[p]]
                              /\ home[p] \in started => home[p] \in started'
    PROVE  PageInv(p)'
<1>1. IsRowId(last[p])'
  BY RowIdStays DEF PageInv, IsRowId
<1>2. ReplayInv(p)'
  <2>1. ASSUME NEW x \in log', NEW y \in replay[p], last[p] < x.id, x.id < y.id
        PROVE  x \in replay[p]
    <3>1. y.id \in Nat /\ x.id \in Nat
      BY DEF TypeOK, Row
    <3>2. x \in log
      BY <2>1, <3>1, NewRows
    <3> QED BY <2>1, <3>2 DEF PageInv, ReplayInv
  <2> QED BY <2>1 DEF PageInv, ReplayInv, Grows
<1>3. InboxInv(p)'
  BY DEF Told, Notice, PageInv, InboxInv, IsRowId, Grows
<1>4. \A x \in Unseen(p)' : x \in Unseen(p) \/ x \in log' \ log
  BY DEF Unseen
<1>5. ASSUME ~early[p]' PROVE SeenInv(p)'
  BY <1>4, <1>5, NewRows DEF PageInv, SeenInv
<1>6. ASSUME ~early[p]', (home[p] # None)'
      PROVE  (home[p] \in started)' /\ Covers(p)' /\ InOrder(p)'
  <2>1. home[p] # None /\ ~early[p] /\ home'[p] = home[p] /\ home[p] \in Replicas
    BY <1>6 DEF TypeOK
  <2>2. home[p] \in started' /\ at'[home[p]] <= at[home[p]] /\ Covers(p) /\ InOrder(p)
    BY <1>6, <2>1 DEF PageInv
  <2>3. \A x \in log' : x.id \in Nat \ {0}
    BY DEF TypeOK, Row
  <2>4. at[home[p]] \in Nat /\ at'[home[p]] \in Nat
    BY <2>1 DEF TypeOK
  <2>5. \A k \in 1..Len(inbox[p]) : inbox[p][k].id \in Nat
    BY MessageTypes
  <2>6. ASSUME NEW x \in Unseen(p)', x.id <= at'[home[p]]
        PROVE  \E k \in 1..Len(inbox'[p]) : Tells(inbox'[p][k], x)
    <3>1. x \in Unseen(p) /\ x.id <= at[home[p]]
      BY <1>4, <2>1, <2>2, <2>3, <2>4, <2>6, NewRows DEF Unseen
    <3>2. PICK k \in 1..Len(inbox[p]) : Tells(inbox[p][k], x)
      BY <2>2, <3>1 DEF Covers
    <3> QED BY <3>2 DEF Told, Tells, Notice
  <2>7. ASSUME NEW x \in Unseen(p)', NEW k \in 1..Len(inbox'[p]), x.id < inbox'[p][k].id
        PROVE  \E j \in 1..k : Tells(inbox'[p][j], x)
    <3>1. x.id \in Nat \ {0}
      BY <2>3 DEF Unseen
    <3>2. k \in 1..Len(inbox[p]) /\ inbox'[p][k] = inbox[p][k]
      BY <2>7, <3>1 DEF Told, Notice
    <3>3. x \in Unseen(p)
      BY <1>4, <2>5, <2>7, <3>1, <3>2, NewRows
    <3>4. PICK j \in 1..k : Tells(inbox[p][j], x)
      BY <2>2, <2>7, <3>2, <3>3 DEF InOrder
    <3>5. j \in 1..Len(inbox'[p]) /\ k \in Nat
      BY <3>2, <3>4 DEF TypeOK
    <3> QED BY <3>4, <3>5 DEF Told, Tells, Notice
  <2> QED BY <2>1, <2>2, <2>6, <2>7 DEF Covers, InOrder
<1> QED BY <1>1, <1>2, <1>3, <1>5, <1>6 DEF PageInv

(* A row that a replica hands out is the next one above the id it reached. *)
LEMMA PageRelayed ==
    ASSUME TypeOK, LockInv, NEW r \in Replicas, ReadInv(r),
           NEW x \in rows[r], \A y \in rows[r] : x.id <= y.id, at'[r] = x.id,
           NEW p \in Pages, PageInv(p), home[p] = r, inbox'[p] = Put(inbox[p], x),
           UNCHANGED <<log, started, pageVars>>
    PROVE  PageInv(p)'
<1> DEFINE q == inbox[p]
<1>1. \A y \in log : y.id \in Nat \ {0} /\ y.event \in Nat \ {0}
  BY DEF TypeOK, Row
<1>2. x \in log /\ at[r] \in Nat /\ at[r] < x.id
  BY DEF ReadInv, TypeOK
<1>3. \A y \in log : y.id <= x.id => y.id <= at[r] \/ y = x
  <2> SUFFICES ASSUME NEW y \in log, y.id <= x.id, ~(y.id <= at[r]) PROVE y = x
    OBVIOUS
  <2>1. y.id = x.id \/ y \in rows[r]
    BY <1>1, <1>2 DEF ReadInv
  <2>2. y.id = x.id
    BY <1>1, <1>2, <2>1
  <2> QED BY <1>2, <2>2 DEF LockInv
<1>4. q \in Seq(Message) /\ Len(q) \in Nat
  BY DEF TypeOK
<1>5. \/ inbox'[p] = Append(q, x)
      \/ inbox'[p] = <<Notice(x.id)>>
  BY DEF Put
<1>6. InboxInv(p)'
  <2>1. CASE inbox'[p] = Append(q, x)
    <3>1. \A k \in 1..Len(inbox'[p]) : inbox'[p][k] = x \/ (k \in 1..Len(q) /\ inbox'[p][k] = q[k])
      BY <1>4, <2>1
    <3> QED BY <1>2, <3>1 DEF PageInv, InboxInv, IsRowId
  <2>2. CASE inbox'[p] = <<Notice(x.id)>>
    BY <1>2, <2>2 DEF InboxInv, IsRowId, Notice
  <2> QED BY <1>5, <2>1, <2>2
<1>7. IsRowId(last[p])' /\ ReplayInv(p)' /\ (~early[p]' => SeenInv(p)')
  BY DEF PageInv, IsRowId, ReplayInv, SeenInv, Unseen, pageVars
<1>8. ASSUME ~early[p], home[p] # None
      PROVE  (home[p] \in started)' /\ Covers(p)' /\ InOrder(p)'
  <2>1. home[p]' = r /\ r \in started' /\ Covers(p) /\ InOrder(p) /\ Unseen(p)' = Unseen(p)
    BY <1>8 DEF PageInv, Unseen, pageVars
  <2>2. \A y \in Unseen(p) : y \in log
    BY DEF Unseen
  <2>3. CASE inbox'[p] = Append(q, x)
    <3>1. /\ Len(inbox'[p]) = Len(q) + 1 /\ inbox'[p][Len(q) + 1] = x
          /\ \A k \in 1..Len(q) : inbox'[p][k] = q[k] /\ k \in 1..Len(inbox'[p])
      BY <1>4, <2>3
    <3>2. ASSUME NEW y \in Unseen(p), y.id <= x.id
          PROVE  \E k \in 1..Len(inbox'[p]) : Tells(inbox'[p][k], y)
      <4>1. CASE y = x
        <5>1. Len(q) + 1 \in 1..Len(inbox'[p])
          BY <1>4, <3>1
        <5> QED BY <3>1, <4>1, <5>1 DEF Tells
      <4>2. CASE y.id <= at[r]
        <5>1. PICK k \in 1..Len(q) : Tells(q[k], y)
          BY <2>1, <4>2 DEF Covers
        <5> QED BY <3>1, <5>1
      <4> QED BY <1>3, <2>2, <3>2, <4>1, <4>2
    <3>3. ASSUME NEW y \in Unseen(p), NEW k \in 1..Len(inbox'[p]), y.id < inbox'[p][k].id
          PROVE  \E j \in 1..k : Tells(inbox'[p][j], y)
      <4>1. CASE k \in 1..Len(q)
        <5>1. PICK j \in 1..k : Tells(q[j], y)
          BY <2>1, <3>1, <3>3, <4>1 DEF InOrder
        <5>2. j \in 1..Len(q)
          BY <1>4, <4>1
        <5> QED BY <3>1, <5>1, <5>2
      <4>2. CASE k = Len(q) + 1
        <5>1. y.id <= x.id
          BY <1>1, <1>2, <2>2, <3>1, <3>3, <4>2
        <5> QED BY <3>1, <3>2, <4>2, <5>1
      <4> QED BY <1>4, <3>1, <4>1, <4>2
    <3> QED BY <2>1, <3>2, <3>3 DEF Covers, InOrder
  <2>4. CASE inbox'[p] = <<Notice(x.id)>>
    <3>1. /\ Len(inbox'[p]) = 1 /\ 1 \in 1..Len(inbox'[p]) /\ inbox'[p][1] = Notice(x.id)
          /\ \A k \in 1..Len(inbox'[p]) : k = 1
      BY <2>4
    <3>2. \A y \in Unseen(p) : y.id <= x.id => Tells(inbox'[p][1], y)
      BY <3>1 DEF Tells, Notice
    <3>3. \A y \in Unseen(p) : y.id < inbox'[p][1].id => y.id <= x.id
      BY <1>1, <1>2, <2>2, <3>1 DEF Notice
    <3>4. Covers(p)'
      BY <2>1, <3>1, <3>2 DEF Covers
    <3>5. InOrder(p)'
      <4> SUFFICES ASSUME NEW y \in Unseen(p)', NEW k \in 1..Len(inbox'[p]), y.id < inbox'[p][k].id
                   PROVE  \E j \in 1..k : Tells(inbox'[p][j], y)
        BY DEF InOrder
      <4> QED BY <2>1, <3>1, <3>2, <3>3
    <3> QED BY <2>1, <3>4, <3>5
  <2> QED BY <1>5, <2>3, <2>4
<1> QED BY <1>6, <1>7, <1>8 DEF PageInv, pageVars

LEMMA PageOpens ==
    ASSUME TypeOK, LockInv, NEW r \in Replicas, NEW p \in Pages, PageInv(p), Open(p, r)
    PROVE  PageInv(p)'
<1>1. /\ home'[p] = r /\ inbox'[p] = <<>> /\ replay'[p] = {} /\ seen'[p] = All
      /\ early'[p] = (r \notin started) /\ UNCHANGED <<log, started, last>>
  BY DEF Open, TypeOK, readVars
<1>2. Unseen(p)' = {}
  BY <1>1 DEF Unseen, LockInv
<1>3. 1..Len(inbox'[p]) = {}
  BY <1>1
<1>4. IsRowId(last[p])' /\ ReplayInv(p)' /\ InboxInv(p)'
  BY <1>1, <1>3 DEF PageInv, IsRowId, ReplayInv, InboxInv
<1> QED BY <1>1, <1>2, <1>4 DEF PageInv, SeenInv, Covers, InOrder

LEMMA PageReplays ==
    ASSUME TypeOK, LockInv, NEW p \in Pages, PageInv(p), ListMissed(p) \/ Replay(p)
    PROVE  PageInv(p)'
<1>1. /\ UNCHANGED <<log, started, home, inbox, early, at>>
      /\ \A x \in log : x.id \in Nat
  BY DEF ListMissed, Replay, readVars, TypeOK, Row
<1>2. CASE ListMissed(p)
  <2>1. /\ UNCHANGED <<last, seen>>
        /\ \/ replay' = replay
           \/ \E c \in Missed(p) : replay'[p] = {x \in Missed(p) : x.id <= c.id}
    BY <1>2 DEF ListMissed, TypeOK
  <2>2. ReplayInv(p)'
    BY <1>1, <2>1 DEF PageInv, ReplayInv, Missed
  <2> QED BY <1>1, <2>1, <2>2
          DEF PageInv, IsRowId, InboxInv, SeenInv, Unseen, Covers, InOrder
<1>3. CASE Replay(p)
  <2>1. PICK x \in replay[p] :
          /\ \A y \in replay[p] : x.id <= y.id
          /\ replay'[p] = replay[p] \ {x} /\ last'[p] = x.id /\ seen'[p] = seen[p] \cup {x.event}
    BY <1>3 DEF Replay, TypeOK
  <2>2. x \in log /\ last[p] \in Nat /\ last[p] < x.id
    BY DEF PageInv, ReplayInv, TypeOK
  <2>3. \A y \in replay'[p] : y \in log /\ x.id < y.id
    BY <1>1, <2>1, <2>2 DEF PageInv, ReplayInv, LockInv
  <2>4. \A z \in log : \A y \in replay'[p] : x.id < z.id /\ z.id < y.id => z \in replay'[p]
    BY <1>1, <2>1, <2>2 DEF PageInv, ReplayInv
  <2>5. \A y \in log : y.id <= x.id => y.id <= last[p] \/ y.id = x.id
    BY <1>1, <2>1, <2>2 DEF PageInv, ReplayInv
  <2>6. \A y \in Unseen(p)' : y \in Unseen(p) /\ y.id # x.id
    BY <1>1, <2>1, <2>2 DEF Unseen, LockInv
  <2>7. ASSUME ~early[p] PROVE \A y \in Unseen(p)' : x.id < y.id
    BY <1>1, <2>2, <2>5, <2>6, <2>7 DEF PageInv, SeenInv, Unseen
  <2>8. ReplayInv(p)'
    BY <1>1, <2>1, <2>3, <2>4 DEF ReplayInv
  <2>9. IsRowId(last[p])' /\ InboxInv(p)'
    BY <1>1, <2>1, <2>2 DEF PageInv, IsRowId, InboxInv
  <2>10. ASSUME ~early[p], home[p] # None
         PROVE  (home[p] \in started)' /\ Covers(p)' /\ InOrder(p)'
    BY <1>1, <2>6, <2>10 DEF PageInv, Covers, InOrder
  <2> QED BY <1>1, <2>1, <2>7, <2>8, <2>9, <2>10 DEF PageInv, SeenInv
<1> QED BY <1>2, <1>3

(* A message that tells of an unseen row is not left out.                  *)
LEMMA TellsIsNew ==
    ASSUME TypeOK, NEW p \in Pages, PageInv(p), ~early[p],
           NEW k \in 1..Len(inbox[p]), NEW x \in Unseen(p), Tells(inbox[p][k], x)
    PROVE  ~IsOld(p, inbox[p][k])
<1> DEFINE m == inbox[p][k]
<1>1. m.id \in Nat /\ last[p] \in Nat /\ x.id \in Nat \ {0} /\ x.event \in Nat \ {0} /\ last[p] < x.id
  BY MessageTypes DEF PageInv, SeenInv, Unseen, TypeOK, Row
<1>2. CASE m.event = x.event
  <2>1. m \in log /\ m \in Unseen(p)
    BY <1>1, <1>2 DEF PageInv, InboxInv, Unseen
  <2>2. last[p] < m.id
    BY <2>1 DEF PageInv, SeenInv
  <2> QED BY <1>1, <2>2 DEF IsOld
<1>3. CASE m.event = 0 /\ (m.id = 0 \/ x.id <= m.id)
  BY <1>1, <1>3 DEF IsOld
<1> QED BY <1>2, <1>3 DEF Tells

LEMMA PageReceives ==
    ASSUME TypeOK, LockInv, NEW p \in Pages, PageInv(p), Receive(p)
    PROVE  PageInv(p)'
<1> DEFINE q == inbox[p]
           m == Head(q)
<1>1. /\ UNCHANGED <<log, started, home, early, at>> /\ replay[p] = {} /\ replay'[p] = {}
      /\ q # <<>> /\ inbox'[p] = Tail(q) /\ q \in Seq(Message)
  BY DEF Receive, readVars, TypeOK
<1>2. /\ Len(q) \in Nat /\ Len(Tail(q)) = Len(q) - 1 /\ m = q[1] /\ 1 \in 1..Len(q)
      /\ \A k \in 1..Len(Tail(q)) : k \in Nat /\ k + 1 \in 1..Len(q) /\ Tail(q)[k] = q[k + 1]
  BY <1>1
<1>3. \A x \in log : x.id \in Nat \ {0} /\ x.event \in Nat \ {0} /\ x.event \in All
  BY DEF TypeOK, Row, LockInv
<1>4. m.id \in Nat /\ last[p] \in Nat /\ IsRowId(m.id) /\ (m.event # 0 => m \in log)
  BY <1>2, MessageTypes DEF PageInv, InboxInv, TypeOK
<1>5. \/ IsOld(p, m) /\ last'[p] = last[p] /\ seen'[p] = seen[p]
      \/ /\ ~IsOld(p, m)
         /\ last'[p] = (IF m.id = 0 THEN last[p] ELSE m.id)
         /\ seen'[p] = (IF m.event = 0 THEN All ELSE seen[p] \cup {m.event})
  BY DEF Receive, TypeOK
<1>6. IsRowId(last[p])' /\ ReplayInv(p)' /\ InboxInv(p)'
  <2>1. IsRowId(last'[p])
    BY <1>4, <1>5 DEF PageInv
  <2> QED BY <1>1, <1>2, <2>1 DEF PageInv, IsRowId, ReplayInv, InboxInv
<1>7. \A x \in Unseen(p)' : x \in Unseen(p)
  BY <1>1, <1>3, <1>5 DEF Unseen
<1>8. ASSUME ~early[p], NEW x \in Unseen(p)' PROVE ~Tells(m, x)
  <2>1. Tells(m, x) => ~IsOld(p, m)
    BY <1>2, <1>7, <1>8, TellsIsNew
  <2>2. x \in log /\ x.event \notin seen'[p]
    BY <1>1, <1>8 DEF Unseen
  <2> QED BY <1>3, <1>5, <2>1, <2>2 DEF Tells
<1>9. ASSUME ~early[p], home[p] # None
      PROVE  (home[p] \in started)' /\ Covers(p)' /\ InOrder(p)'
  <2>1. Covers(p) /\ InOrder(p) /\ home[p] \in started
    BY <1>9 DEF PageInv
  <2>2. ASSUME NEW x \in Unseen(p)', NEW j \in 1..Len(q), Tells(q[j], x)
        PROVE  j # 1 /\ j - 1 \in 1..Len(Tail(q)) /\ Tells(Tail(q)[j - 1], x)
    <3>1. j # 1
      BY <1>2, <1>8, <1>9, <2>2
    <3>2. j - 1 \in 1..Len(Tail(q)) /\ (j - 1) + 1 = j
      BY <1>2, <3>1
    <3>3. Tail(q)[j - 1] = q[j]
      BY <1>2, <3>2
    <3> QED BY <2>2, <3>1, <3>2, <3>3
  <2>3. Covers(p)'
    <3> SUFFICES ASSUME NEW x \in Unseen(p)', x.id <= at'[home'[p]]
                 PROVE  \E k \in 1..Len(Tail(q)) : Tells(Tail(q)[k], x)
      BY <1>1 DEF Covers
    <3>1. PICK j \in 1..Len(q) : Tells(q[j], x)
      BY <1>1, <1>7, <2>1 DEF Covers
    <3> QED BY <2>2, <3>1
  <2>4. InOrder(p)'
    <3> SUFFICES ASSUME NEW x \in Unseen(p)', NEW k \in 1..Len(Tail(q)), x.id < Tail(q)[k].id
                 PROVE  \E j \in 1..k : Tells(Tail(q)[j], x)
      BY <1>1 DEF InOrder
    <3>1. PICK j \in 1..(k + 1) : Tells(q[j], x)
      BY <1>2, <1>7, <2>1 DEF InOrder
    <3>2. j \in 1..Len(q)
      BY <1>2, <3>1
    <3>3. j - 1 \in 1..k /\ Tells(Tail(q)[j - 1], x)
      BY <1>2, <2>2, <3>1, <3>2
    <3> QED BY <3>3
  <2> QED BY <1>1, <2>1, <2>3, <2>4
<1>10. ASSUME ~early[p] PROVE SeenInv(p)'
  <2> SUFFICES ASSUME NEW x \in Unseen(p)' PROVE last'[p] < x.id
    BY DEF SeenInv
  <2>1. last[p] < x.id /\ x.id \in Nat /\ ~Tells(m, x)
    BY <1>3, <1>7, <1>8, <1>10 DEF PageInv, SeenInv, Unseen
  <2>2. last'[p] = last[p] \/ last'[p] = m.id
    BY <1>5
  <2>3. ~(x.id < m.id)
    <3> SUFFICES ASSUME x.id < q[1].id PROVE FALSE
      BY <1>2
    <3>1. InOrder(p) /\ x \in Unseen(p)
      BY <1>7, <1>10 DEF PageInv, Receive
    <3>2. \E j \in 1..1 : Tells(q[j], x)
      BY <1>2, <3>1 DEF InOrder
    <3> QED BY <1>2, <2>1, <3>2
  <2>4. m.id # x.id
    <3>1. m.event # 0 => m = x \/ m.id # x.id
      BY <1>4, <1>7 DEF LockInv, Unseen
    <3> QED BY <1>4, <2>1, <3>1 DEF Tells
  <2> QED BY <1>4, <2>1, <2>2, <2>3, <2>4
<1> QED BY <1>1, <1>6, <1>9, <1>10 DEF PageInv

LEMMA PagesStep ==
    ASSUME TypeOK, TypeOK', LockInv, Grows, NEW p \in Pages, PageInv(p),
           \A r \in Replicas : ReadInv(r), [Next]_vars
    PROVE  PageInv(p)'
<1>1. ASSUME UNCHANGED <<log, started, at, inbox, pageVars>>
      PROVE  PageInv(p)'
  BY <1>1 DEF pageVars, PageInv, IsRowId, ReplayInv, InboxInv, SeenInv, Unseen, Covers, InOrder
<1>2. ASSUME NEW r \in Replicas, ReplicaStep(r)
      PROVE  PageInv(p)'
  <2>1. CASE Publish(r) \/ Writer(r) \/ WriteFails(r)
    <3>1. UNCHANGED <<readVars, pageVars>> /\ Told(p)
      BY <2>1, TellTold DEF Publish, Writer, TakeBatch, BeginTxn, Insert, Commit, WriteFails
    <3>2. home[p] # None => at[home[p]] \in Nat
      BY DEF TypeOK
    <3> QED BY <3>1, <3>2, PageKept DEF readVars, pageVars
  <2>2. CASE Initialize(r)
    <3>1. UNCHANGED <<log, inbox, pageVars>> /\ started' = started \cup {r} /\ r \notin started
      BY <2>2 DEF Initialize
    <3>2. \A s \in Replicas \ {r} : at'[s] = at[s]
      BY <2>2 DEF Initialize, TypeOK
    <3>3. ~early[p] /\ home[p] # None => home[p] \in Replicas \ {r}
      BY <3>1 DEF PageInv, TypeOK
    <3> QED BY <3>1, <3>2, <3>3
            DEF pageVars, PageInv, IsRowId, ReplayInv, InboxInv, SeenInv, Unseen, Covers, InOrder
  <2>3. CASE Read(r) \/ Returns(r)
    BY <1>1, <2>3 DEF Read, Returns
  <2>4. CASE Relay(r)
    <3>1. PICK x \in rows[r] : /\ \A y \in rows[r] : x.id <= y.id
                               /\ at' = [at EXCEPT ![r] = x.id] /\ Tell(r, x)
      BY <2>4 DEF Relay
    <3>2. UNCHANGED <<log, started, pageVars>>
      BY <2>4 DEF Relay
    <3>3. CASE home[p] = r
      <4>1. inbox'[p] = Put(inbox[p], x) /\ at'[r] = x.id
        BY <3>1, <3>3 DEF Tell, TypeOK
      <4> QED BY <3>1, <3>2, <3>3, <4>1, PageRelayed
    <3>4. CASE home[p] # r
      <4>1. inbox'[p] = inbox[p] /\ at'[home[p]] = at[home[p]]
        BY <3>1, <3>4 DEF Tell, TypeOK
      <4> QED BY <3>2, <4>1
              DEF pageVars, PageInv, IsRowId, ReplayInv, InboxInv, SeenInv, Unseen, Covers, InOrder
    <3> QED BY <3>3, <3>4
  <2>5. CASE ReadFails(r)
    <3>1. UNCHANGED <<inbox, started, pageVars>> /\ at' = [at EXCEPT ![r] = cursor[r]]
      BY <2>5 DEF ReadFails
    <3>2. /\ home[p] # None => home[p] \in Replicas
          /\ \A s \in Replicas : at[s] \in Nat /\ cursor[s] <= at[s]
          /\ \A s \in Replicas : at'[s] = IF s = r THEN cursor[s] ELSE at[s]
      BY <3>1 DEF ReadInv, TypeOK
    <3>3. home[p] # None => at'[home[p]] <= at[home[p]]
      BY <3>2
    <3> QED BY <3>1, <3>3, PageKept, TellTold DEF pageVars
  <2>6. CASE Crash(r)
    <3>1. /\ UNCHANGED <<listed, replay, last, early, seen, inbox>> /\ started' = started \ {r}
          /\ \A s \in Replicas \ {r} : at'[s] = at[s]
          /\ home'[p] = (IF home[p] = r THEN None ELSE home[p])
      BY <2>6 DEF Crash, TypeOK
    <3>2. home'[p] # None => home'[p] = home[p] /\ home[p] \in Replicas \ {r} /\ at[home[p]] \in Nat
      BY <3>1 DEF TypeOK
    <3> QED BY <3>1, <3>2, PageKept, TellTold
  <2> QED BY <1>2, <2>1, <2>2, <2>3, <2>4, <2>5, <2>6 DEF ReplicaStep, Reader
<1>3. ASSUME NEW o \in Pages, PageStep(o)
      PROVE  PageInv(p)'
  <2>1. CASE o = p
    <3>1. CASE Close(p)
      <4>1. UNCHANGED <<log, readVars, listed, replay, last, early, seen, inbox>> /\ home'[p] = None
        BY <3>1 DEF Close, TypeOK
      <4> QED BY <4>1, PageKept, TellTold
    <3> QED BY <1>3, <2>1, <3>1, PageOpens, PageReplays, PageReceives, FanOutAssumption
            DEF PageStep, Page
  <2>2. CASE o # p
    <3>1. /\ UNCHANGED <<log, started, at>> /\ home'[p] = home[p] /\ inbox'[p] = inbox[p]
          /\ replay'[p] = replay[p] /\ last'[p] = last[p] /\ early'[p] = early[p]
          /\ seen'[p] = seen[p]
      <4>1. CASE \E r \in Hosts : Open(o, r)
        BY <2>2, <4>1 DEF Open, TypeOK, readVars
      <4>2. CASE ListMissed(o)
        BY <2>2, <4>2 DEF ListMissed, TypeOK, readVars
      <4>3. CASE Replay(o)
        BY <2>2, <4>3 DEF Replay, TypeOK, readVars
      <4>4. CASE Receive(o)
        BY <2>2, <4>4 DEF Receive, TypeOK, readVars
      <4>5. CASE Close(o)
        BY <2>2, <4>5 DEF Close, TypeOK, readVars
      <4> QED BY <1>3, <4>1, <4>2, <4>3, <4>4, <4>5 DEF PageStep, Page
    <3> QED BY <3>1 DEF PageInv, IsRowId, ReplayInv, InboxInv, SeenInv, Unseen, Covers, InOrder
  <2> QED BY <2>1, <2>2
<1>4. CASE UNCHANGED vars
  BY <1>1, <1>4 DEF vars, readVars
<1> QED BY <1>2, <1>3, <1>4 DEF Next

-----------------------------------------------------------------------------
LEMMA TypeStep ==
    ASSUME TypeOK, [Next]_vars
    PROVE  TypeOK'
<1>1. ASSUME NEW r \in Replicas, ReplicaStep(r) PROVE TypeOK'
  BY <1>1, PublishType, WriterType, WriteFailsType, ReaderType, CrashType
     DEF ReplicaStep, Writer, Reader
<1>2. ASSUME NEW p \in Pages, PageStep(p) PROVE TypeOK'
  BY <1>2, PageType, FanOutAssumption DEF PageStep, Page
<1>3. CASE UNCHANGED vars
  BY <1>3 DEF vars, writeVars, readVars, pageVars, TypeOK, All
<1> QED BY <1>1, <1>2, <1>3 DEF Next

LEMMA InvInit == Init => Inv
<1> SUFFICES ASSUME Init PROVE Inv
  OBVIOUS
<1>1. LockInv /\ Accounted
  BY DEF Init, LockInv, Accounted, All
<1>2. \A r \in Replicas : ReadInv(r)
  BY DEF Init, ReadInv, IsRowId
<1>3. ASSUME NEW p \in Pages PROVE PageInv(p)
  <2>1. 1..Len(inbox[p]) = {}
    BY DEF Init
  <2> QED BY <2>1 DEF Init, PageInv, IsRowId, ReplayInv, InboxInv, SeenInv, Unseen
<1> QED BY <1>1, <1>2, <1>3, TypeInit DEF Inv

(* Every step preserves the invariant, and the log only grows at its end.  *)
LEMMA InvStep == Inv /\ [Next]_vars => Inv' /\ Grows
BY TypeStep, LockStep, AccountedStep, ReadStep, PagesStep DEF Inv

(* The invariant holds in every reachable state of EventFanOut.            *)
THEOREM InvHolds == Spec => []Inv
<1> QED BY InvInit, InvStep, PTL DEF Spec

(* Every variable of the fan-out keeps its type.                           *)
THEOREM TypeCorrect == Spec => []TypeOK
<1>1. Inv => TypeOK
  BY DEF Inv
<1> QED BY <1>1, InvHolds, PTL

(* No page misses a change unnoticed (NothingMissed of EventFanOut), for   *)
(* every number of replicas, pages, events, failures and crashes: what the *)
(* page does not show was lost before it was stored, is still to be stored *)
(* or read, or waits in the page's queue and will not be left out.         *)
THEOREM NoPageMissesAny == Spec => []NothingMissed
<1>1. ASSUME Inv, NEW p \in Pages, home[p] # None, ~early[p],
             NEW e \in All \ Lost, e \notin seen[p]
      PROVE  OnItsWay(p, e)
  <2>1. CASE e \in Unstored
    BY <2>1 DEF OnItsWay
  <2>2. CASE e \notin Unstored
    <3>1. PICK x \in log : x.event = e
      BY <1>1, <2>2 DEF Inv, Accounted, Unstored, Lost
    <3>2. x \in Unseen(p) /\ TypeOK /\ PageInv(p) /\ x.id \in Nat /\ home[p] \in Replicas
          /\ at[home[p]] \in Nat
      BY <1>1, <3>1 DEF Inv, Unseen, TypeOK, Row
    <3>3. CASE x.id > at[home[p]]
      BY <3>1, <3>3 DEF OnItsWay, Unread
    <3>4. CASE x.id <= at[home[p]]
      <4>1. PICK k \in 1..Len(inbox[p]) : Tells(inbox[p][k], x)
        BY <1>1, <3>2, <3>4 DEF PageInv, Covers
      <4>2. ~IsOld(p, inbox[p][k])
        BY <1>1, <3>2, <4>1, TellsIsNew
      <4>3. inbox[p][k].event \in {0, e}
        BY <3>1, <4>1 DEF Tells
      <4> QED BY <4>1, <4>2, <4>3 DEF OnItsWay, WillTell
    <3> QED BY <3>2, <3>3, <3>4
  <2> QED BY <2>1, <2>2
<1>2. Inv => NothingMissed
  BY <1>1 DEF NothingMissed
<1> QED BY <1>2, InvHolds, PTL

-----------------------------------------------------------------------------
(* The refinement of EventFeed.                                            *)

FeedVars == <<log, last, seen, early>>

(* Pages show events that were published, and nothing else.                *)
ShownWasPublished == \A p \in Pages : seen[p] \subseteq All

(* A step of a replica shows pages nothing and appends to the log.         *)
LEMMA ReplicaAppends ==
    ASSUME Inv, [Next]_vars, NEW r \in Replicas, ReplicaStep(r)
    PROVE  Feed!Append /\ All \subseteq All'
<1>1. Grows
  BY InvStep
<1>2. UNCHANGED <<last, seen, early>>
  BY DEF ReplicaStep, Publish, Writer, TakeBatch, BeginTxn, Insert, Commit, WriteFails, Reader,
     Initialize, Read, Relay, Returns, ReadFails, Crash, pageVars
<1>3. published' = published \/ published' = published + 1
  BY DEF ReplicaStep, Publish, Writer, TakeBatch, BeginTxn, Insert, Commit, WriteFails, Reader,
     Initialize, Read, Relay, Returns, ReadFails, Crash, writeVars
<1>4. published \in Nat
  BY FanOutAssumption DEF Inv, TypeOK
<1>5. All \subseteq All'
  BY <1>3, <1>4 DEF All
<1> QED BY <1>1, <1>2, <1>5 DEF Feed!Append, Grows

(* A page that joins reloads, and shows all there is.                      *)
LEMMA OpenJoins ==
    ASSUME Inv, ShownWasPublished, NEW p \in Pages, NEW r \in Hosts, Open(p, r)
    PROVE  Feed!Join(p) /\ seen'[p] \subseteq All'
<1>1. /\ seen' = [seen EXCEPT ![p] = All] /\ All' = All
      /\ early' = [early EXCEPT ![p] = (r \notin started)] /\ UNCHANGED <<log, last>>
  BY DEF Open, writeVars, All
<1>2. seen'[p] = All /\ seen[p] \subseteq All /\ \A x \in log : x.event \in All
  BY <1>1 DEF Inv, TypeOK, LockInv, ShownWasPublished
<1>3. Feed!Shows(p)
  BY <1>1, <1>2 DEF Feed!Shows
<1>4. (r \notin started) \in BOOLEAN
  OBVIOUS
<1> QED BY <1>1, <1>2, <1>3, <1>4 DEF Feed!Join

(* A page follows the log when the id it takes is the one it had, or a     *)
(* higher one of a row: what it shows up to there is in the invariant.     *)
LEMMA TakesFollow ==
    ASSUME Inv, Inv', NEW p \in Pages, UNCHANGED <<log, early>>, Feed!Shows(p),
           NEW i \in Nat, last[p] <= i, IsRowId(i) \/ i = last[p],
           last' = [last EXCEPT ![p] = i]
    PROVE  Feed!Follow(p)
<1>1. last[p] \in Nat /\ last'[p] = i /\ \A x \in log : x.id \in Nat /\ x.id # 0
  BY DEF Inv, TypeOK, Row
<1>2. i \in {last[p]} \cup {x.id : x \in log}
  BY <1>1 DEF IsRowId
<1>3. early[p] \/ \A x \in log : x.id <= i => x.event \in seen'[p]
  <2> SUFFICES ASSUME ~early[p], NEW x \in log, x.id <= i PROVE x.event \in seen'[p]
    OBVIOUS
  <2>1. \A y \in log : y.event \notin seen'[p] => i < y.id
    BY <1>1 DEF Inv, PageInv, SeenInv, Unseen
  <2> QED BY <1>1, <2>1
<1> QED BY <1>2, <1>3 DEF Feed!Follow

(* A replayed row is the next one after the page's id.                     *)
LEMMA ReplayFollows ==
    ASSUME Inv, Inv', ShownWasPublished, NEW p \in Pages, Replay(p)
    PROVE  Feed!Follow(p) /\ seen'[p] \subseteq All'
<1>1. PICK x \in replay[p] : /\ last' = [last EXCEPT ![p] = x.id]
                             /\ seen' = [seen EXCEPT ![p] = @ \cup {x.event}]
  BY DEF Replay
<1>2. UNCHANGED <<log, early>> /\ All' = All
  BY DEF Replay, writeVars, All
<1>3. x \in log /\ last[p] < x.id /\ x.id \in Nat /\ last[p] \in Nat /\ x.event \in All
  BY DEF Inv, PageInv, ReplayInv, TypeOK, Row, LockInv
<1>4. seen'[p] = seen[p] \cup {x.event}
  BY <1>1 DEF Inv, TypeOK
<1>5. Feed!Shows(p)
  BY <1>1, <1>4 DEF Feed!Shows
<1>6. IsRowId(x.id) /\ last[p] <= x.id
  BY <1>3 DEF IsRowId
<1>7. Feed!Follow(p)
  BY <1>1, <1>2, <1>3, <1>5, <1>6, TakesFollow
<1> QED BY <1>2, <1>3, <1>4, <1>7 DEF ShownWasPublished

(* A message is left out, or brings a row or a notice above the page's id, *)
(* or a notice without one.                                                *)
LEMMA ReceiveFollows ==
    ASSUME Inv, Inv', ShownWasPublished, NEW p \in Pages, Receive(p)
    PROVE  Feed!Follow(p) /\ seen'[p] \subseteq All'
<1> DEFINE m == Head(inbox[p])
<1>1. UNCHANGED <<log, early>> /\ All' = All
  BY DEF Receive, writeVars, All
<1>2. inbox[p] \in Seq(Message) /\ inbox[p] # <<>>
  BY DEF Receive, Inv, TypeOK
<1>3. 1 \in 1..Len(inbox[p]) /\ m = inbox[p][1]
  BY <1>2
<1>4. m.id \in Nat /\ IsRowId(m.id) /\ (m.event # 0 => m.event \in All)
  BY <1>3, MessageTypes DEF Inv, PageInv, InboxInv, LockInv
<1>5. last[p] \in Nat /\ seen[p] \subseteq All /\ last \in [Pages -> Nat]
      /\ seen \in [Pages -> SUBSET Nat]
  BY DEF Inv, TypeOK, ShownWasPublished
<1>6. CASE IsOld(p, m) /\ UNCHANGED <<last, seen>>
  <2>1. Feed!Shows(p) /\ last' = [last EXCEPT ![p] = last[p]]
    BY <1>5, <1>6 DEF Feed!Shows
  <2>2. last[p] \in Nat /\ last[p] <= last[p]
    BY <1>5
  <2>3. Feed!Follow(p)
    BY <1>1, <2>1, <2>2, TakesFollow
  <2> QED BY <1>1, <1>5, <1>6, <2>3
<1>7. CASE /\ ~IsOld(p, m)
           /\ last' = [last EXCEPT ![p] = IF m.id = 0 THEN @ ELSE m.id]
           /\ seen' = [seen EXCEPT ![p] = IF m.event = 0 THEN All ELSE @ \cup {m.event}]
  <2> DEFINE i == IF m.id = 0 THEN last[p] ELSE m.id
             S == IF m.event = 0 THEN All ELSE seen[p] \cup {m.event}
  <2>1. i \in Nat /\ last[p] <= i /\ (IsRowId(i) \/ i = last[p])
    BY <1>4, <1>5, <1>7 DEF IsOld
  <2>2. seen[p] \subseteq S /\ S \subseteq All
    BY <1>4, <1>5
  <2>3. last' = [last EXCEPT ![p] = i] /\ seen' = [seen EXCEPT ![p] = S]
    BY <1>7
  <2> HIDE DEF i, S, m
  <2>4. Feed!Shows(p) /\ seen'[p] = S
    BY <1>5, <2>2, <2>3 DEF Feed!Shows
  <2> QED BY <1>1, <2>1, <2>2, <2>3, <2>4, TakesFollow
<1> QED BY <1>6, <1>7 DEF Receive

(* A step of a page is one of EventFeed or does not show there.            *)
LEMMA PageFollows ==
    ASSUME Inv, Inv', ShownWasPublished, NEW p \in Pages, PageStep(p)
    PROVE  /\ Feed!Join(p) \/ Feed!Follow(p) \/ UNCHANGED FeedVars
           /\ All' = All
           /\ seen'[p] \subseteq All' /\ \A o \in Pages \ {p} : seen'[o] = seen[o]
<1>1. CASE \E r \in Hosts : Open(p, r)
  <2>1. PICK r \in Hosts : Open(p, r)
    BY <1>1
  <2>2. All' = All /\ \A o \in Pages \ {p} : seen'[o] = seen[o]
    BY <2>1 DEF Open, writeVars, All, Inv, TypeOK
  <2> QED BY <2>1, <2>2, OpenJoins
<1>2. CASE Replay(p)
  BY <1>2, ReplayFollows DEF Replay, writeVars, All, Inv, TypeOK
<1>3. CASE Receive(p)
  <2>1. \A o \in Pages \ {p} : seen'[o] = seen[o]
    BY <1>3 DEF Receive, Inv, TypeOK
  <2>2. All' = All
    BY <1>3 DEF Receive, writeVars, All
  <2> QED BY <1>3, <2>1, <2>2, ReceiveFollows
<1>4. CASE ListMissed(p) \/ Close(p)
  BY <1>4 DEF ListMissed, Close, writeVars, All, FeedVars, ShownWasPublished
<1> QED BY <1>1, <1>2, <1>3, <1>4 DEF PageStep, Page

(* Every step of the fan-out is one of EventFeed or does not show there.   *)
LEMMA FeedStep ==
    ASSUME Inv, ShownWasPublished, [Next]_vars
    PROVE  [Feed!Next]_FeedVars /\ ShownWasPublished'
<1>1. Inv'
  BY InvStep
<1>2. ASSUME NEW r \in Replicas, ReplicaStep(r)
      PROVE  [Feed!Next]_FeedVars /\ ShownWasPublished'
  BY <1>2, ReplicaAppends DEF Feed!Next, Feed!Append, ShownWasPublished
<1>3. ASSUME NEW p \in Pages, PageStep(p)
      PROVE  [Feed!Next]_FeedVars /\ ShownWasPublished'
  BY <1>1, <1>3, PageFollows DEF Feed!Next, ShownWasPublished
<1>4. CASE UNCHANGED vars
  BY <1>4 DEF vars, pageVars, writeVars, FeedVars, ShownWasPublished, All
<1> QED BY <1>2, <1>3, <1>4 DEF Next

(* The fan-out implements EventFeed: whatever replicas store at the same   *)
(* time, repeat, drop or forget (sse.py:142, postgres.py:1228), an id that *)
(* a page remembers stands for all rows up to it.                          *)
THEOREM PagesFollowTheFeed == Spec => ImplementsEventFeed
<1>1. Init => Feed!Init /\ ShownWasPublished
  BY DEF Init, Feed!Init, ShownWasPublished
<1>2. Inv /\ ShownWasPublished /\ [Next]_vars => [Feed!Next]_FeedVars /\ ShownWasPublished'
  BY FeedStep
<1> QED BY <1>1, <1>2, InvHolds, PTL
       DEF Spec, ImplementsEventFeed, Feed!Spec, FeedVars

=============================================================================
