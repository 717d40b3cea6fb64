-------------------------- MODULE ReportOutboxProofs --------------------------
(***************************************************************************)
(* Safety of the outbox for every set of reports, streams and callers and  *)
(* every number of crashes, cancellations and requests that outlive their  *)
(* sender; and the outbox implements the durable mailbox.                  *)
(***************************************************************************)
EXTENDS ReportOutbox, TLAPS

(* A report some delivery, request or cancelled operation still works on:  *)
(* it is the report in its row exactly when it is the newest one.          *)
Known(r) ==
    /\ r.id <= lastId /\ r.ver <= newest[r.key]
    /\ row[r.key] # None =>
         /\ row[r.key].id = r.id => r.gen <= row[r.key].gen
         /\ row[r.key].id = r.id /\ row[r.key].gen = r.gen <=> r.ver = newest[r.key]

(* A report that was sent headed its stream, and still does if it is the   *)
(* one in its row.                                                         *)
HeadWhenSent(r) == row[r.key] # None /\ r.ver = newest[r.key] => IsHead(r.key)

TableOK ==
    /\ lastId <= reports
    /\ \A k \in Keys : newest[k] <= reports
    /\ \A k \in Pending : row[k].id <= lastId /\ row[k].gen <= newest[k]
    /\ \A j, k \in Pending : j # k => row[j].id # row[k].id

ReportsKnown ==
    /\ \A s \in Slots : rep[s] # None => Known(rep[s])
    /\ \A r \in stray : Known(r)
    /\ \A x \in late : Known(x.rep)

SentFromHead ==
    /\ \A s \in Slots : at[s] \in {"sending", "posted"} => HeadWhenSent(rep[s])
    /\ \A r \in stray : HeadWhenSent(r)

ClaimsOK ==
    /\ \A s \in Slots : rep[s] = None <=> at[s] = "idle"
    /\ \A s \in Slots : at[s] \in {"sending", "posted"} => s \in holds
    /\ \A s \in holds : at[s] \notin {"idle", "claiming", "orphaned"}
    /\ \A s, t \in holds : s # t => rep[s].id # rep[t].id

(* Two callers never work on the same report, and a caller whose operation *)
(* goes on in a thread does nothing else before it gives the claim back.   *)
CallersApart ==
    /\ \A p, q \in Callers : p # q /\ rep[p] # None /\ rep[q] # None
                                => rep[p].ver # rep[q].ver
    /\ \A x \in late : ~x.done =>
         x.outcome \in Outcomes /\ \A p \in Callers : rep[p] = x.rep => at[p] = "closing"

Answered ==
    /\ \A s \in Slots : at[s] \in Decisions => Answer(rep[s], at[s]) \in answers
    /\ \A x \in late : x.outcome \in Decisions => Answer(x.rep, x.outcome) \in answers

Inv == /\ TypeOK /\ TableOK /\ ReportsKnown /\ SentFromHead /\ ClaimsOK
       /\ CallersApart /\ Answered /\ NothingLost /\ BlockedIsRefused

USE OutboxAssumption, NoneAssumption

-----------------------------------------------------------------------------
(* Steps of the table.                                                     *)

TableType == /\ row \in [Keys -> Row \cup {None}] /\ lastId \in 0..MaxReports
             /\ newest \in [Keys -> 0..MaxReports] /\ reports \in 0..MaxReports

(* The row enqueue writes.                                                 *)
LEMMA UpsertedRow ==
    ASSUME TableType, TableOK, NEW k \in Keys, reports < MaxReports
    PROVE  /\ Upserted(k) \in Row /\ Upserted(k) # None
           /\ ~Upserted(k).blocked
           /\ Upserted(k).id <= (IF row[k] = None THEN lastId + 1 ELSE lastId)
           /\ row[k] = None => Upserted(k).id = lastId + 1
           /\ row[k] # None => Upserted(k).id = row[k].id /\ Upserted(k).gen = row[k].gen + 1
           /\ Upserted(k).gen <= reports + 1
<1>1. CASE row[k] = None
  <2>1. Upserted(k) = [id |-> lastId + 1, gen |-> 1, blocked |-> FALSE, due |-> TRUE]
    BY <1>1 DEF Upserted
  <2>2. lastId + 1 \in Ids /\ 1 \in Ids
    BY DEF TableType, TableOK, Ids
  <2>3. Upserted(k) \in Row
    BY <2>1, <2>2 DEF Row
  <2>4. Upserted(k) # None
    BY <2>3
  <2>5. ~Upserted(k).blocked /\ Upserted(k).id = lastId + 1 /\ Upserted(k).gen = 1
    BY <2>1
  <2> QED BY <1>1, <2>3, <2>4, <2>5 DEF TableType
<1>2. CASE row[k] # None
  <2>1. /\ row[k] \in Row /\ row[k].id <= lastId /\ row[k].gen <= newest[k]
        /\ newest[k] <= reports
    BY <1>2 DEF TableType, TableOK, Pending
  <2>2. Upserted(k) = [id |-> row[k].id, gen |-> row[k].gen + 1, blocked |-> FALSE,
                       due |-> TRUE]
    BY <1>2 DEF Upserted
  <2>3. row[k].id \in Ids /\ row[k].gen + 1 \in Ids /\ row[k].gen + 1 <= reports + 1
    BY <2>1 DEF TableType, Row, Ids
  <2>4. Upserted(k) \in Row
    BY <2>2, <2>3 DEF Row
  <2>5. Upserted(k) # None
    BY <2>4
  <2>6. /\ ~Upserted(k).blocked
        /\ Upserted(k).id = row[k].id /\ Upserted(k).gen = row[k].gen + 1
    BY <2>2
  <2> QED BY <1>2, <2>1, <2>3, <2>4, <2>5, <2>6
<1> QED BY <1>1, <1>2

(* A step that only removes rows or changes their blocked and due flags    *)
(* keeps the table well formed, and what is known of the reports.          *)
RowsKept ==
    /\ row' \in [Keys -> Row \cup {None}] /\ UNCHANGED <<lastId, newest, reports>>
    /\ \A k \in Keys : row'[k] # None =>
         row[k] # None /\ row'[k].id = row[k].id /\ row'[k].gen = row[k].gen

LEMMA KeptTable ==
    ASSUME TableType, TableOK, RowsKept
    PROVE  /\ TableType' /\ TableOK'
           /\ \A r \in Report : Known(r) => Known(r)'
           /\ \A r \in Report : HeadWhenSent(r) => HeadWhenSent(r)'
<1>1. TableType'
  BY DEF TableType, RowsKept
<1>2. TableOK'
  BY DEF TableOK, RowsKept, Pending
<1>3. ASSUME NEW r \in Report, Known(r) PROVE Known(r)'
  <2>1. r.key \in Keys
    BY DEF Report
  <2> QED BY <1>3, <2>1 DEF Known, RowsKept
<1>4. ASSUME NEW r \in Report, HeadWhenSent(r) PROVE HeadWhenSent(r)'
  <2>1. r.key \in Keys
    BY DEF Report
  <2> QED BY <1>4, <2>1 DEF HeadWhenSent, IsHead, Pending, RowsKept
<1> QED BY <1>1, <1>2, <1>3, <1>4

(* The report an enqueue makes.                                            *)
Enqueued(k) == [key |-> k, id |-> Upserted(k).id, gen |-> Upserted(k).gen,
                ver |-> reports + 1]

(* enqueue keeps the table well formed; no earlier report is in the row    *)
(* any more, and no other row loses the head of its stream.                *)
LEMMA StoredTable ==
    ASSUME TableType, TableOK, NEW k \in Keys, Store(k)
    PROVE  /\ TableType' /\ TableOK'
           /\ \A r \in Report : Known(r) => Known(r)'
           /\ \A r \in Report : Known(r) /\ HeadWhenSent(r) => HeadWhenSent(r)'
           /\ Enqueued(k) \in Report
           /\ \A r \in Report : r = Enqueued(k) => Known(r)'
           /\ row'[k] # None /\ ~row'[k].blocked
           /\ \A j \in Keys \ {k} : row'[j] = row[j] /\ newest'[j] = newest[j]
           /\ newest'[k] = reports + 1 /\ newest[k] <= reports
<1> DEFINE u == Upserted(k)
<1>1. /\ u \in Row /\ u # None /\ ~u.blocked
      /\ u.id <= (IF row[k] = None THEN lastId + 1 ELSE lastId)
      /\ row[k] = None => u.id = lastId + 1
      /\ row[k] # None => u.id = row[k].id /\ u.gen = row[k].gen + 1
      /\ u.gen <= reports + 1
  BY UpsertedRow DEF Store
<1>2. /\ reports' = reports + 1 /\ reports + 1 \in Ids
      /\ row' = [row EXCEPT ![k] = u]
      /\ lastId' = IF row[k] = None THEN lastId + 1 ELSE lastId
      /\ newest' = [newest EXCEPT ![k] = reports + 1]
  BY DEF Store, TableType, Ids
<1> HIDE DEF u
<1>3. u.id \in Ids /\ u.gen \in Ids
  BY <1>1 DEF Row
<1>4. /\ row'[k] = u /\ newest'[k] = reports + 1
      /\ \A j \in Keys \ {k} : row'[j] = row[j] /\ newest'[j] = newest[j]
  BY <1>2 DEF TableType
<1>5. TableType'
  <2>1. lastId' \in 0..MaxReports
    BY <1>2 DEF TableType, TableOK, Ids
  <2>2. row' \in [Keys -> Row \cup {None}]
    BY <1>1, <1>2 DEF TableType
  <2>3. newest' \in [Keys -> 0..MaxReports] /\ reports' \in 0..MaxReports
    BY <1>2 DEF TableType, Ids
  <2> QED BY <2>1, <2>2, <2>3 DEF TableType
<1>6. \A j \in Pending : row[j] \in Row /\ row[j].id \in Ids /\ row[j].gen \in Ids
  BY DEF Pending, TableType, Row
<1>7. Pending' = Pending \cup {k}
  BY <1>1, <1>4 DEF Pending
<1>8. TableOK'
  <2>1. lastId' <= reports' /\ \A j \in Keys : newest'[j] <= reports'
    BY <1>2, <1>4 DEF TableOK, TableType
  <2>2. \A j \in Pending' : row'[j].id <= lastId' /\ row'[j].gen <= newest'[j]
    BY <1>1, <1>2, <1>3, <1>4, <1>6, <1>7 DEF TableOK, TableType, Ids, Pending
  <2>3. \A i, j \in Pending' : i # j => row'[i].id # row'[j].id
    BY <1>1, <1>4, <1>6, <1>7 DEF TableOK, TableType, Ids, Pending
  <2> QED BY <2>1, <2>2, <2>3 DEF TableOK
<1>9. newest[k] <= reports
  BY DEF TableOK
<1>10. ASSUME NEW r \in Report, Known(r) PROVE Known(r)'
  <2>1. /\ r.key \in Keys /\ r.id \in Ids /\ r.gen \in Ids /\ r.ver \in Ids
        /\ r.id <= lastId /\ r.ver <= newest[r.key]
    BY <1>10 DEF Report, Known
  <2>2. CASE r.key # k
    BY <1>2, <1>4, <1>10, <2>1, <2>2 DEF Known, TableType, Ids
  <2>3. CASE r.key = k
    <3>1. r.ver # newest'[k] /\ r.ver <= newest'[k] /\ r.id <= lastId'
      BY <1>2, <1>4, <1>9, <2>1, <2>3 DEF TableType, Ids
    <3>2. CASE row[k] = None
      BY <1>1, <1>3, <1>4, <2>1, <2>3, <3>1, <3>2 DEF Known, TableType, Ids
    <3>3. CASE row[k] # None
      <4>1. row[k].id \in Ids /\ row[k].gen \in Ids
        BY <1>6, <3>3 DEF Pending
      <4>2. row[k].id = r.id => r.gen <= row[k].gen
        BY <1>10, <2>3, <3>3 DEF Known
      <4>3. u.id = row[k].id /\ u.gen = row[k].gen + 1
        BY <1>1, <3>3
      <4>4. u.id = r.id => r.gen < u.gen
        BY <2>1, <4>1, <4>2, <4>3 DEF Ids
      <4>5. u.id = r.id => r.gen <= u.gen /\ r.gen # u.gen
        BY <1>3, <2>1, <4>4 DEF Ids
      <4> QED BY <1>4, <2>3, <3>1, <4>5 DEF Known
    <3> QED BY <3>2, <3>3
  <2> QED BY <2>2, <2>3
<1>11. ASSUME NEW r \in Report, Known(r), HeadWhenSent(r) PROVE HeadWhenSent(r)'
  <2>1. r.key \in Keys /\ r.ver \in Ids /\ r.ver <= newest[r.key]
    BY <1>11 DEF Report, Known
  <2>2. CASE r.key = k
    <3>1. r.ver # newest'[k]
      BY <1>4, <1>9, <2>1, <2>2 DEF TableType, Ids
    <3> QED BY <2>2, <3>1 DEF HeadWhenSent
  <2>3. CASE r.key # k
    <3> SUFFICES ASSUME row[r.key] # None, IsHead(r.key) PROVE IsHead(r.key)'
      BY <1>4, <1>11, <2>1, <2>3 DEF HeadWhenSent
    <3>1. r.key \in Pending /\ row[r.key].id \in Ids /\ row[r.key].id <= lastId
      BY <1>6, <2>1 DEF Pending, TableOK
    <3>2. ASSUME NEW e \in Pending', StreamOf[e] = StreamOf[r.key]
          PROVE  row'[e].id >= row'[r.key].id
      <4>1. CASE e # k
        BY <1>4, <1>7, <2>1, <2>3, <3>2, <4>1 DEF IsHead, Pending
      <4>2. CASE e = k /\ row[k] # None
        BY <1>1, <1>4, <2>1, <2>3, <3>2, <4>2 DEF IsHead, Pending
      <4>3. CASE e = k /\ row[k] = None
        <5>1. row'[k].id = lastId + 1 /\ row'[r.key] = row[r.key]
          BY <1>1, <1>4, <2>1, <2>3, <4>3
        <5> QED BY <3>1, <4>3, <5>1 DEF TableType, Ids
      <4> QED BY <4>1, <4>2, <4>3
    <3> QED BY <3>2 DEF IsHead
  <2> QED BY <2>2, <2>3
<1>12. Enqueued(k) \in Report
  BY <1>2, <1>3 DEF Enqueued, Report, u
<1>13. ASSUME NEW r \in Report, r = Enqueued(k) PROVE Known(r)'
  <2>1. r.key = k /\ r.id = u.id /\ r.gen = u.gen /\ r.ver = reports + 1
    BY <1>13 DEF Enqueued, u
  <2> QED BY <1>1, <1>2, <1>3, <1>4, <2>1 DEF Known, TableType, Ids
<1> QED BY <1>1, <1>4, <1>5, <1>8, <1>9, <1>10, <1>11, <1>12, <1>13

(* acknowledge, defer and block lose nothing and block nothing the server  *)
(* has not refused: they do nothing unless the report is the newest one.   *)
LEMMA SettledTable ==
    ASSUME TypeOK, TableOK, NothingLost, BlockedIsRefused,
           NEW r \in Report, Known(r), NEW o \in Outcomes,
           o \in Decisions => Answer(r, o) \in answers,
           row' = Settled(r, o), UNCHANGED <<lastId, newest, reports, answers>>
    PROVE  RowsKept /\ NothingLost' /\ BlockedIsRefused'
<1> DEFINE k == r.key
           b == [row[k] EXCEPT !.due = FALSE]
           c == [row[k] EXCEPT !.blocked = TRUE]
<1>1. CASE ~Matches(r)
  <2>1. row' = row
    BY <1>1 DEF Settled
  <2> QED BY <2>1 DEF RowsKept, TypeOK, NothingLost, BlockedIsRefused, Received, Decided, Pending
<1>2. CASE Matches(r)
  <2>1. /\ k \in Keys /\ row[k] # None /\ row[k] \in Row
        /\ row[k].id = r.id /\ row[k].gen = r.gen
    BY <1>2 DEF Matches, Report, TypeOK
  <2>2. r.ver = newest[k]
    BY <2>1 DEF Known
  <2>3. \A d \in Decisions : o = d => Decided(k, newest[k], d)
    BY <2>2 DEF Answer, Decided
  <2>4. /\ o \in {"accepted", "stale"} => row' = [row EXCEPT ![k] = None]
        /\ o \in {"failed", "busy"} => row' = [row EXCEPT ![k] = b]
        /\ o = "refused" => row' = [row EXCEPT ![k] = c]
    BY <1>2 DEF Settled
  <2>5. /\ b \in Row /\ b.id = row[k].id /\ b.gen = row[k].gen /\ b.blocked = row[k].blocked
        /\ c \in Row /\ c.id = row[k].id /\ c.gen = row[k].gen
        /\ b # None /\ c # None
    BY <2>1 DEF Row
  <2> HIDE DEF b, c, k
  <2>6. \A j \in Keys \ {k} : row'[j] = row[j]
    BY <2>1, <2>4 DEF Outcomes, Decisions, TypeOK
  <2>7. RowsKept
    BY <2>1, <2>4, <2>5 DEF RowsKept, Outcomes, Decisions, TypeOK
  <2>8. /\ row'[k] = None => o \in {"accepted", "stale"}
        /\ row'[k] # None => o = "refused" \/ row'[k].blocked = row[k].blocked
    BY <2>1, <2>4, <2>5 DEF Outcomes, Decisions, TypeOK
  <2>9. \A j, n, d : Decided(j, n, d) => Decided(j, n, d)'
    BY DEF Decided
  <2>10. ASSUME NEW j \in Keys, newest'[j] > 0, row'[j] = None
         PROVE  Received(j, newest[j])'
    <3>1. CASE j = k
      BY <2>3, <2>8, <2>9, <2>10, <3>1 DEF Received, Decisions
    <3>2. CASE j # k
      BY <2>6, <2>9, <2>10, <3>2 DEF NothingLost, Received
    <3> QED BY <3>1, <3>2
  <2>11. ASSUME NEW j \in Pending', row'[j].blocked
         PROVE  Decided(j, newest[j], "refused")'
    <3>1. CASE j = k
      BY <2>1, <2>3, <2>8, <2>9, <2>11, <3>1 DEF BlockedIsRefused, Pending, Decisions
    <3>2. CASE j # k
      BY <2>6, <2>9, <2>11, <3>2 DEF BlockedIsRefused, Pending
    <3> QED BY <3>1, <3>2
  <2> QED BY <2>7, <2>10, <2>11 DEF NothingLost, BlockedIsRefused, Decided, Received
<1> QED BY <1>1, <1>2

(* A step that leaves the table alone, while the server may decide more.   *)
LEMMA TableUntouched ==
    ASSUME TableOK, NothingLost, BlockedIsRefused, UNCHANGED tableVars, answers \subseteq answers'
    PROVE  /\ TableOK' /\ NothingLost' /\ BlockedIsRefused'
           /\ \A r \in Report : Known(r) => Known(r)'
           /\ \A r \in Report : HeadWhenSent(r) => HeadWhenSent(r)'
BY DEF TableOK, NothingLost, BlockedIsRefused, tableVars, Pending, Received, Decided,
       Known, HeadWhenSent, IsHead

-----------------------------------------------------------------------------
(* The invariant, action by action.                                        *)

LEMMA InitInv == Init => Inv
<1> SUFFICES ASSUME Init PROVE Inv
  OBVIOUS
<1>1. TypeOK
  BY DEF Init, TypeOK, Slots, Places
<1>2. Pending = {}
  BY DEF Init, Pending
<1>3. TableOK
  BY <1>2 DEF Init, TableOK
<1>4. ReportsKnown /\ SentFromHead /\ ClaimsOK /\ CallersApart /\ Answered
  BY DEF Init, ReportsKnown, SentFromHead, ClaimsOK, CallersApart, Answered, Slots, Decisions
<1>5. NothingLost /\ BlockedIsRefused
  BY <1>2 DEF Init, NothingLost, BlockedIsRefused
<1> QED BY <1>1, <1>3, <1>4, <1>5 DEF Inv

(* One delivery moves on; the table and the claims stay.                   *)
LEMMA MoveInv ==
    ASSUME Inv, NEW s \in Slots, NEW to \in Places \ {"idle", "claiming"},
           at[s] \notin {"idle", "closing"}, at' = [at EXCEPT ![s] = to],
           to \in {"sending", "posted"} => at[s] \in {"sending", "posted"},
           to = "orphaned" => at[s] = "claiming",
           at[s] \in {"claiming", "orphaned"} => to = "orphaned",
           UNCHANGED <<tableVars, rep, holds, receipts, late, calls>>,
           stray' = stray \/ (at[s] = "posted" /\ stray' = stray \cup {rep[s]}),
           answers' = answers \/ answers' = answers \cup {Answer(rep[s], to)},
           to \in Decisions => Answer(rep[s], to) \in answers',
           answers' # answers => to \in Decisions,
           faults' \in 0..MaxFaults
    PROVE  Inv'
<1>1. rep[s] \in Report
  BY DEF Inv, TypeOK, ClaimsOK
<1>2. TypeOK'
  <2>1. answers' \subseteq [key : Keys, ver : Ids, decision : Decisions]
    BY <1>1 DEF Inv, TypeOK, Answer, Report
  <2>2. stray' \subseteq Report
    BY <1>1 DEF Inv, TypeOK
  <2>3. at' \in [Slots -> Places]
    BY DEF Inv, TypeOK
  <2> QED BY <2>1, <2>2, <2>3 DEF Inv, TypeOK, tableVars
<1>3. answers \subseteq answers'
  OBVIOUS
<1>4. /\ TableOK' /\ NothingLost' /\ BlockedIsRefused'
      /\ \A r \in Report : Known(r) => Known(r)'
      /\ \A r \in Report : HeadWhenSent(r) => HeadWhenSent(r)'
  BY <1>3, TableUntouched DEF Inv
<1>5. ReportsKnown'
  BY <1>1, <1>4 DEF Inv, TypeOK, ReportsKnown, ClaimsOK
<1>6. SentFromHead'
  BY <1>1, <1>4 DEF Inv, TypeOK, SentFromHead, ClaimsOK
<1>7. ClaimsOK'
  BY DEF Inv, TypeOK, ClaimsOK
<1>8. CallersApart'
  BY DEF Inv, TypeOK, CallersApart, Slots
<1>9. Answered'
  BY DEF Inv, TypeOK, Answered
<1> QED BY <1>2, <1>4, <1>5, <1>6, <1>7, <1>8, <1>9 DEF Inv

LEMMA TypeOfTable == TypeOK => TableType
BY DEF TypeOK, TableType

(* A new row is neither lost nor blocked.                                  *)
LEMMA StoredSafe ==
    ASSUME TypeOK, TableOK, NothingLost, BlockedIsRefused, NEW k \in Keys, Store(k),
           UNCHANGED answers
    PROVE  NothingLost' /\ BlockedIsRefused'
<1>1. /\ row'[k] # None /\ ~row'[k].blocked
      /\ \A j \in Keys \ {k} : row'[j] = row[j] /\ newest'[j] = newest[j]
  BY StoredTable, TypeOfTable
<1>2. \A j, n, d : Decided(j, n, d) => Decided(j, n, d)'
  BY DEF Decided
<1>3. ASSUME NEW j \in Keys, newest'[j] > 0, row'[j] = None
      PROVE  Received(j, newest[j])'
  BY <1>1, <1>2, <1>3 DEF NothingLost, Received
<1>4. ASSUME NEW j \in Pending', row'[j].blocked
      PROVE  Decided(j, newest[j], "refused")'
  BY <1>1, <1>2, <1>4 DEF BlockedIsRefused, Pending
<1> QED BY <1>3, <1>4 DEF NothingLost, BlockedIsRefused, Received, Decided

LEMMA EnqueueInv ==
    ASSUME Inv, NEW p \in Callers, NEW k \in Keys, Enqueue(p, k)
    PROVE  Inv'
<1> DEFINE n == Enqueued(k)
<1>1. /\ at[p] = "idle" /\ Store(k) /\ rep' = [rep EXCEPT ![p] = n]
      /\ at' = [at EXCEPT ![p] = "claiming"]
      /\ receipts' \subseteq receipts \cup {Receipt(n)}
      /\ UNCHANGED <<holds, late, calls, serverVars, faults>>
  BY DEF Enqueue, Enqueued
<1>2. /\ TableType' /\ TableOK'
      /\ \A r \in Report : Known(r) => Known(r)'
      /\ \A r \in Report : Known(r) /\ HeadWhenSent(r) => HeadWhenSent(r)'
      /\ n \in Report /\ \A r \in Report : r = n => Known(r)'
      /\ \A r \in Report : Known(r) => r.ver # n.ver
  <2>1. n.ver = reports + 1
    BY DEF Enqueued
  <2>2. \A r \in Report : Known(r) => r.ver <= reports
    BY DEF Known, Inv, TableOK, TypeOK, Report, Ids
  <2>3. \A r \in Report : Known(r) => r.ver # n.ver
    BY <2>1, <2>2 DEF Report, Ids, Inv, TypeOK
  <2> HIDE DEF n
  <2> QED BY <1>1, <2>3, StoredTable, TypeOfTable DEF Inv, n
<1>3. NothingLost' /\ BlockedIsRefused'
  BY <1>1, StoredSafe DEF Inv, serverVars
<1> HIDE DEF n
<1>4. n # None /\ p \in Slots
  BY <1>2 DEF Slots
<1>5. TypeOK'
  <2>1. Receipt(n) \in [id : Ids, gen : Ids]
    BY <1>2 DEF Receipt, Report
  <2>2. at' \in [Slots -> Places] /\ rep' \in [Slots -> Report \cup {None}]
    BY <1>1, <1>2, <1>4 DEF Inv, TypeOK, Places
  <2> QED BY <1>1, <1>2, <2>1, <2>2 DEF Inv, TypeOK, TableType, serverVars
<1>6. ReportsKnown'
  BY <1>1, <1>2, <1>4 DEF Inv, TypeOK, ReportsKnown, serverVars
<1>7. SentFromHead'
  BY <1>1, <1>2, <1>4 DEF Inv, TypeOK, SentFromHead, ReportsKnown, ClaimsOK, serverVars
<1>8. ClaimsOK'
  BY <1>1, <1>4 DEF Inv, TypeOK, ClaimsOK
<1>9. CallersApart'
  <2>1. \A s \in Slots : rep[s] # None => rep[s].ver # n.ver
    BY <1>2 DEF Inv, TypeOK, ReportsKnown
  <2>2. \A x \in late : x.rep # n
    BY <1>2 DEF Inv, TypeOK, ReportsKnown
  <2> QED BY <1>1, <1>4, <2>1, <2>2 DEF Inv, TypeOK, CallersApart, Slots
<1>10. Answered'
  BY <1>1 DEF Inv, TypeOK, Answered, serverVars, Decisions
<1> QED BY <1>2, <1>3, <1>5, <1>6, <1>7, <1>8, <1>9, <1>10 DEF Inv

(* A report is stored and nobody delivers it yet.                          *)
LEMMA StoreInv ==
    ASSUME Inv, NEW k \in Keys, Store(k), UNCHANGED <<slotVars, receipts, calls, serverVars>>,
           \/ UNCHANGED late
           \/ /\ row[k] # None
              /\ late' = late \cup {[rep |-> ReportOf(k), outcome |-> "replaced", done |-> TRUE]},
           faults' \in 0..MaxFaults
    PROVE  Inv'
<1> DEFINE old == [rep |-> ReportOf(k), outcome |-> "replaced", done |-> TRUE]
<1>1. /\ TableType' /\ TableOK'
      /\ \A r \in Report : Known(r) => Known(r)'
      /\ \A r \in Report : Known(r) /\ HeadWhenSent(r) => HeadWhenSent(r)'
  BY StoredTable, TypeOfTable DEF Inv
<1>2. NothingLost' /\ BlockedIsRefused'
  BY StoredSafe DEF Inv, serverVars
<1>3. row[k] # None => ReportOf(k) \in Report /\ Known(ReportOf(k))
  <2> SUFFICES ASSUME row[k] # None PROVE ReportOf(k) \in Report /\ Known(ReportOf(k))
    OBVIOUS
  <2>1. /\ row[k] \in Row /\ row[k].id <= lastId /\ row[k].gen <= newest[k]
        /\ newest[k] \in 0..MaxReports
    BY DEF Inv, TypeOK, TableOK, Pending
  <2>2. row[k].id \in Ids /\ row[k].gen \in Ids /\ newest[k] \in Ids
    BY <2>1 DEF Row, Ids
  <2> QED BY <2>1, <2>2 DEF ReportOf, Report, Known, Ids
<1>4. \A x \in late' : x \in late \/ (row[k] # None /\ x.rep = ReportOf(k) /\ x.done
                                       /\ x.outcome = "replaced")
  OBVIOUS
<1>5. TypeOK'
  <2>1. row[k] # None =>
          old \in [rep : Report, outcome : Outcomes \cup {"replaced"}, done : BOOLEAN]
    BY <1>3
  <2>2. late' \subseteq [rep : Report, outcome : Outcomes \cup {"replaced"}, done : BOOLEAN]
    BY <2>1 DEF Inv, TypeOK
  <2> QED BY <1>1, <2>2 DEF Inv, TypeOK, TableType, slotVars, serverVars
<1>6. \A x \in late' : Known(x.rep)'
  <2>1. ASSUME NEW x \in late PROVE Known(x.rep)'
    BY <1>1, <2>1 DEF Inv, TypeOK, ReportsKnown
  <2>2. ASSUME row[k] # None, NEW r \in Report, r = ReportOf(k) PROVE Known(r)'
    BY <1>1, <1>3, <2>2
  <2> HIDE DEF old
  <2> QED BY <1>3, <1>4, <2>1, <2>2
<1>7. ReportsKnown'
  BY <1>1, <1>6 DEF Inv, TypeOK, ReportsKnown, slotVars, serverVars
<1>8. SentFromHead'
  BY <1>1 DEF Inv, TypeOK, SentFromHead, ReportsKnown, ClaimsOK, slotVars, serverVars
<1>9. ClaimsOK' /\ CallersApart' /\ Answered'
  BY <1>4 DEF Inv, ClaimsOK, CallersApart, Answered, slotVars, serverVars, Decisions
<1> QED BY <1>1, <1>2, <1>5, <1>7, <1>8, <1>9 DEF Inv

(* A caller's claim: an exact, ready report no other delivery has claimed. *)
LEMMA ClaimsInv ==
    ASSUME Inv, NEW p \in Callers, at[p] \in {"claiming", "orphaned"},
           NEW then \in {"sending", "closing"}, Claims(p, then)
    PROVE  Inv'
<1>1. rep[p] \in Report /\ rep[p] # None /\ p \in Slots /\ p \notin holds
  BY DEF Inv, TypeOK, ClaimsOK, Slots
<1>2. UNCHANGED <<tableVars, receipts, late, calls, serverVars, faults>>
  BY DEF Claims
<1>3. /\ TableOK' /\ NothingLost' /\ BlockedIsRefused'
      /\ \A r \in Report : Known(r) => Known(r)'
      /\ \A r \in Report : HeadWhenSent(r) => HeadWhenSent(r)'
  BY <1>2, TableUntouched DEF Inv, serverVars
<1>4. CASE /\ ~InFlight(rep[p].id) /\ Matches(rep[p]) /\ Ready(rep[p].key)
           /\ at' = [at EXCEPT ![p] = then] /\ holds' = holds \cup {p} /\ rep' = rep
  <2>1. HeadWhenSent(rep[p])
    BY <1>4 DEF Ready, HeadWhenSent
  <2>2. TypeOK'
    <3>1. at' \in [Slots -> Places]
      BY <1>1, <1>4 DEF Inv, TypeOK, Places
    <3> QED BY <1>1, <1>2, <1>4, <3>1 DEF Inv, TypeOK, tableVars, serverVars
  <2>3. ReportsKnown' /\ SentFromHead'
    BY <1>1, <1>2, <1>3, <1>4, <2>1 DEF Inv, TypeOK, ReportsKnown, SentFromHead, ClaimsOK,
                                       serverVars
  <2>4. ClaimsOK'
    BY <1>1, <1>4 DEF Inv, TypeOK, ClaimsOK, InFlight
  <2>5. CallersApart'
    BY <1>1, <1>2, <1>4 DEF Inv, TypeOK, CallersApart, Slots
  <2>6. Answered'
    BY <1>1, <1>2, <1>4 DEF Inv, TypeOK, Answered, serverVars, Decisions
  <2> QED BY <1>3, <2>2, <2>3, <2>4, <2>5, <2>6 DEF Inv
<1>5. CASE /\ at' = [at EXCEPT ![p] = "idle"] /\ holds' = holds
           /\ rep' = [rep EXCEPT ![p] = None]
  <2>1. TypeOK'
    <3>1. at' \in [Slots -> Places] /\ rep' \in [Slots -> Report \cup {None}]
      BY <1>5 DEF Inv, TypeOK, Places
    <3> QED BY <1>2, <1>5, <3>1 DEF Inv, TypeOK, tableVars, serverVars
  <2>2. ReportsKnown' /\ SentFromHead'
    BY <1>1, <1>2, <1>3, <1>5 DEF Inv, TypeOK, ReportsKnown, SentFromHead, ClaimsOK, serverVars
  <2>3. ClaimsOK'
    BY <1>1, <1>5 DEF Inv, TypeOK, ClaimsOK
  <2>4. CallersApart'
    BY <1>1, <1>2, <1>5 DEF Inv, TypeOK, CallersApart, Slots, ReportsKnown
  <2>5. Answered'
    BY <1>1, <1>2, <1>5 DEF Inv, TypeOK, Answered, serverVars, Decisions
  <2> QED BY <1>3, <2>1, <2>2, <2>3, <2>4, <2>5 DEF Inv
<1> QED BY <1>4, <1>5 DEF Claims

(* The worker claims the ready heads of all streams at once.               *)
LEMMA WorkerClaimInv ==
    ASSUME Inv, WorkerClaim
    PROVE  Inv'
<1> DEFINE heads == {k \in Keys : Ready(k) /\ ~InFlight(row[k].id)}
           served == {StreamOf[k] : k \in heads}
           head(s) == CHOOSE k \in heads : StreamOf[k] = s
<1>1. /\ \A s \in Streams : at[s] = "idle"
      /\ rep' = [s \in Slots |-> IF s \in served THEN ReportOf(head(s)) ELSE rep[s]]
      /\ at' = [s \in Slots |-> IF s \in served THEN "sending" ELSE at[s]]
      /\ holds' = holds \cup served
      /\ UNCHANGED <<tableVars, receipts, late, calls, serverVars, faults>>
  BY DEF WorkerClaim
<1>2. ASSUME NEW s \in served
      PROVE  head(s) \in heads /\ StreamOf[head(s)] = s
  <2>1. PICK k \in heads : StreamOf[k] = s
    OBVIOUS
  <2> QED BY <2>1
<1>3. served \subseteq Streams /\ served \subseteq Slots
  BY DEF Slots
<1>4. ASSUME NEW s \in served
      PROVE  /\ head(s) \in Pending /\ StreamOf[head(s)] = s /\ IsHead(head(s))
             /\ ~InFlight(row[head(s)].id)
             /\ ReportOf(head(s)) \in Report /\ ReportOf(head(s)) # None
             /\ ReportOf(head(s)).id = row[head(s)].id
             /\ ReportOf(head(s)).key = head(s)
             /\ Known(ReportOf(head(s)))
  <2>1. PICK k \in Keys : k = head(s) /\ Ready(k) /\ ~InFlight(row[k].id) /\ StreamOf[k] = s
    BY <1>2
  <2>2. /\ row[k] \in Row /\ row[k] # None /\ row[k].id <= lastId /\ row[k].gen <= newest[k]
        /\ newest[k] \in 0..MaxReports
    BY <2>1 DEF Ready, Inv, TypeOK, TableOK, Pending
  <2>3. row[k].id \in Ids /\ row[k].gen \in Ids /\ newest[k] \in Ids
    BY <2>2 DEF Row, Ids
  <2>4. ReportOf(k) \in Report
    BY <2>3 DEF ReportOf, Report
  <2>5. Known(ReportOf(k)) /\ ReportOf(k).id = row[k].id /\ ReportOf(k).key = k
    BY <2>2, <2>3 DEF ReportOf, Known, Ids
  <2> HIDE DEF head
  <2> QED BY <2>1, <2>4, <2>5 DEF Ready, Pending
<1> HIDE DEF heads, served, head
<1>5. /\ TableOK' /\ NothingLost' /\ BlockedIsRefused'
      /\ \A r \in Report : Known(r) => Known(r)'
      /\ \A r \in Report : HeadWhenSent(r) => HeadWhenSent(r)'
  BY <1>1, TableUntouched DEF Inv, serverVars
<1>6. \A s \in served : rep'[s] = ReportOf(head(s)) /\ at'[s] = "sending" /\ at[s] = "idle"
  BY <1>1, <1>3
<1>7. \A s \in Slots \ served : rep'[s] = rep[s] /\ at'[s] = at[s]
  BY <1>1
<1>8. TypeOK'
  <2>1. at' \in [Slots -> Places]
    BY <1>1 DEF Inv, TypeOK, Places
  <2>2. rep' \in [Slots -> Report \cup {None}]
    BY <1>1, <1>4 DEF Inv, TypeOK
  <2>3. holds' \subseteq Slots
    BY <1>1, <1>3 DEF Inv, TypeOK
  <2> QED BY <1>1, <2>1, <2>2, <2>3 DEF Inv, TypeOK, tableVars, serverVars
<1>9. ReportsKnown'
  <2>1. ASSUME NEW s \in Slots, NEW r, r = rep'[s], r # None PROVE Known(r)'
    <3>1. CASE s \in served
      BY <1>4, <1>5, <1>6, <2>1, <3>1
    <3>2. CASE s \notin served
      BY <1>5, <1>7, <2>1, <3>2 DEF Inv, TypeOK, ReportsKnown
    <3> QED BY <3>1, <3>2
  <2>2. (\A r \in stray : Known(r))' /\ (\A x \in late : Known(x.rep))'
    BY <1>1, <1>5 DEF Inv, TypeOK, ReportsKnown, serverVars
  <2> QED BY <2>1, <2>2 DEF ReportsKnown
<1>10. SentFromHead'
  <2>1. ASSUME NEW s \in Slots, at'[s] \in {"sending", "posted"}, NEW r, r = rep'[s]
        PROVE  HeadWhenSent(r)'
    <3>1. CASE s \in served
      <4>1. r \in Report /\ HeadWhenSent(r)
        BY <1>4, <1>6, <2>1, <3>1 DEF HeadWhenSent
      <4> QED BY <1>5, <4>1
    <3>2. CASE s \notin served
      BY <1>5, <1>7, <2>1, <3>2 DEF Inv, TypeOK, SentFromHead, ClaimsOK
    <3> QED BY <3>1, <3>2
  <2>2. (\A r \in stray : HeadWhenSent(r))'
    BY <1>1, <1>5 DEF Inv, TypeOK, SentFromHead, serverVars
  <2> QED BY <2>1, <2>2 DEF SentFromHead
<1>11. ClaimsOK'
  <2>1. \A s \in Slots : rep'[s] = None <=> at'[s] = "idle"
    BY <1>4, <1>6, <1>7 DEF Inv, ClaimsOK
  <2>2. \A s \in Slots : at'[s] \in {"sending", "posted"} => s \in holds'
    BY <1>1, <1>7 DEF Inv, ClaimsOK
  <2>3. \A s \in holds' : at'[s] \notin {"idle", "claiming", "orphaned"}
    BY <1>1, <1>6, <1>7 DEF Inv, TypeOK, ClaimsOK
  <2>4. ASSUME NEW s \in holds', NEW u \in holds', s # u PROVE rep'[s].id # rep'[u].id
    <3>1. \A v \in served : v \notin holds
      BY <1>6 DEF Inv, ClaimsOK
    <3>2. CASE s \in served /\ u \in served
      <4>1. head(s) # head(u)
        BY <1>4, <2>4, <3>2
      <4> QED BY <1>4, <1>6, <3>2, <4>1 DEF Inv, TableOK
    <3>3. ASSUME NEW v \in served, NEW w \in holds, w \notin served
          PROVE  rep'[v].id # rep'[w].id
      <4>1. rep'[w] = rep[w]
        BY <1>7, <3>3 DEF Inv, TypeOK
      <4>2. rep[w].id # row[head(v)].id
        BY <1>4, <3>3 DEF InFlight
      <4> QED BY <1>4, <1>6, <3>3, <4>1, <4>2
    <3>4. CASE s \in served /\ u \notin served
      <4>1. u \in holds
        BY <1>1, <3>4
      <4> QED BY <3>3, <3>4, <4>1
    <3>5. CASE s \notin served /\ u \in served
      <4>1. s \in holds
        BY <1>1, <3>5
      <4>2. rep'[u].id # rep'[s].id
        BY <3>3, <3>5, <4>1
      <4> QED BY <4>2
    <3>6. CASE s \notin served /\ u \notin served
      BY <1>1, <1>7, <2>4, <3>6 DEF Inv, TypeOK, ClaimsOK
    <3> QED BY <3>2, <3>4, <3>5, <3>6
  <2> QED BY <2>1, <2>2, <2>3, <2>4 DEF ClaimsOK
<1>12. CallersApart'
  <2>1. \A p \in Callers : p \in Slots /\ p \notin served
    BY <1>3 DEF Slots
  <2> QED BY <1>1, <1>7, <2>1 DEF Inv, CallersApart
<1>13. Answered'
  BY <1>1, <1>6, <1>7 DEF Inv, Answered, serverVars, Decisions
<1> QED BY <1>5, <1>8, <1>9, <1>10, <1>11, <1>12, <1>13 DEF Inv

LEMMA StrayHandledInv ==
    ASSUME Inv, NEW r \in stray, NEW d \in Decisions, StrayHandled(r, d)
    PROVE  Inv'
<1>1. /\ stray' = stray \ {r} /\ answers' = answers \cup {Answer(r, d)}
      /\ UNCHANGED <<tableVars, slotVars, receipts, late, calls, faults>>
  BY DEF StrayHandled
<1>2. TypeOK'
  <2>1. Answer(r, d) \in [key : Keys, ver : Ids, decision : Decisions]
    BY DEF Answer, Inv, TypeOK, Report
  <2> QED BY <1>1, <2>1 DEF Inv, TypeOK, tableVars, slotVars
<1>3. /\ TableOK' /\ NothingLost' /\ BlockedIsRefused'
      /\ \A q \in Report : Known(q) => Known(q)'
      /\ \A q \in Report : HeadWhenSent(q) => HeadWhenSent(q)'
  BY <1>1, TableUntouched DEF Inv
<1>4. ReportsKnown' /\ SentFromHead'
  BY <1>1, <1>3 DEF Inv, TypeOK, ReportsKnown, SentFromHead, ClaimsOK, slotVars
<1>5. ClaimsOK' /\ CallersApart' /\ Answered'
  BY <1>1 DEF Inv, ClaimsOK, CallersApart, Answered, slotVars
<1> QED BY <1>2, <1>3, <1>4, <1>5 DEF Inv

(* The server's answer takes effect, and the claim is given back.          *)
LEMMA SettleInv ==
    ASSUME Inv, NEW s \in Slots, Settle(s)
    PROVE  Inv'
<1>1. /\ at[s] \in Outcomes /\ row' = Settled(rep[s], at[s])
      /\ holds' = holds \ {s} /\ at' = [at EXCEPT ![s] = "closing"]
      /\ receipts' \subseteq receipts
      /\ UNCHANGED <<lastId, newest, reports, rep, late, serverVars, faults>>
  BY DEF Settle, Released
<1>2. rep[s] \in Report /\ Known(rep[s]) /\ at[s] # "idle"
  BY <1>1 DEF Inv, TypeOK, ClaimsOK, ReportsKnown, Outcomes, Decisions
<1>3. RowsKept /\ NothingLost' /\ BlockedIsRefused'
  <2>1. at[s] \in Decisions => Answer(rep[s], at[s]) \in answers
    BY DEF Inv, Answered
  <2> QED BY <1>1, <1>2, <2>1, SettledTable DEF Inv, serverVars
<1>4. /\ TableType' /\ TableOK'
      /\ \A r \in Report : Known(r) => Known(r)'
      /\ \A r \in Report : HeadWhenSent(r) => HeadWhenSent(r)'
  BY <1>3, KeptTable, TypeOfTable DEF Inv
<1>5. TypeOK'
  <2>1. at' \in [Slots -> Places]
    BY <1>1 DEF Inv, TypeOK, Places
  <2>2. calls' \in [Ids -> Nat]
    BY <1>2 DEF Settle, Inv, TypeOK, Report
  <2> QED BY <1>1, <1>4, <2>1, <2>2 DEF Inv, TypeOK, TableType, serverVars
<1>6. ReportsKnown' /\ SentFromHead'
  BY <1>1, <1>4 DEF Inv, TypeOK, ReportsKnown, SentFromHead, ClaimsOK, serverVars
<1>7. ClaimsOK' /\ CallersApart'
  BY <1>1, <1>2 DEF Inv, TypeOK, ClaimsOK, CallersApart, Slots
<1>8. Answered'
  BY <1>1 DEF Inv, TypeOK, Answered, serverVars, Decisions
<1> QED BY <1>3, <1>4, <1>5, <1>6, <1>7, <1>8 DEF Inv

LEMMA CloseInv ==
    ASSUME Inv, NEW s \in Slots, Close(s)
    PROVE  Inv'
<1>1. /\ at[s] = "closing" /\ at' = [at EXCEPT ![s] = "idle"]
      /\ holds' = holds \ {s} /\ rep' = [rep EXCEPT ![s] = None]
      /\ UNCHANGED <<tableVars, receipts, late, calls, serverVars, faults>>
  BY DEF Close, Moves, Released
<1>2. /\ TableOK' /\ NothingLost' /\ BlockedIsRefused'
      /\ \A r \in Report : Known(r) => Known(r)'
      /\ \A r \in Report : HeadWhenSent(r) => HeadWhenSent(r)'
  BY <1>1, TableUntouched DEF Inv, serverVars
<1>3. TypeOK'
  <2>1. at' \in [Slots -> Places] /\ rep' \in [Slots -> Report \cup {None}]
    BY <1>1 DEF Inv, TypeOK, Places
  <2> QED BY <1>1, <2>1 DEF Inv, TypeOK, tableVars, serverVars
<1>4. ReportsKnown' /\ SentFromHead'
  BY <1>1, <1>2 DEF Inv, TypeOK, ReportsKnown, SentFromHead, ClaimsOK, serverVars
<1>5. ClaimsOK'
  BY <1>1 DEF Inv, TypeOK, ClaimsOK
<1>6. CallersApart'
  <2>1. \A x \in late : x.rep # None
    BY DEF Inv, TypeOK
  <2> QED BY <1>1, <2>1 DEF Inv, TypeOK, CallersApart, Slots
<1>7. Answered'
  BY <1>1 DEF Inv, TypeOK, Answered, serverVars, Decisions
<1> QED BY <1>2, <1>3, <1>4, <1>5, <1>6, <1>7 DEF Inv

LEMMA CancelSettleInv ==
    ASSUME Inv, NEW p \in Callers, CancelSettle(p)
    PROVE  Inv'
<1> DEFINE x == [rep |-> rep[p], outcome |-> at[p], done |-> FALSE]
<1>1. /\ at[p] \in Outcomes /\ at' = [at EXCEPT ![p] = "closing"]
      /\ late' = late \cup {x} /\ faults' \in 0..MaxFaults
      /\ UNCHANGED <<tableVars, rep, holds, receipts, calls, serverVars>>
  BY DEF CancelSettle, Fault, Inv, TypeOK
<1>2. p \in Slots /\ rep[p] \in Report /\ rep[p] # None /\ Known(rep[p])
  BY <1>1 DEF Inv, TypeOK, ClaimsOK, ReportsKnown, Outcomes, Decisions, Slots
<1>3. /\ TableOK' /\ NothingLost' /\ BlockedIsRefused'
      /\ \A r \in Report : Known(r) => Known(r)'
      /\ \A r \in Report : HeadWhenSent(r) => HeadWhenSent(r)'
  BY <1>1, TableUntouched DEF Inv, serverVars
<1>4. x.rep = rep[p] /\ x.outcome = at[p] /\ ~x.done
  OBVIOUS
<1>5. TypeOK'
  <2>1. at' \in [Slots -> Places]
    BY <1>1 DEF Inv, TypeOK, Places
  <2>2. x \in [rep : Report, outcome : Outcomes \cup {"replaced"}, done : BOOLEAN]
    BY <1>1, <1>2
  <2> QED BY <1>1, <2>1, <2>2 DEF Inv, TypeOK, tableVars, serverVars
<1> HIDE DEF x
<1>6. ReportsKnown' /\ SentFromHead'
  BY <1>1, <1>2, <1>3, <1>4 DEF Inv, TypeOK, ReportsKnown, SentFromHead, ClaimsOK, serverVars
<1>7. ClaimsOK'
  BY <1>1, <1>2 DEF Inv, TypeOK, ClaimsOK
<1>8. CallersApart'
  <2>1. \A q \in Callers : rep[q] = rep[p] => q = p
    BY <1>2 DEF Inv, CallersApart
  <2> QED BY <1>1, <1>4, <2>1 DEF Inv, TypeOK, CallersApart, Slots
<1>9. Answered'
  BY <1>1, <1>2, <1>4 DEF Inv, TypeOK, Answered, serverVars, Decisions
<1> QED BY <1>3, <1>5, <1>6, <1>7, <1>8, <1>9 DEF Inv

(* The operation of a cancelled delivery ends late; it frees no claim but  *)
(* the one of that delivery.                                               *)
LEMMA LateSettleInv ==
    ASSUME Inv, NEW x \in late, LateSettle(x)
    PROVE  Inv'
<1> DEFINE y == [x EXCEPT !.done = TRUE]
<1>1. /\ ~x.done /\ row' = Settled(x.rep, x.outcome)
      /\ late' = (late \ {x}) \cup {y}
      /\ holds' = holds \ {p \in Callers : rep[p] = x.rep}
      /\ UNCHANGED <<lastId, newest, reports, at, rep, receipts, calls, serverVars, faults>>
  BY DEF LateSettle
<1>2. x.rep \in Report /\ Known(x.rep) /\ x.outcome \in Outcomes
  BY <1>1 DEF Inv, TypeOK, ReportsKnown, CallersApart
<1>3. RowsKept /\ NothingLost' /\ BlockedIsRefused'
  <2>1. x.outcome \in Decisions => Answer(x.rep, x.outcome) \in answers
    BY DEF Inv, Answered
  <2> QED BY <1>1, <1>2, <2>1, SettledTable DEF Inv, serverVars
<1>4. /\ TableType' /\ TableOK'
      /\ \A r \in Report : Known(r) => Known(r)'
      /\ \A r \in Report : HeadWhenSent(r) => HeadWhenSent(r)'
  BY <1>3, KeptTable, TypeOfTable DEF Inv
<1>5. y.rep = x.rep /\ y.outcome = x.outcome /\ y.done
      /\ y \in [rep : Report, outcome : Outcomes \cup {"replaced"}, done : BOOLEAN]
  BY DEF Inv, TypeOK
<1> HIDE DEF y
<1>6. TypeOK'
  BY <1>1, <1>4, <1>5 DEF Inv, TypeOK, TableType, serverVars
<1>7. ReportsKnown' /\ SentFromHead'
  BY <1>1, <1>2, <1>4, <1>5 DEF Inv, TypeOK, ReportsKnown, SentFromHead, ClaimsOK, serverVars
<1>8. ClaimsOK'
  <2>1. \A p \in Callers : rep[p] = x.rep => at[p] = "closing"
    BY <1>1 DEF Inv, CallersApart
  <2> QED BY <1>1, <2>1 DEF Inv, ClaimsOK
<1>9. CallersApart' /\ Answered'
  BY <1>1, <1>5 DEF Inv, CallersApart, Answered, serverVars
<1> QED BY <1>3, <1>4, <1>6, <1>7, <1>8, <1>9 DEF Inv

LEMMA DueInv ==
    ASSUME Inv, NEW k \in Keys, Due(k)
    PROVE  Inv'
<1>1. /\ row[k] # None /\ row' = [row EXCEPT ![k].due = TRUE]
      /\ UNCHANGED <<lastId, newest, reports, slotVars, receipts, late, calls, serverVars, faults>>
  BY DEF Due, Pending
<1>2. PICK c \in Row : c = [row[k] EXCEPT !.due = TRUE]
  BY <1>1 DEF Inv, TypeOK, Row
<1>3. /\ row' = [row EXCEPT ![k] = c] /\ c # None
      /\ c.id = row[k].id /\ c.gen = row[k].gen /\ c.blocked = row[k].blocked
  BY <1>1, <1>2 DEF Inv, TypeOK, Row
<1>4. RowsKept
  BY <1>1, <1>3 DEF RowsKept, Inv, TypeOK
<1>5. /\ TableType' /\ TableOK'
      /\ \A r \in Report : Known(r) => Known(r)'
      /\ \A r \in Report : HeadWhenSent(r) => HeadWhenSent(r)'
  BY <1>4, KeptTable, TypeOfTable DEF Inv
<1>6. \A j \in Keys : /\ row'[j] = None <=> row[j] = None
                      /\ row'[j] # None => row'[j].blocked = row[j].blocked
  BY <1>1, <1>3 DEF Inv, TypeOK
<1>7. NothingLost' /\ BlockedIsRefused'
  BY <1>1, <1>6 DEF Inv, NothingLost, BlockedIsRefused, Received, Decided, Pending, serverVars
<1>8. TypeOK'
  BY <1>1, <1>5 DEF Inv, TypeOK, TableType, slotVars, serverVars
<1>9. ReportsKnown' /\ SentFromHead'
  BY <1>1, <1>5 DEF Inv, TypeOK, ReportsKnown, SentFromHead, ClaimsOK, slotVars, serverVars
<1>10. ClaimsOK' /\ CallersApart' /\ Answered'
  BY <1>1 DEF Inv, ClaimsOK, CallersApart, Answered, slotVars, serverVars
<1> QED BY <1>5, <1>7, <1>8, <1>9, <1>10 DEF Inv

LEMMA CrashInv ==
    ASSUME Inv, Crash
    PROVE  Inv'
<1>1. PICK sent \in SUBSET {s \in Slots : at[s] = "posted"} :
         stray' = stray \cup {rep[s] : s \in sent}
  BY DEF Crash
<1>2. /\ at' = [s \in Slots |-> "idle"] /\ rep' = [s \in Slots |-> None] /\ holds' = {}
      /\ receipts' = {} /\ late' = {} /\ faults' \in 0..MaxFaults
      /\ UNCHANGED <<tableVars, calls, answers>>
  BY DEF Crash, Fault, Inv, TypeOK
<1>3. \A s \in sent : rep[s] \in Report /\ Known(rep[s]) /\ HeadWhenSent(rep[s])
  BY DEF Inv, TypeOK, ClaimsOK, ReportsKnown, SentFromHead
<1>4. \A r \in stray' : r \in Report /\ Known(r) /\ HeadWhenSent(r)
  BY <1>1, <1>3 DEF Inv, TypeOK, ReportsKnown, SentFromHead
<1>5. /\ TableOK' /\ NothingLost' /\ BlockedIsRefused'
      /\ \A r \in Report : Known(r) => Known(r)'
      /\ \A r \in Report : HeadWhenSent(r) => HeadWhenSent(r)'
  BY <1>2, TableUntouched DEF Inv
<1>6. TypeOK'
  BY <1>2, <1>4 DEF Inv, TypeOK, tableVars, Places
<1>7. ReportsKnown' /\ SentFromHead'
  BY <1>2, <1>4, <1>5 DEF ReportsKnown, SentFromHead
<1>8. ClaimsOK' /\ CallersApart' /\ Answered'
  BY <1>2 DEF ClaimsOK, CallersApart, Answered, Decisions, Slots
<1> QED BY <1>5, <1>6, <1>7, <1>8 DEF Inv

LEMMA DeliverInv ==
    ASSUME Inv, NEW s \in Slots, Deliver(s)
    PROVE  Inv'
<1>1. faults \in 0..MaxFaults /\ (Fault => faults' \in 0..MaxFaults)
  BY DEF Inv, TypeOK, Fault
<1>2. CASE Post(s)
  BY <1>1, <1>2, MoveInv DEF Post, Moves, Places, serverVars, Decisions
<1>3. CASE Offline(s)
  BY <1>1, <1>3, MoveInv DEF Offline, Moves, Places, serverVars, Decisions
<1>4. CASE Busy(s)
  BY <1>1, <1>4, MoveInv DEF Busy, Moves, Places, serverVars, Decisions
<1>5. CASE GiveUp(s)
  BY <1>1, <1>5, MoveInv DEF GiveUp, Moves, Places, Decisions
<1>6. ASSUME NEW d \in Decisions, Handled(s, d) PROVE Inv'
  BY <1>1, <1>6, MoveInv DEF Handled, Moves, Places, Decisions
<1> QED BY <1>2, <1>3, <1>4, <1>5, <1>6, SettleInv, CloseInv DEF Deliver

LEMMA CallInv ==
    ASSUME Inv, NEW p \in Callers, Call(p)
    PROVE  Inv'
<1>1. p \in Slots /\ faults \in 0..MaxFaults /\ (Fault => faults' \in 0..MaxFaults)
  BY DEF Slots, Inv, TypeOK, Fault
<1>2. ASSUME NEW k \in Keys, Enqueue(p, k) PROVE Inv'
  BY <1>2, EnqueueInv
<1>3. ASSUME NEW k \in Keys, CancelEnqueue(p, k) PROVE Inv'
  BY <1>1, <1>3, StoreInv DEF CancelEnqueue
<1>4. CASE Claim(p) \/ OrphanClaim(p)
  BY <1>4, ClaimsInv DEF Claim, OrphanClaim
<1>5. CASE CancelClaim(p)
  BY <1>1, <1>5, MoveInv DEF CancelClaim, Moves, Places, Decisions, serverVars
<1>6. CASE Cancel(p)
  BY <1>1, <1>6, MoveInv DEF Cancel, Moves, Places, Decisions
<1> QED BY <1>2, <1>3, <1>4, <1>5, <1>6, CancelSettleInv DEF Call

LEMMA NextInv == Inv /\ [Next]_vars => Inv'
<1> SUFFICES ASSUME Inv, [Next]_vars PROVE Inv'
  OBVIOUS
<1>1. CASE UNCHANGED vars
  <2>1. /\ TableOK' /\ NothingLost' /\ BlockedIsRefused'
        /\ \A r \in Report : Known(r) => Known(r)'
        /\ \A r \in Report : HeadWhenSent(r) => HeadWhenSent(r)'
    BY <1>1, TableUntouched DEF Inv, vars, serverVars
  <2>2. ReportsKnown' /\ SentFromHead'
    BY <1>1, <2>1 DEF Inv, TypeOK, ReportsKnown, SentFromHead, ClaimsOK, vars, slotVars,
                      serverVars
  <2>3. ClaimsOK' /\ CallersApart' /\ Answered' /\ TypeOK'
    BY <1>1 DEF Inv, TypeOK, ClaimsOK, CallersApart, Answered, vars, tableVars, slotVars,
                serverVars
  <2> QED BY <2>1, <2>2, <2>3 DEF Inv
<1>2. ASSUME NEW k \in Keys, Capture(k) PROVE Inv'
  <2>1. faults' \in 0..MaxFaults
    BY <1>2 DEF Capture, Inv, TypeOK
  <2> QED BY <1>2, <2>1, StoreInv DEF Capture
<1>3. CASE Next
  BY <1>2, <1>3, DeliverInv, CallInv, DueInv, StrayHandledInv, LateSettleInv,
     WorkerClaimInv, CrashInv DEF Next
<1> QED BY <1>1, <1>3

-----------------------------------------------------------------------------
(* The theorems.                                                           *)

(* The inductive invariant: whoever works on a report that is no longer    *)
(* the newest can see so, and answers are only forgotten with their report.*)
THEOREM InvHolds == Spec => []Inv
BY InitInv, NextInv, PTL DEF Spec

(* Type correctness of the outbox for every instance.                      *)
THEOREM TypeCorrect == Spec => []TypeOK
<1>1. Inv => TypeOK
  BY DEF Inv
<1> QED BY <1>1, InvHolds, PTL

(* A report leaves the outbox only after the server has decided about that *)
(* very report, whatever crashes, is cancelled, coalesced or late.         *)
THEOREM NothingIsLost == Spec => []NothingLost
<1>1. Inv => NothingLost
  BY DEF Inv
<1> QED BY <1>1, InvHolds, PTL

(* Only the refusal of its present payload blocks a row.                   *)
THEOREM BlockedWasRefused == Spec => []BlockedIsRefused
<1>1. Inv => BlockedIsRefused
  BY DEF Inv
<1> QED BY <1>1, InvHolds, PTL

(* One process never delivers one row twice at the same time.              *)
THEOREM DeliveriesApart == Spec => []OneDelivery
<1>1. Inv => OneDelivery
  BY DEF Inv, ClaimsOK, OneDelivery
<1> QED BY <1>1, InvHolds, PTL

(* The server never first decides about the report in a row while an       *)
(* earlier row of its stream is pending.                                   *)
THEOREM StreamsInOrder == Spec => NoOvertaking
<1> DEFINE Overtakes(k) == \E d \in Decisions :
             [key |-> k, ver |-> newest[k], decision |-> d] \in answers' \ answers
<1>1. ASSUME Inv, Next, NEW k \in Pending, Overtakes(k) PROVE IsHead(k)
  <2>1. PICK r \in Report, d \in Decisions :
          /\ answers' = answers \cup {Answer(r, d)}
          /\ HeadWhenSent(r)
    <3>1. ASSUME NEW s \in Slots, NEW d \in Decisions, Handled(s, d)
          PROVE  /\ rep[s] \in Report /\ HeadWhenSent(rep[s])
                 /\ answers' = answers \cup {Answer(rep[s], d)}
      BY <1>1, <3>1 DEF Handled, Moves, Inv, TypeOK, ClaimsOK, SentFromHead
    <3>2. ASSUME NEW r \in stray, NEW d \in Decisions, StrayHandled(r, d)
          PROVE  /\ r \in Report /\ HeadWhenSent(r)
                 /\ answers' = answers \cup {Answer(r, d)}
      BY <1>1, <3>2 DEF StrayHandled, Inv, TypeOK, SentFromHead
    <3>3. answers' # answers
      BY <1>1
    <3>4. \/ \E s \in Slots, d \in Decisions : Handled(s, d)
          \/ \E r \in stray, d \in Decisions : StrayHandled(r, d)
      <4>1. ASSUME NEW s \in Slots, Deliver(s) PROVE \E d \in Decisions : Handled(s, d)
        BY <3>3, <4>1 DEF Deliver, Post, Offline, Busy, GiveUp, Settle, Close, serverVars
      <4>2. ASSUME NEW p \in Callers, Call(p) PROVE FALSE
        BY <3>3, <4>2 DEF Call, Enqueue, CancelEnqueue, Claim, Claims, CancelClaim,
                          OrphanClaim, Cancel, CancelSettle, serverVars
      <4>3. ASSUME \/ \E j \in Keys : Capture(j) \/ Due(j)
                   \/ \E x \in late : LateSettle(x)
                   \/ WorkerClaim \/ Crash
            PROVE  FALSE
        BY <3>3, <4>3 DEF Capture, Due, LateSettle, WorkerClaim, Crash, serverVars
      <4> QED BY <1>1, <4>1, <4>2, <4>3 DEF Next
    <3> QED BY <3>1, <3>2, <3>4
  <2>2. r.key = k /\ r.ver = newest[k]
    BY <1>1, <2>1 DEF Answer
  <2> QED BY <1>1, <2>1, <2>2 DEF HeadWhenSent, Pending
<1>2. ASSUME Inv, UNCHANGED vars, NEW k \in Pending, Overtakes(k) PROVE FALSE
  BY <1>2 DEF vars, serverVars
<1>3. Inv /\ [Next]_vars => [\A k \in Pending : Overtakes(k) => IsHead(k)]_vars
  BY <1>1, <1>2
<1> QED BY <1>3, InvHolds, PTL DEF Spec, NoOvertaking

-----------------------------------------------------------------------------
(* Callbacks.                                                              *)

(* What CallbackAwaitsReport and CallbackOnce need: a receipt is about a   *)
(* row that was enqueued by a caller; the callback of the report in a row  *)
(* has not run, nor has one of a report to come; no report has two keys.   *)
CallbacksOK ==
    /\ CallbackAwaitsReport
    /\ \A x \in receipts : x.id <= lastId
    /\ \A x \in receipts, k \in Pending : row[k].id = x.id =>
         /\ k \notin Captured
         /\ row[k].gen = x.gen => calls[newest[k]] = 0
    /\ \A n \in Ids : n > reports => calls[n] = 0
    /\ \A j, k \in Keys : newest[j] = newest[k] /\ newest[j] > 0 => j = k

LateKept == \A y \in late : \E z \in late' : z.rep = y.rep

(* A step that removes rows, and runs callbacks of removed rows only; a    *)
(* receipt of a removed row is gone too, or waits in a thread.             *)
LEMMA KeptCallbacks ==
    ASSUME Inv, CallbacksOK, RowsKept, LateKept, receipts' \subseteq receipts,
           \A k \in Keys, x \in receipts' :
              row[k] # None /\ row'[k] = None /\ row[k].id = x.id /\ row[k].gen = x.gen
                 => \E y \in late' : Receipt(y.rep) = x,
           \A n \in Ids : calls'[n] = calls[n] \/
              \E j \in Keys : row'[j] = None /\ newest[j] = n
    PROVE  CallbacksOK'
<1>1. CallbackAwaitsReport'
  <2> SUFFICES ASSUME NEW x \in receipts'
               PROVE  \/ \E k \in Keys : row'[k] # None /\ row'[k].id = x.id /\ row'[k].gen = x.gen
                      \/ \E y \in late' : Receipt(y.rep) = x
    BY DEF CallbackAwaitsReport, Pending
  <2>1. CASE \E y \in late : Receipt(y.rep) = x
    BY <2>1 DEF LateKept, Receipt
  <2>2. CASE \E k \in Pending : row[k].id = x.id /\ row[k].gen = x.gen
    BY <2>2 DEF Pending, RowsKept
  <2> QED BY <2>1, <2>2 DEF CallbacksOK, CallbackAwaitsReport
<1>2. \A k \in Pending' : k \in Pending /\ row'[k].id = row[k].id /\ row'[k].gen = row[k].gen
  BY DEF Pending, RowsKept
<1>3. /\ UNCHANGED <<lastId, newest, reports>>
      /\ \A k \in Keys : newest[k] <= reports /\ newest[k] \in 0..MaxReports
      /\ reports \in 0..MaxReports
  BY DEF RowsKept, Inv, TableOK, TypeOK
<1>4. ASSUME NEW x \in receipts', NEW k \in Pending', row'[k].id = x.id
      PROVE  k \notin Captured /\ (row'[k].gen = x.gen => calls'[newest'[k]] = 0)
  <2>1. /\ k \in Pending /\ row[k].id = x.id /\ k \notin Captured
        /\ row[k].gen = x.gen => calls[newest[k]] = 0
    BY <1>2, <1>4 DEF CallbacksOK
  <2>2. k \in Keys /\ row'[k] # None /\ row[k].gen <= newest[k] /\ row[k].gen \in Ids
    BY <1>4, <2>1 DEF Pending, Inv, TableOK, TypeOK, Row
  <2>3. newest[k] \in Ids /\ newest[k] > 0
    BY <1>3, <2>2 DEF Ids
  <2>4. calls'[newest[k]] = calls[newest[k]]
    BY <2>2, <2>3 DEF CallbacksOK
  <2> QED BY <1>2, <1>3, <1>4, <2>1, <2>4
<1>5. ASSUME NEW n \in Ids, n > reports' PROVE calls'[n] = 0
  BY <1>3, <1>5 DEF CallbacksOK, Ids
<1> QED BY <1>1, <1>3, <1>4, <1>5 DEF CallbacksOK

(* A step that stores a report, and which receipts it may leave.           *)
LEMMA StoredCallbacks ==
    ASSUME Inv, CallbacksOK, NEW k \in Keys, Store(k), LateKept, calls' = calls,
           \A x \in receipts' :
              \/ /\ x \in receipts
                 /\ x.id = Upserted(k).id =>
                      /\ k \notin Captured
                      /\ row[k] # None /\ row[k].gen = x.gen => \E y \in late' : Receipt(y.rep) = x
              \/ k \notin Captured /\ x = Receipt(Enqueued(k))
    PROVE  CallbacksOK'
<1>1. /\ row'[k] # None /\ newest'[k] = reports + 1
      /\ \A j \in Keys \ {k} : row'[j] = row[j] /\ newest'[j] = newest[j]
      /\ TableOK'
  BY StoredTable, TypeOfTable DEF Inv
<1>2. /\ row'[k] = Upserted(k) /\ reports' = reports + 1 /\ reports + 1 \in Ids
      /\ lastId' = IF row[k] = None THEN lastId + 1 ELSE lastId
  BY DEF Store, Inv, TypeOK, Ids
<1>3. /\ Upserted(k).id <= lastId'
      /\ row[k] # None => Upserted(k).id = row[k].id
  BY <1>2, UpsertedRow, TypeOfTable DEF Inv, Store
<1>4. /\ lastId \in 0..MaxReports /\ reports \in 0..MaxReports
      /\ \A j \in Keys : newest[j] \in 0..MaxReports /\ newest[j] <= reports
      /\ \A x \in receipts : x.id \in Ids
  BY DEF Inv, TypeOK, TableOK
<1>5. Receipt(Enqueued(k)).id = Upserted(k).id /\ Receipt(Enqueued(k)).gen = Upserted(k).gen
  BY DEF Receipt, Enqueued
<1>6. CallbackAwaitsReport'
  <2> SUFFICES ASSUME NEW x \in receipts'
               PROVE  \/ \E j \in Keys : row'[j] # None /\ row'[j].id = x.id /\ row'[j].gen = x.gen
                      \/ \E y \in late' : Receipt(y.rep) = x
    BY DEF CallbackAwaitsReport, Pending
  <2>1. CASE x = Receipt(Enqueued(k))
    BY <1>1, <1>2, <1>5, <2>1
  <2>2. CASE x \in receipts /\ \E y \in late : Receipt(y.rep) = x
    BY <2>2 DEF LateKept, Receipt
  <2>3. ASSUME x \in receipts, x # Receipt(Enqueued(k)),
               NEW j \in Pending, row[j].id = x.id, row[j].gen = x.gen
        PROVE  \/ row'[j] # None /\ row'[j].id = x.id /\ row'[j].gen = x.gen
               \/ \E y \in late' : Receipt(y.rep) = x
    BY <1>1, <1>3, <2>3 DEF Pending
  <2>4. Pending \subseteq Keys
    BY DEF Pending
  <2> QED BY <2>1, <2>2, <2>3, <2>4 DEF CallbacksOK, CallbackAwaitsReport
<1>7. \A x \in receipts' : x.id <= lastId'
  <2>1. lastId <= lastId'
    BY <1>2, <1>4
  <2> QED BY <1>2, <1>3, <1>4, <1>5, <2>1 DEF CallbacksOK, Ids
<1>8. ASSUME NEW x \in receipts', NEW j \in Pending', row'[j].id = x.id
      PROVE  j \notin Captured /\ (row'[j].gen = x.gen => calls'[newest'[j]] = 0)
  <2>1. CASE j = k
    <3>1. k \notin Captured
      BY <1>2, <1>8, <2>1
    <3>2. calls[reports + 1] = 0
      BY <1>2, <1>4 DEF CallbacksOK
    <3> QED BY <1>1, <2>1, <3>1, <3>2
  <2>2. CASE j # k
    <3>1. j \in Pending /\ row'[j] = row[j] /\ newest'[j] = newest[j] /\ k \in Pending'
      BY <1>1, <2>2 DEF Pending
    <3>2. row'[j].id # row'[k].id
      BY <1>1, <2>2, <3>1 DEF TableOK
    <3>3. x \in receipts
      BY <1>2, <1>5, <1>8, <3>2
    <3> QED BY <1>8, <3>1, <3>3 DEF CallbacksOK
  <2> QED BY <2>1, <2>2
<1>9. \A n \in Ids : n > reports' => calls'[n] = 0
  BY <1>2, <1>4 DEF CallbacksOK, Ids
<1>10. \A i, j \in Keys : newest'[i] = newest'[j] /\ newest'[i] > 0 => i = j
  BY <1>1, <1>4 DEF CallbacksOK
<1> QED BY <1>6, <1>7, <1>8, <1>9, <1>10 DEF CallbacksOK

LEMMA EnqueueCallbacks ==
    ASSUME Inv, CallbacksOK, NEW k \in Keys, NEW p,
           Enqueue(p, k) \/ CancelEnqueue(p, k) \/ Capture(k)
    PROVE  CallbacksOK'
<1>1. Store(k) /\ calls' = calls
  BY DEF Enqueue, CancelEnqueue, Capture
<1>2. /\ row[k] = None => Upserted(k).id = lastId + 1
      /\ row[k] # None => Upserted(k).id = row[k].id
  BY <1>1, UpsertedRow, TypeOfTable DEF Inv, Store
<1>3. \A x \in receipts : x.id # lastId + 1
  BY DEF CallbacksOK, Inv, TypeOK, Ids
<1>4. CASE Enqueue(p, k)
  <2>1. /\ k \notin Captured /\ late' = late
        /\ receipts' = {x \in receipts : x.id # Upserted(k).id}
                         \cup (IF k \in WithCallback THEN {Receipt(Enqueued(k))} ELSE {})
    BY <1>4 DEF Enqueue, Enqueued, Receipt
  <2> QED BY <1>1, <2>1, StoredCallbacks DEF LateKept
<1>5. CASE CancelEnqueue(p, k)
  <2> DEFINE z == [rep |-> ReportOf(k), outcome |-> "replaced", done |-> TRUE]
  <2>1. /\ k \notin Captured /\ receipts' = receipts
        /\ late' = IF row[k] = None THEN late ELSE late \cup {z}
    BY <1>5 DEF CancelEnqueue
  <2>2. z.rep.id = row[k].id /\ z.rep.gen = row[k].gen
    BY DEF ReportOf
  <2> HIDE DEF z
  <2>3. ASSUME NEW x \in receipts, x.id = Upserted(k).id, row[k] # None, row[k].gen = x.gen
        PROVE  \E y \in late' : Receipt(y.rep) = x
    <3>1. Receipt(z.rep) = x
      BY <1>2, <2>2, <2>3 DEF Receipt, Inv, TypeOK
    <3> QED BY <2>1, <2>3, <3>1
  <2> QED BY <1>1, <2>1, <2>3, StoredCallbacks DEF LateKept
<1>6. CASE Capture(k)
  <2>1. k \in Captured /\ receipts' = receipts /\ late' = late
    BY <1>6 DEF Capture
  <2>2. ASSUME NEW x \in receipts PROVE x.id # Upserted(k).id
    BY <1>2, <1>3, <2>1 DEF CallbacksOK, Pending
  <2> QED BY <1>1, <2>1, <2>2, StoredCallbacks DEF LateKept
<1> QED BY <1>4, <1>5, <1>6

(* The answer about a report runs its callback only with its row and       *)
(* its receipt, and both go.                                               *)
LEMMA SettleRunsCallback ==
    ASSUME Inv, CallbacksOK, NEW s \in Slots, Settle(s), NEW n \in Ids, calls'[n] # calls[n]
    PROVE  /\ at[s] = "accepted" /\ rep[s].key \in Keys /\ newest[rep[s].key] = n
           /\ calls[n] = 0 /\ calls'[n] = 1
           /\ Decided(rep[s].key, n, "accepted") /\ row'[rep[s].key] = None
<1>1. at[s] = "accepted" /\ CalledBack(rep[s]) /\ calls' = [calls EXCEPT ![rep[s].ver] = @ + 1]
  BY DEF Settle
<1>2. rep[s] \in Report /\ Known(rep[s])
  BY <1>1 DEF Inv, TypeOK, ClaimsOK, ReportsKnown
<1>3. PICK r \in Report : r = rep[s]
  BY <1>2
<1>4. /\ r.key \in Keys /\ r.ver = n /\ Receipt(r) \in receipts /\ Matches(r) /\ Known(r)
      /\ calls'[n] = calls[n] + 1
  BY <1>1, <1>2, <1>3 DEF CalledBack, Report, Inv, TypeOK
<1>5. row[r.key] # None /\ row[r.key].id = r.id /\ row[r.key].gen = r.gen
  BY <1>4 DEF Matches
<1>6. newest[r.key] = n
  BY <1>4, <1>5 DEF Known
<1>7. calls[n] = 0
  BY <1>4, <1>5, <1>6 DEF CallbacksOK, Pending, Receipt
<1>8. Decided(r.key, n, "accepted")
  BY <1>1, <1>3, <1>4 DEF Inv, Answered, Answer, Decided, Decisions
<1>9. row' = [row EXCEPT ![r.key] = None]
  BY <1>1, <1>3, <1>4 DEF Settle, Settled
<1> QED BY <1>1, <1>3, <1>4, <1>6, <1>7, <1>8, <1>9 DEF Inv, TypeOK

(* Which rows an answer removes.                                           *)
LEMMA WhatGoes ==
    ASSUME Inv, NEW r \in Report, NEW o \in Outcomes, row' = Settled(r, o),
           NEW k \in Keys, row[k] # None, row'[k] = None
    PROVE  o \in {"accepted", "stale"} /\ row[k].id = r.id /\ row[k].gen = r.gen
<1>1. Matches(r)
  BY DEF Settled
<1>2. r.key \in Keys /\ row[r.key] # None /\ row[r.key] \in Row
  BY <1>1 DEF Matches, Report, Inv, TypeOK
<1>3. k = r.key
  BY <1>1, <1>2 DEF Settled, Inv, TypeOK
<1>4. /\ [row[k] EXCEPT !.due = FALSE] \in Row
      /\ [row[k] EXCEPT !.blocked = TRUE] \in Row
  BY <1>2, <1>3 DEF Row
<1>5. o \in {"accepted", "stale"}
  BY <1>1, <1>2, <1>3, <1>4 DEF Settled, Outcomes, Decisions, Inv, TypeOK
<1> QED BY <1>1, <1>3, <1>5 DEF Matches

LEMMA SettleCallbacks ==
    ASSUME Inv, CallbacksOK, NEW s \in Slots, Settle(s)
    PROVE  CallbacksOK'
<1>1. /\ at[s] \in Outcomes /\ row' = Settled(rep[s], at[s])
      /\ receipts' = IF at[s] \in Decisions THEN receipts \ {Receipt(rep[s])} ELSE receipts
      /\ UNCHANGED <<lastId, newest, reports, late, answers>>
  BY DEF Settle, serverVars
<1>2. rep[s] \in Report /\ Known(rep[s])
  BY <1>1 DEF Inv, TypeOK, ClaimsOK, ReportsKnown, Outcomes, Decisions
<1>3. RowsKept
  BY <1>1, <1>2, SettledTable DEF Inv, Answered
<1>4. ASSUME NEW k \in Keys, NEW x \in receipts', row[k] # None, row'[k] = None,
             row[k].id = x.id, row[k].gen = x.gen
      PROVE  FALSE
  <2>1. at[s] \in Decisions /\ x.id = rep[s].id /\ x.gen = rep[s].gen
    BY <1>1, <1>2, <1>4, WhatGoes DEF Decisions
  <2>2. x \in [id : Ids, gen : Ids]
    BY <1>1 DEF Inv, TypeOK
  <2>3. x = Receipt(rep[s])
    BY <2>1, <2>2 DEF Receipt
  <2> QED BY <1>1, <2>1, <2>3
<1>5. \A n \in Ids : calls'[n] = calls[n] \/ \E j \in Keys : row'[j] = None /\ newest[j] = n
  BY SettleRunsCallback
<1> QED BY <1>1, <1>3, <1>4, <1>5, KeptCallbacks DEF LateKept

LEMMA LateSettleCallbacks ==
    ASSUME Inv, CallbacksOK, NEW x \in late, LateSettle(x)
    PROVE  CallbacksOK'
<1> DEFINE y == [x EXCEPT !.done = TRUE]
<1>1. /\ ~x.done /\ row' = Settled(x.rep, x.outcome)
      /\ late' = (late \ {x}) \cup {y}
      /\ UNCHANGED <<lastId, newest, reports, receipts, calls, answers>>
  BY DEF LateSettle, serverVars
<1>2. x.rep \in Report /\ Known(x.rep) /\ x.outcome \in Outcomes
  BY <1>1 DEF Inv, TypeOK, ReportsKnown, CallersApart
<1>3. RowsKept
  BY <1>1, <1>2, SettledTable DEF Inv, Answered
<1>4. y.rep = x.rep /\ y \in late'
  BY <1>1 DEF Inv, TypeOK
<1> HIDE DEF y
<1>5. LateKept
  BY <1>1, <1>4 DEF LateKept
<1>6. ASSUME NEW k \in Keys, NEW z \in receipts', row[k] # None, row'[k] = None,
             row[k].id = z.id, row[k].gen = z.gen
      PROVE  \E w \in late' : Receipt(w.rep) = z
  <2>1. z.id = x.rep.id /\ z.gen = x.rep.gen
    BY <1>1, <1>2, <1>6, WhatGoes
  <2>2. z \in [id : Ids, gen : Ids]
    BY <1>1 DEF Inv, TypeOK
  <2>3. Receipt(y.rep) = z
    BY <1>4, <2>1, <2>2 DEF Receipt
  <2> QED BY <1>4, <2>3
<1> QED BY <1>1, <1>3, <1>5, <1>6, KeptCallbacks

(* The other steps remove no row and run no callback.                      *)
LEMMA OtherCallbacks ==
    ASSUME Inv, CallbacksOK, RowsKept, \A k \in Keys : row[k] # None => row'[k] # None,
           UNCHANGED <<receipts, calls>>, LateKept
    PROVE  CallbacksOK'
BY KeptCallbacks

LEMMA TableRowsKept ==
    ASSUME Inv, UNCHANGED tableVars
    PROVE  RowsKept /\ \A k \in Keys : row[k] # None => row'[k] # None
BY DEF RowsKept, Inv, TypeOK, tableVars

LEMMA DueCallbacks ==
    ASSUME Inv, CallbacksOK, NEW k \in Keys, Due(k)
    PROVE  CallbacksOK'
<1>1. /\ row[k] # None /\ row' = [row EXCEPT ![k].due = TRUE]
      /\ UNCHANGED <<lastId, newest, reports, receipts, late, calls>>
  BY DEF Due, Pending
<1>2. PICK c \in Row : c = [row[k] EXCEPT !.due = TRUE]
  BY <1>1 DEF Inv, TypeOK, Row
<1>3. row' = [row EXCEPT ![k] = c] /\ c # None /\ c.id = row[k].id /\ c.gen = row[k].gen
  BY <1>1, <1>2 DEF Inv, TypeOK, Row
<1>4. RowsKept /\ \A j \in Keys : row[j] # None => row'[j] # None
  BY <1>1, <1>3 DEF RowsKept, Inv, TypeOK
<1> QED BY <1>1, <1>4, OtherCallbacks DEF LateKept

LEMMA NextCallbacks ==
    ASSUME Inv, CallbacksOK, [Next]_vars
    PROVE  CallbacksOK'
<1>1. CASE UNCHANGED vars
  BY <1>1, TableRowsKept, OtherCallbacks DEF vars, LateKept
<1>2. ASSUME NEW s \in Slots, Deliver(s) PROVE CallbacksOK'
  <2>1. CASE \/ Post(s) \/ Offline(s) \/ Busy(s) \/ GiveUp(s) \/ Close(s)
             \/ \E d \in Decisions : Handled(s, d)
    <3>1. UNCHANGED <<tableVars, receipts, late, calls>>
      BY <2>1 DEF Post, Offline, Busy, GiveUp, Close, Handled
    <3> QED BY <3>1, TableRowsKept, OtherCallbacks DEF LateKept
  <2> QED BY <1>2, <2>1, SettleCallbacks DEF Deliver
<1>3. ASSUME NEW p \in Callers, Call(p) PROVE CallbacksOK'
  <2>1. ASSUME NEW k \in Keys, Enqueue(p, k) \/ CancelEnqueue(p, k) PROVE CallbacksOK'
    BY <2>1, EnqueueCallbacks
  <2>2. CASE Claim(p) \/ CancelClaim(p) \/ OrphanClaim(p) \/ Cancel(p) \/ CancelSettle(p)
    <3>1. UNCHANGED <<tableVars, receipts, calls>> /\ late \subseteq late'
      BY <2>2 DEF Claim, CancelClaim, OrphanClaim, Claims, Cancel, CancelSettle
    <3> QED BY <3>1, TableRowsKept, OtherCallbacks DEF LateKept
  <2> QED BY <1>3, <2>1, <2>2 DEF Call
<1>4. ASSUME NEW k \in Keys, Capture(k) PROVE CallbacksOK'
  BY <1>4, EnqueueCallbacks
<1>5. ASSUME NEW r \in stray, NEW d \in Decisions, StrayHandled(r, d) PROVE CallbacksOK'
  BY <1>5, TableRowsKept, OtherCallbacks DEF StrayHandled, LateKept
<1>6. CASE WorkerClaim
  BY <1>6, TableRowsKept, OtherCallbacks DEF WorkerClaim, LateKept
<1>7. CASE Crash
  <2>1. receipts' = {} /\ UNCHANGED <<tableVars, calls>>
    BY <1>7 DEF Crash
  <2> QED BY <2>1 DEF CallbacksOK, CallbackAwaitsReport, tableVars, Ids
<1> QED BY <1>1, <1>2, <1>3, <1>4, <1>5, <1>6, <1>7, LateSettleCallbacks, DueCallbacks DEF Next

LEMMA InitCallbacks == Init => CallbacksOK
BY DEF Init, CallbacksOK, CallbackAwaitsReport, Pending, Ids

(* A callback stays registered while its report is pending, and none has   *)
(* run for a report that is still in its row.                              *)
THEOREM CallbackInvHolds == Spec => [](Inv /\ CallbacksOK)
<1>1. Inv /\ CallbacksOK /\ [Next]_vars => (Inv /\ CallbacksOK)'
  BY NextInv, NextCallbacks
<1> QED BY <1>1, InitInv, InitCallbacks, PTL DEF Spec

(* While a callback is registered, its report is still to be delivered, or *)
(* an interrupted operation of its row goes on in a thread.                *)
THEOREM NoCallbackForgotten == Spec => []CallbackAwaitsReport
<1>1. Inv /\ CallbacksOK => CallbackAwaitsReport
  BY DEF CallbacksOK
<1> QED BY <1>1, CallbackInvHolds, PTL

(* A callback runs at most once, after the server accepted that report,    *)
(* and never for a report that a newer one has replaced.                   *)
THEOREM CallbacksRunOnce == Spec => CallbackOnce
<1>1. ASSUME Inv, CallbacksOK, [Next]_vars, NEW n \in Ids, calls'[n] # calls[n]
      PROVE  /\ calls[n] = 0 /\ calls'[n] = 1
             /\ \E k \in Keys : newest[k] = n /\ Decided(k, n, "accepted")
  <2>1. PICK s \in Slots : Settle(s)
    <3>1. ASSUME NEW s \in Slots, Deliver(s) PROVE Settle(s)
      BY <1>1, <3>1 DEF Deliver, Post, Offline, Busy, GiveUp, Close, Handled
    <3>2. ASSUME NEW p \in Callers, Call(p) PROVE FALSE
      BY <1>1, <3>2 DEF Call, Enqueue, CancelEnqueue, Claim, CancelClaim, OrphanClaim, Claims,
                        Cancel, CancelSettle
    <3>3. CASE \/ \E k \in Keys : Capture(k) \/ Due(k)
               \/ \E r \in stray, d \in Decisions : StrayHandled(r, d)
               \/ \E x \in late : LateSettle(x)
               \/ WorkerClaim \/ Crash \/ UNCHANGED vars
      BY <1>1, <3>3 DEF Capture, Due, StrayHandled, LateSettle, WorkerClaim, Crash, vars
    <3> QED BY <1>1, <3>1, <3>2, <3>3 DEF Next
  <2> QED BY <1>1, <2>1, SettleRunsCallback
<1>2. Inv /\ CallbacksOK /\ [Next]_vars =>
        [\A n \in Ids : calls'[n] # calls[n] =>
           /\ calls[n] = 0 /\ calls'[n] = 1
           /\ \E k \in Keys : newest[k] = n /\ Decided(k, n, "accepted")]_vars
  BY <1>1
<1> QED BY <1>2, CallbackInvHolds, PTL DEF Spec, CallbackOnce

-----------------------------------------------------------------------------
(* The outbox implements the durable mailbox.                              *)

Box == [k \in Keys |-> IF row[k] = None THEN 0 ELSE newest[k]]
SeenByServer == {<<x.key, x.ver>> : x \in {y \in answers : y.decision # "refused"}}

(* enqueue puts a report in its place.                                     *)
LEMMA StorePuts ==
    ASSUME Inv, NEW k \in Keys, Store(k), UNCHANGED answers
    PROVE  Mailbox!Put(k)
<1>1. /\ newest'[k] = reports + 1 /\ newest[k] <= reports /\ row'[k] # None
      /\ \A j \in Keys \ {k} : row'[j] = row[j] /\ newest'[j] = newest[j]
  BY StoredTable, TypeOfTable DEF Inv
<1>2. newest' = [newest EXCEPT ![k] = newest'[k]] /\ newest \in [Keys -> 0..MaxReports]
  BY <1>1 DEF Store, Inv, TypeOK
<1>3. newest'[k] \in Nat /\ newest'[k] > newest[k]
  BY <1>1, <1>2 DEF Inv, TypeOK
<1>4. Box' = [Box EXCEPT ![k] = newest'[k]]
  BY <1>1, <1>2 DEF Box
<1>5. SeenByServer' = SeenByServer
  BY DEF SeenByServer
<1> QED BY <1>2, <1>3, <1>4, <1>5 DEF Mailbox!Put, Box, SeenByServer

(* The answer of the server empties a place, or the mailbox does not see it.*)
LEMMA SettleRemoves ==
    ASSUME Inv, NEW r \in Report, Known(r), NEW o \in Outcomes,
           o \in Decisions => Answer(r, o) \in answers,
           row' = Settled(r, o), UNCHANGED <<lastId, newest, reports, answers>>
    PROVE  (\E k \in Keys : Mailbox!Remove(k)) \/ UNCHANGED <<Box, newest, SeenByServer>>
<1> DEFINE k == r.key
<1>1. k \in Keys /\ SeenByServer' = SeenByServer /\ newest' = newest
  BY DEF Report, SeenByServer
<1>2. RowsKept
  BY SettledTable DEF Inv
<1>3. CASE Matches(r) /\ o \in {"accepted", "stale"}
  <2>1. row' = [row EXCEPT ![k] = None] /\ row[k] # None /\ r.ver = newest[k]
    BY <1>1, <1>3 DEF Settled, Matches, Known
  <2>2. Box' = [Box EXCEPT ![k] = 0] /\ Box[k] = newest[k]
    BY <1>1, <2>1 DEF Box, Inv, TypeOK
  <2>3. Answer(r, o) \in answers /\ Answer(r, o).decision # "refused"
        /\ Answer(r, o).key = k /\ Answer(r, o).ver = r.ver
    BY <1>3 DEF Answer, Decisions
  <2>4. <<k, Box[k]>> \in SeenByServer
    BY <2>1, <2>2, <2>3 DEF SeenByServer
  <2> QED BY <1>1, <2>2, <2>4 DEF Mailbox!Remove, Box, SeenByServer
<1>4. CASE ~(Matches(r) /\ o \in {"accepted", "stale"})
  <2>1. \A j \in Keys : row'[j] = None <=> row[j] = None
    <3>1. CASE ~Matches(r)
      BY <3>1 DEF Settled
    <3>2. CASE Matches(r) /\ o \in {"failed", "busy", "refused"}
      <4> DEFINE b == [row[k] EXCEPT !.due = FALSE]
                 c == [row[k] EXCEPT !.blocked = TRUE]
      <4>1. row[k] # None /\ row[k] \in Row
        BY <1>1, <3>2 DEF Matches, Inv, TypeOK
      <4>2. b \in Row /\ c \in Row
        BY <4>1 DEF Row
      <4>3. row' = [row EXCEPT ![k] = b] \/ row' = [row EXCEPT ![k] = c]
        BY <3>2 DEF Settled
      <4> HIDE DEF b, c
      <4>4. b # None /\ c # None
        BY <4>2
      <4> QED BY <1>1, <4>1, <4>3, <4>4 DEF Inv, TypeOK
    <3> QED BY <1>4, <3>1, <3>2 DEF Outcomes, Decisions
  <2>2. Box' = Box
    BY <1>1, <2>1 DEF Box
  <2> QED BY <1>1, <2>2
<1> QED BY <1>3, <1>4

(* A decision of the server, whoever still waits for it.                   *)
LEMMA AnswerDecides ==
    ASSUME Inv, NEW r \in Report, Known(r), NEW d \in Decisions,
           answers' = answers \cup {Answer(r, d)}, UNCHANGED tableVars
    PROVE  Mailbox!Decide \/ UNCHANGED <<Box, newest, SeenByServer>>
<1>1. Box' = Box /\ newest' = newest
  BY DEF Box, tableVars
<1>2. /\ Answer(r, d).key = r.key /\ Answer(r, d).ver = r.ver /\ Answer(r, d).decision = d
      /\ r.key \in Keys /\ r.ver \in 1..newest[r.key]
  BY DEF Answer, Report, Known, Ids, Inv, TypeOK
<1>3. CASE d = "refused"
  <2>1. SeenByServer' = SeenByServer
    BY <1>2, <1>3 DEF SeenByServer
  <2> QED BY <1>1, <2>1
<1>4. CASE d # "refused"
  <2>1. SeenByServer' = SeenByServer \cup {<<r.key, r.ver>>}
    BY <1>2, <1>4 DEF SeenByServer
  <2> QED BY <1>1, <1>2, <2>1 DEF Mailbox!Decide, Box, SeenByServer
<1> QED BY <1>3, <1>4

(* Every step of the outbox is a step of the mailbox or changes nothing.   *)
LEMMA StepMaps ==
    ASSUME Inv, [Next]_vars
    PROVE  Mailbox!Next \/ UNCHANGED <<Box, newest, SeenByServer>>
<1>1. ASSUME UNCHANGED <<row, newest, answers>> PROVE UNCHANGED <<Box, newest, SeenByServer>>
  BY <1>1 DEF Box, SeenByServer
<1>2. CASE UNCHANGED vars
  BY <1>1, <1>2 DEF vars, tableVars, serverVars
<1>3. ASSUME NEW k \in Keys, Store(k), UNCHANGED answers PROVE Mailbox!Next
  BY <1>3, StorePuts DEF Mailbox!Next
<1>4. ASSUME NEW s \in Slots, Deliver(s)
      PROVE  Mailbox!Next \/ UNCHANGED <<Box, newest, SeenByServer>>
  <2>1. CASE Post(s) \/ Offline(s) \/ Busy(s) \/ GiveUp(s) \/ Close(s)
    BY <1>1, <2>1 DEF Post, Offline, Busy, GiveUp, Close, tableVars, serverVars
  <2>2. ASSUME NEW d \in Decisions, Handled(s, d)
        PROVE  Mailbox!Next \/ UNCHANGED <<Box, newest, SeenByServer>>
    <3>1. rep[s] \in Report /\ Known(rep[s])
      BY <2>2 DEF Handled, Moves, Inv, TypeOK, ClaimsOK, ReportsKnown
    <3> QED BY <2>2, <3>1, AnswerDecides DEF Handled, Mailbox!Next
  <2>3. CASE Settle(s)
    <3>1. /\ at[s] \in Outcomes /\ rep[s] \in Report /\ Known(rep[s])
          /\ at[s] \in Decisions => Answer(rep[s], at[s]) \in answers
      BY <2>3 DEF Settle, Inv, TypeOK, ClaimsOK, ReportsKnown, Answered, Outcomes, Decisions
    <3> QED BY <2>3, <3>1, SettleRemoves DEF Settle, serverVars, Mailbox!Next
  <2> QED BY <1>4, <2>1, <2>2, <2>3 DEF Deliver
<1>5. ASSUME NEW p \in Callers, Call(p)
      PROVE  Mailbox!Next \/ UNCHANGED <<Box, newest, SeenByServer>>
  <2>1. ASSUME NEW k \in Keys, Enqueue(p, k) \/ CancelEnqueue(p, k) PROVE Mailbox!Next
    BY <1>3, <2>1 DEF Enqueue, CancelEnqueue, serverVars
  <2>2. CASE Claim(p) \/ CancelClaim(p) \/ OrphanClaim(p) \/ Cancel(p) \/ CancelSettle(p)
    BY <1>1, <2>2 DEF Claim, CancelClaim, OrphanClaim, Claims, Cancel, CancelSettle,
                      tableVars, serverVars
  <2> QED BY <1>5, <2>1, <2>2 DEF Call
<1>6. ASSUME NEW k \in Keys, Capture(k) \/ Due(k)
      PROVE  Mailbox!Next \/ UNCHANGED <<Box, newest, SeenByServer>>
  <2>1. CASE Capture(k)
    BY <1>3, <2>1 DEF Capture, serverVars
  <2>2. CASE Due(k)
    <3>1. row' = [row EXCEPT ![k].due = TRUE] /\ row[k] \in Row /\ row[k] # None
          /\ newest' = newest /\ answers' = answers
      BY <2>2 DEF Due, Pending, Inv, TypeOK, serverVars
    <3>2. PICK c \in Row : c = [row[k] EXCEPT !.due = TRUE]
      BY <3>1 DEF Row
    <3>3. \A j \in Keys : row'[j] = None <=> row[j] = None
      BY <3>1, <3>2 DEF Inv, TypeOK
    <3> QED BY <3>1, <3>3 DEF Box, SeenByServer
  <2> QED BY <1>6, <2>1, <2>2
<1>7. ASSUME NEW r \in stray, NEW d \in Decisions, StrayHandled(r, d)
      PROVE  Mailbox!Next \/ UNCHANGED <<Box, newest, SeenByServer>>
  <2>1. r \in Report /\ Known(r)
    BY DEF Inv, TypeOK, ReportsKnown
  <2> QED BY <1>7, <2>1, AnswerDecides DEF StrayHandled, Mailbox!Next
<1>8. ASSUME NEW x \in late, LateSettle(x)
      PROVE  Mailbox!Next \/ UNCHANGED <<Box, newest, SeenByServer>>
  <2>1. /\ x.outcome \in Outcomes /\ x.rep \in Report /\ Known(x.rep)
        /\ x.outcome \in Decisions => Answer(x.rep, x.outcome) \in answers
    BY <1>8 DEF LateSettle, Inv, TypeOK, CallersApart, ReportsKnown, Answered
  <2> QED BY <1>8, <2>1, SettleRemoves DEF LateSettle, serverVars, Mailbox!Next
<1>9. CASE WorkerClaim \/ Crash
  BY <1>1, <1>9 DEF WorkerClaim, Crash, tableVars, serverVars
<1> QED BY <1>2, <1>4, <1>5, <1>6, <1>7, <1>8, <1>9 DEF Next

(* The outbox, with its crashes, claims, coalescing and cancelled          *)
(* deliveries, implements the durable mailbox.                             *)
THEOREM OutboxIsAMailbox == Spec => ImplementsMailbox
<1>1. Init => Mailbox!Init
  BY DEF Init, Mailbox!Init
<1>2. Inv /\ [Next]_vars => [Mailbox!Next]_<<Box, newest, SeenByServer>>
  BY StepMaps
<1> QED BY <1>1, <1>2, InvHolds, PTL DEF Spec, ImplementsMailbox, Mailbox!Spec, Box, SeenByServer

=============================================================================
