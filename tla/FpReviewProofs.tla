--------------------------- MODULE FpReviewProofs ---------------------------
(***************************************************************************)
(* Proofs about FpReview, in three layers, each of which uses the one      *)
(* before: what the variables hold (Sound), what the Agent does for a job  *)
(* that the user has not stopped (Tracked), and where a finding is while   *)
(* nobody has asked for anything beside the scan itself (Kept).            *)
(***************************************************************************)
EXTENDS FpReview, FiniteSetTheorems, TLAPS

-----------------------------------------------------------------------------
(* Layer 1.                                                                *)

Begun == {j \in Jobs : job[j].status # "none"}

JobsOK ==
    /\ job \in [Jobs -> [status : {"none", "complete", "error", "cancelled"} \cup Running, rev : Nat]]
    /\ \E n \in 0..MaxJob : Begun = 1..n

FindingsOK == reviewed \subseteq tried /\ tried \subseteq found /\ found \subseteq Items

(* What a dispatch carries: a job that exists, findings of the scan, and   *)
(* no revision from the future.                                            *)
Dispatch(d) == d.job \in Begun /\ d.items \subseteq found /\ d.rev <= job[d.job].rev

CallsOK ==
    /\ call \in [Callers -> CallType]
    /\ \A c \in Callers : call[c].at \in {"ensured", "acquired", "registering"} => Dispatch(call[c])
    /\ \A v \in Items : call[v].at # "idle" => v \in found
    /\ \A v \in Items : call[v].at = "registering" => call[v].ev[1] = call[v].job

StopOK ==
    /\ stop \in [at : {"idle", "told", "over"}, jobs : SUBSET Jobs]
    /\ stop.at = "idle" => stop.jobs = {}
    /\ \A e \in raised : e[1] \in stop.jobs
    /\ \A j \in Jobs : job[j].status = "cancelled" => j \in stop.jobs

Command == [type : {"fp_review", "fp_review_stop"}, call : CallType]
CommandsOK ==
    /\ cmds \in Seq(Command)
    /\ \A i \in DOMAIN cmds :
          IF cmds[i].type = "fp_review" THEN Dispatch(cmds[i].call)
          ELSE cmds[i].call.job \in stop.jobs

TakingOK ==
    /\ taking \in CallType
    /\ \/ taking = Free
       \/ Dispatch(taking) /\ taking.at = "items"
       \/ Dispatch(taking) /\ taking.at = "registering" /\ taking.next \in found /\ taking.ev[1] = taking.job

KnownOK == known \in [Jobs -> Nat] /\ \A j \in Jobs : known[j] <= job[j].rev

EntryOf(j) == [item : found, ev : {j} \X Nat]
FlightOf(j) == [item : found, ev : {j} \X Nat, at : {"new", "told", "success", "error", "cancelled"}]

AgentOK ==
    /\ active \subseteq (Jobs \X Items) /\ event \in [Jobs -> [there : BOOLEAN, no : Nat]]
    /\ worker \in [Jobs -> WorkerType]
    /\ DOMAIN queue = Jobs /\ DOMAIN flight = Jobs
    /\ queue = [j \in Jobs |-> queue[j]] /\ flight = [j \in Jobs |-> flight[j]]
    /\ \A j \in Jobs : queue[j] \in Seq(EntryOf(j)) /\ flight[j] \subseteq FlightOf(j)
    /\ \A j \in Jobs \ Begun : queue[j] = <<>> /\ flight[j] = {} /\ ~worker[j].had

Result == [key : {"result"} \X Begun \X tried, rev : Nat, status : {"running"}]
Finish == [key : {"finish"} \X Begun, rev : Nat, status : {"complete", "error", "cancelled"}]

ReportsOK ==
    /\ progress \subseteq [job : Begun, item : Items]
    /\ out \in Seq(Result \cup Finish)
    /\ post # Nobody => out # <<>> /\ post.msg \in Result \cup Finish

Sound ==
    /\ JobsOK /\ FindingsOK /\ CallsOK /\ StopOK /\ CommandsOK
    /\ TakingOK /\ KnownOK /\ AgentOK /\ ReportsOK

-----------------------------------------------------------------------------
(* Layer 2.                                                                *)

RegCall(j, v) == call[v].at = "registering" /\ call[v].job = j
RegTake(j, v) == taking.at = "registering" /\ taking.job = j /\ taking.next = v

(* The worker of a job that is not stopped ends when it has nothing left.  *)
WorkerOK(j) ==
    /\ worker[j].at \in {"gone", "loop", "finishing"}
    /\ worker[j].ends = "complete" /\ ~worker[j].cancelled
    /\ worker[j].at = "gone" => queue[j] = <<>>
    /\ worker[j].at # "loop" => flight[j] = {}
    /\ \A f \in flight[j] : f.at # "cancelled"

(* An active item is in one place, and only an active item is.             *)
Where(j, v) ==
    /\ (<<j, v>> \in active) <=> (Registering(j, v) \/ InQueue(j, v) \/ InFlight(j, v))
    /\ ~(RegCall(j, v) /\ RegTake(j, v))
    /\ Registering(j, v) => ~InQueue(j, v) /\ ~InFlight(j, v)
    /\ InQueue(j, v) => ~InFlight(j, v)

Single(j) ==
    /\ \A i, k \in DOMAIN queue[j] : queue[j][i].item = queue[j][k].item => i = k
    /\ \A f, g \in flight[j] : f.item = g.item /\ ~Ended(f) /\ ~Ended(g) => f = g

Tracks(j) == WorkerOK(j) /\ Single(j) /\ \A v \in Items : Where(j, v)
Tracked == \A j \in Jobs \ stop.jobs : Tracks(j)

-----------------------------------------------------------------------------
(* Layer 3.                                                                *)

OnlyTheScan == stop.jobs = {} /\ \A c \in Others \ {Final} : call[c].at = "idle"

Asked(d) == d.type = "fp_review"

(* The end of the scan dispatches after every finding has.                 *)
FinalLast ==
    /\ call[Final].at \in {"idle", "ensured", "acquired", "over"}
    /\ call[Final].at # "idle" => \A v \in Items : call[v].at \notin {"idle", "start", "ensured"}

(* It dispatches once, and nothing makes its revision stale.               *)
Current(d) == d.rev = job[d.job].rev
FinalCurrent ==
    /\ call[Final].at # "over" => taking = Free /\ \A i \in DOMAIN cmds : ~Asked(cmds[i])
    /\ call[Final].at = "acquired" => Current(call[Final])
    /\ \A i \in DOMAIN cmds : Asked(cmds[i]) => Current(cmds[i].call)
    /\ taking # Free => Current(taking)

Awaits(v) ==
    \/ call[Final].at = "idle"
    \/ call[Final].at \in {"ensured", "acquired"} /\ v \in call[Final].items
    \/ \E i \in DOMAIN cmds : Asked(cmds[i]) /\ v \in cmds[i].call.items
    \/ v \in taking.items
    \/ \E j \in Jobs : <<j, v>> \in active

Waits == FinalCurrent /\ \A v \in found : v \in tried \/ Awaits(v)

Kept == FinalLast /\ (OnlyTheScan => Waits)

-----------------------------------------------------------------------------
(* Facts about sequences and about the jobs.                               *)

LEMMA SeqGrows ==
    ASSUME NEW S, NEW T, S \subseteq T, NEW s \in Seq(S)
    PROVE  s \in Seq(T)
  OBVIOUS

LEMMA Listed ==
    ASSUME NEW S, NEW n \in Nat, NEW f \in [1..n -> S]
    PROVE  f \in Seq(S) /\ Len(f) = n
  OBVIOUS

LEMMA Joined ==
    ASSUME NEW S, NEW s \in Seq(S), NEW t \in Seq(S)
    PROVE  /\ s \o t \in Seq(S)
           /\ \A i \in DOMAIN (s \o t) :
                 (i \in DOMAIN s /\ (s \o t)[i] = s[i]) \/ \E k \in DOMAIN t : (s \o t)[i] = t[k]
  <1>1. ASSUME NEW i \in DOMAIN (s \o t), i \notin DOMAIN s
        PROVE  i - Len(s) \in DOMAIN t /\ (s \o t)[i] = t[i - Len(s)]
    BY <1>1
  <1>2. \A i \in DOMAIN (s \o t) : i \in DOMAIN s => (s \o t)[i] = s[i] OBVIOUS
  <1>. QED BY <1>1, <1>2

LEMMA BegunAreFirst ==
    ASSUME JobsOK
    PROVE  Latest \in 0..MaxJob /\ Begun = 1..Latest
  <1>1. PICK n \in 0..MaxJob : Begun = 1..n BY DEF JobsOK
  <1>2. Cardinality(1..n) = n
    BY <1>1, FS_Interval, ReviewAssumption
  <1>. QED BY <1>1, <1>2 DEF Latest, Begun

(* The parts of a state that a step leaves alone stay sound as the rest    *)
(* grows: findings, jobs and their revisions, reviews and stops.           *)
Grows ==
    /\ found \subseteq found' /\ tried \subseteq tried' /\ stop.jobs \subseteq stop'.jobs
    /\ Begun \subseteq Begun' /\ \A j \in Jobs : job[j].rev <= job'[j].rev
    /\ JobsOK' /\ FindingsOK'

LEMMA DispatchKept ==
    ASSUME JobsOK, Grows, NEW CONSTANT d, d.rev \in Nat, Dispatch(d)
    PROVE  Dispatch(d)'
  BY DEF JobsOK, Dispatch, Grows, Begun

LEMMA CallsKept ==
    ASSUME JobsOK, CallsOK, Grows, UNCHANGED call
    PROVE  CallsOK'
  BY DEF JobsOK, CallsOK, Dispatch, Grows, Begun, CallType

LEMMA CommandsKept ==
    ASSUME JobsOK, CommandsOK, Grows, UNCHANGED cmds
    PROVE  CommandsOK'
  <1>1. \A i \in DOMAIN cmds : cmds[i].call.rev \in Nat
    <2>1. \A i \in DOMAIN cmds : cmds[i] \in Command BY DEF CommandsOK
    <2>2. \A d \in Command : d.call.rev \in Nat BY DEF Command, CallType
    <2>. QED BY <2>1, <2>2
  <1>. QED BY <1>1 DEF JobsOK, CommandsOK, Dispatch, Grows, Begun

LEMMA TakingKept ==
    ASSUME JobsOK, TakingOK, Grows, UNCHANGED taking
    PROVE  TakingOK'
  BY DEF JobsOK, TakingOK, Dispatch, Grows, Begun, CallType

LEMMA KnownKept ==
    ASSUME JobsOK, KnownOK, Grows, UNCHANGED known
    PROVE  KnownOK'
  BY DEF JobsOK, KnownOK, Grows

LEMMA AgentKept ==
    ASSUME JobsOK, AgentOK, Grows, UNCHANGED <<active, event, worker, queue, flight>>
    PROVE  AgentOK'
  <1>1. ASSUME NEW j \in Jobs
        PROVE  queue[j] \in Seq(EntryOf(j)') /\ flight[j] \subseteq FlightOf(j)'
    <2>1. EntryOf(j) \subseteq EntryOf(j)' BY DEF Grows, EntryOf
    <2>2. FlightOf(j) \subseteq FlightOf(j)' BY DEF Grows, FlightOf
    <2>3. queue[j] \in Seq(EntryOf(j)) /\ flight[j] \subseteq FlightOf(j) BY DEF AgentOK
    <2>. QED BY <2>1, <2>2, <2>3, SeqGrows
  <1>2. Jobs \ Begun' \subseteq Jobs \ Begun BY DEF Grows
  <1>. QED BY <1>1, <1>2 DEF AgentOK

LEMMA ReportsKept ==
    ASSUME JobsOK, ReportsOK, Grows, UNCHANGED <<progress, out, post>>
    PROVE  ReportsOK'
  <1>1. Result \cup Finish \subseteq (Result \cup Finish)' BY DEF Grows, Result, Finish
  <1>2. out' \in Seq((Result \cup Finish)') BY <1>1, SeqGrows DEF ReportsOK
  <1>. QED BY <1>1, <1>2 DEF ReportsOK, Grows

-----------------------------------------------------------------------------
(* Layer 1: the server's steps.                                            *)

Still == UNCHANGED <<found, tried, reviewed, stop>>

LEMMA GrowsWhenJobsDo ==
    ASSUME FindingsOK, Still, JobsOK', Begun \subseteq Begun',
           \A j \in Jobs : job[j].rev <= job'[j].rev
    PROVE  Grows
  BY DEF Still, FindingsOK, Grows

LEMMA GrowsInPlace ==
    ASSUME JobsOK, FindingsOK, Still, UNCHANGED job
    PROVE  Grows
  <1>1. JobsOK' BY DEF JobsOK, Begun
  <1>2. Begun \subseteq Begun' BY DEF Begun
  <1>3. \A j \in Jobs : job[j].rev <= job'[j].rev BY DEF JobsOK
  <1>. QED BY <1>1, <1>2, <1>3, GrowsWhenJobsDo

LEMMA SetsGrows ==
    ASSUME JobsOK, FindingsOK, NEW j \in Jobs, j \in Begun \/ j = Latest + 1,
           NEW s \in {"complete", "error", "cancelled"} \cup Running, Sets(j, s), Still
    PROVE  Grows /\ j \in Begun' /\ \A i \in Jobs : job'[i].rev = job[i].rev
  <1>1. job' \in [Jobs -> [status : {"none", "complete", "error", "cancelled"} \cup Running, rev : Nat]]
    BY DEF Sets, JobsOK
  <1>2. Begun' = Begun \cup {j}
    BY DEF Sets, JobsOK, Begun, Running
  <1>3. \E n \in 0..MaxJob : Begun' = 1..n
    <2>1. Latest \in 0..MaxJob /\ Begun = 1..Latest BY BegunAreFirst
    <2>2. CASE j \in Begun BY <1>2, <2>1, <2>2
    <2>3. CASE j = Latest + 1
      <3>1. Latest + 1 \in 0..MaxJob BY <2>1, <2>3, ReviewAssumption DEF Jobs
      <3>2. \A n \in Nat : (1..n) \cup {n + 1} = 1..(n + 1) OBVIOUS
      <3>3. Begun' = 1..(Latest + 1) BY <1>2, <2>1, <2>3, <3>2
      <3>. QED BY <3>1, <3>3
    <2>. QED BY <2>2, <2>3
  <1>4. \A i \in Jobs : job'[i].rev = job[i].rev BY DEF Sets, JobsOK
  <1>5. JobsOK' BY <1>1, <1>3 DEF JobsOK
  <1>6. \A i \in Jobs : job[i].rev <= job'[i].rev BY <1>4 DEF JobsOK
  <1>. QED BY <1>2, <1>4, <1>5, <1>6, GrowsWhenJobsDo

LEMMA StopKept ==
    ASSUME StopOK, Still, UNCHANGED raised,
           \A j \in Jobs : job'[j].status = "cancelled" => job[j].status = "cancelled"
    PROVE  StopOK'
  BY DEF StopOK, Still

LEMMA InitSound == ASSUME Init PROVE Sound
  <1>. USE DEF Init
  <1>1. JobsOK /\ Begun = {}
    <2>1. Begun = {} BY DEF Begun
    <2>2. 0 \in 0..MaxJob /\ {} = 1..0 BY ReviewAssumption
    <2>3. job \in [Jobs -> [status : {"none", "complete", "error", "cancelled"} \cup Running, rev : Nat]]
      OBVIOUS
    <2>. QED BY <2>1, <2>2, <2>3 DEF JobsOK
  <1>2. FindingsOK BY ReviewAssumption DEF FindingsOK
  <1>3. CallsOK
    <2>1. Over \in CallType /\ Idle \in CallType BY DEF CallType, Over, Idle
    <2>2. Over.at = "over" /\ Idle.at = "idle" BY DEF Over, Idle
    <2>3. \A c \in Callers : call[c] = Idle \/ (c \in Early /\ call[c] = Over) OBVIOUS
    <2>4. call \in [Callers -> CallType] BY <2>1
    <2>5. Items \subseteq Callers BY DEF Callers
    <2>. QED BY <2>2, <2>3, <2>4, <2>5 DEF CallsOK
  <1>4. StopOK BY DEF StopOK, Jobs
  <1>5. CommandsOK BY DEF CommandsOK
  <1>6. TakingOK BY DEF TakingOK, CallType, Free, Idle
  <1>7. KnownOK BY DEF KnownOK
  <1>8. AgentOK
    <2>1. worker \in [Jobs -> WorkerType] BY DEF WorkerType, Quiet
    <2>2. \A j \in Jobs : ~worker[j].had BY DEF Quiet
    <2>3. \A j \in Jobs : queue[j] = <<>> /\ flight[j] = {} OBVIOUS
    <2>4. \A S : <<>> \in Seq(S) OBVIOUS
    <2>. QED BY <2>1, <2>2, <2>3, <2>4 DEF AgentOK
  <1>9. ReportsOK BY DEF ReportsOK
  <1>. QED BY <1>1, <1>2, <1>3, <1>4, <1>5, <1>6, <1>7, <1>8, <1>9 DEF Sound

LEMMA ReportSound ==
    ASSUME Sound, NEW v \in Items, Report(v)
    PROVE  Sound'
  <1>. USE DEF Sound, Report, ServerOnly, agentVars
  <1>1. FindingsOK' BY DEF FindingsOK
  <1>2. Grows
    <2>1. JobsOK' BY DEF JobsOK, Begun
    <2>2. \A j \in Jobs : job[j].rev <= job'[j].rev BY DEF JobsOK
    <2>. QED BY <1>1, <2>1, <2>2 DEF Grows, Begun
  <1>3. CallsOK'
    <2>1. call' \in [Callers -> CallType] /\ \A c \in Callers :
             IF c = v THEN call'[c].at = "start" ELSE call'[c] = call[c]
      BY DEF CallsOK, Callers, CallType
    <2>2. \A c \in Callers : call[c] \in CallType BY DEF CallsOK
    <2>. QED BY <1>2, <2>1, <2>2 DEF CallsOK, JobsOK, Dispatch, Grows, Begun, CallType, Callers
  <1>4. StopOK' BY DEF StopOK
  <1>. QED BY <1>1, <1>2, <1>3, <1>4, CommandsKept, TakingKept, KnownKept, AgentKept, ReportsKept DEF Grows

LEMMA EnsureSound ==
    ASSUME Sound, NEW c \in Callers, Ensure(c)
    PROVE  Sound'
  <1>. USE DEF Sound, ServerOnly, agentVars
  <1>0. Still /\ UNCHANGED <<cmds, taking, known, active, event, worker, queue, flight, progress, out, post, raised>>
    BY DEF Ensure, Still
  <1>1. Over \in CallType /\ Over.at = "over" BY DEF Over, Idle, CallType
  <1>f. c \in Items => c \in found BY DEF Ensure, Asks, CallsOK
  <1>2. CASE Refused(c)
    <2>1. call' = [call EXCEPT ![c] = Over] /\ UNCHANGED job BY <1>2 DEF Ensure
    <2>2. Grows BY <1>0, <2>1, GrowsInPlace
    <2>3. CallsOK'
      <3>1. call' \in [Callers -> CallType] /\ \A b \in Callers : call'[b] = IF b = c THEN Over ELSE call[b]
        BY <1>1, <2>1 DEF CallsOK
      <3>2. \A b \in Callers : call[b] \in CallType BY DEF CallsOK
      <3>. QED BY <1>0, <1>1, <1>f, <2>1, <3>1, <3>2 DEF CallsOK, Dispatch, Begun, Callers, Still
    <2>4. StopOK' BY <1>0, <2>1, StopKept
    <2>. QED BY <1>0, <2>2, <2>3, <2>4, CommandsKept, TakingKept, KnownKept, AgentKept, ReportsKept DEF Grows
  <1>3. CASE ~Refused(c)
    <2>. DEFINE j == IF Fresh THEN Latest + 1 ELSE Latest
                g == [at |-> "ensured", job |-> j, rev |-> 0,
                      force |-> c = Manual \/ (~Fresh /\ job[j].status \notin Running),
                      items |-> IF c \in Items THEN {c} ELSE Confirmed, ev |-> <<0, 0>>, next |-> Nobody]
    <2>1. j \in Jobs /\ Sets(j, "running") BY <1>3 DEF Ensure
    <2>2. j = Latest + 1 \/ j \in Begun BY BegunAreFirst DEF Fresh
    <2>3. Grows /\ j \in Begun' /\ \A i \in Jobs : job'[i].rev = job[i].rev
      BY <1>0, <2>1, <2>2, SetsGrows DEF Running
    <2>4. \E x \in {Over, g} : call' = [call EXCEPT ![c] = x] BY <1>3 DEF Ensure
    <2>5. Confirmed \subseteq found BY DEF Confirmed, Unresolved
    <2>6. g \in CallType /\ g.at = "ensured" /\ g.items \subseteq found /\ g.job = j /\ g.rev = 0
      <3>1. g.items \in SUBSET Items BY <2>5 DEF FindingsOK
      <3>2. j \in Nat BY <2>1 DEF Jobs
      <3>3. g.force \in BOOLEAN OBVIOUS
      <3>. QED BY <1>f, <2>5, <3>1, <3>2, <3>3 DEF CallType
    <2>7. CallsOK'
      <3>1. PICK x \in {Over, g} : call' = [call EXCEPT ![c] = x] BY <2>4
      <3>2. call' \in [Callers -> CallType] /\ \A b \in Callers : call'[b] = IF b = c THEN x ELSE call[b]
        BY <1>1, <2>6, <3>1 DEF CallsOK
      <3>3. \A b \in Callers : call[b] \in CallType BY DEF CallsOK
      <3>4. x = Over \/ (x.at = "ensured" /\ Dispatch(x)')
        <4>1. x = g => g.rev <= job'[g.job].rev BY <2>1, <2>3, <2>6 DEF Grows, JobsOK
        <4>. QED BY <1>0, <2>3, <2>6, <4>1 DEF Dispatch, Still
      <3>5. \A b \in Callers : call[b].at \in {"ensured", "acquired", "registering"} =>
               call[b].job \in Begun' /\ call[b].items \subseteq found' /\ call[b].rev <= job'[call[b].job].rev
        BY <1>0, <2>3, <3>3 DEF CallsOK, Dispatch, CallType, Grows, Still, JobsOK, Begun
      <3>. QED BY <1>0, <1>1, <1>f, <2>6, <3>2, <3>4, <3>5 DEF CallsOK, Callers, Still, Dispatch
    <2>8. StopOK'
      <3>1. \A i \in Jobs : job'[i].status = "cancelled" => job[i].status = "cancelled"
        BY <2>1 DEF Sets, JobsOK
      <3>. QED BY <1>0, <3>1, StopKept
    <2>. QED BY <1>0, <2>3, <2>7, <2>8, CommandsKept, TakingKept, KnownKept, AgentKept, ReportsKept DEF Grows
  <1>. QED BY <1>2, <1>3

LEMMA AcquireSound ==
    ASSUME Sound, NEW c \in Callers, Acquire(c)
    PROVE  Sound'
  <1>. USE DEF Sound, ServerOnly, agentVars
  <1>0. Still /\ UNCHANGED <<cmds, taking, known, active, event, worker, queue, flight, progress, out, post, raised>>
    BY DEF Acquire, Still
  <1>. DEFINE j == call[c].job
              r == Acquired(c)
  <1>1. j \in Begun /\ j \in Jobs /\ call[c] \in CallType /\ call[c].at = "ensured" /\ call[c].items \subseteq found
    BY DEF Acquire, CallsOK, Dispatch, Begun
  <1>2. r \in Nat /\ job[j].rev <= r BY <1>1 DEF Acquired, JobsOK
  <1>3. job' = [job EXCEPT ![j].rev = r] BY DEF Acquire
  <1>4. /\ \A i \in Jobs : job'[i].status = job[i].status
        /\ \A i \in Jobs : job'[i].rev = IF i = j THEN r ELSE job[i].rev
    BY <1>3 DEF JobsOK
  <1>5. Begun' = Begun BY <1>4 DEF Begun
  <1>6. JobsOK' BY <1>2, <1>3, <1>5 DEF JobsOK
  <1>7. Grows BY <1>0, <1>2, <1>4, <1>5, <1>6, GrowsWhenJobsDo DEF JobsOK
  <1>8. CallsOK'
    <2>1. call' = [call EXCEPT ![c].at = "acquired", ![c].rev = r] BY DEF Acquire
    <2>2. /\ call'[c] \in CallType /\ call'[c].at = "acquired" /\ call'[c].rev = r /\ call'[c].job = j
          /\ call'[c].items = call[c].items
      BY <1>1, <1>2, <2>1 DEF CallsOK, CallType
    <2>3. call' \in [Callers -> CallType] /\ \A b \in Callers : b # c => call'[b] = call[b]
      BY <2>1, <2>2 DEF CallsOK
    <2>4. \A b \in Callers : call[b] \in CallType BY DEF CallsOK
    <2>5. Dispatch(call[c])' BY <1>0, <1>1, <1>2, <1>4, <1>5, <2>2 DEF Dispatch, Still
    <2>6. \A b \in Callers \ {c} : call[b].at \in {"ensured", "acquired", "registering"} =>
               call[b].job \in Begun' /\ call[b].items \subseteq found' /\ call[b].rev <= job'[call[b].job].rev
      BY <1>7, <2>4 DEF CallsOK, Dispatch, CallType, Grows, JobsOK, Begun
    <2>7. \A v \in Items : call[v].at # "idle" => v \in found BY DEF CallsOK
    <2>. QED BY <1>0, <1>1, <2>2, <2>3, <2>5, <2>6, <2>7 DEF CallsOK, Callers, Still, Dispatch
  <1>9. StopOK' BY <1>0, <1>4, StopKept
  <1>. QED BY <1>0, <1>7, <1>8, <1>9, CommandsKept, TakingKept, KnownKept, AgentKept, ReportsKept DEF Grows

LEMMA SendSound ==
    ASSUME Sound, NEW c \in Callers, Send(c)
    PROVE  Sound'
  <1>. USE DEF Sound, ServerOnly, agentVars, jobVars
  <1>0. Still /\ UNCHANGED <<job, taking, known, active, event, worker, queue, flight, progress, out, post, raised>>
    BY DEF Send, Still
  <1>1. Grows BY <1>0, GrowsInPlace
  <1>2. call[c] \in CallType /\ Dispatch(call[c]) BY DEF Send, CallsOK
  <1>3. CallsOK'
    <2>1. Over \in CallType /\ Over.at = "over" BY DEF Over, Idle, CallType
    <2>2. c \notin Items BY ReviewAssumption DEF Send
    <2>3. call' \in [Callers -> CallType] /\ \A b \in Callers : call'[b] = IF b = c THEN Over ELSE call[b]
      BY <2>1 DEF CallsOK, Send
    <2>. QED BY <1>0, <2>1, <2>2, <2>3 DEF CallsOK, Callers, Still, Dispatch, Begun
  <1>4. CommandsOK'
    <2>. DEFINE d == [type |-> "fp_review", call |-> call[c]]
    <2>1. d \in Command /\ d.type = "fp_review" /\ d.call = call[c] BY <1>2 DEF Command
    <2>2. cmds' = Append(cmds, d) BY DEF Send
    <2>3. cmds' \in Seq(Command) /\ DOMAIN cmds' = 1..(Len(cmds) + 1) BY <2>1, <2>2 DEF CommandsOK
    <2>4. \A i \in DOMAIN cmds' : cmds'[i] = d \/ (i \in DOMAIN cmds /\ cmds'[i] = cmds[i])
      BY <2>2, <2>3 DEF CommandsOK
    <2>. QED BY <1>0, <1>2, <2>1, <2>3, <2>4 DEF CommandsOK, Dispatch, Still, Begun
  <1>5. StopOK' BY <1>0, StopKept
  <1>. QED BY <1>0, <1>1, <1>3, <1>4, <1>5, TakingKept, KnownKept, AgentKept, ReportsKept DEF Grows

LEMMA StopReviewsSound ==
    ASSUME Sound, StopReviews
    PROVE  Sound'
  <1>. USE DEF Sound, ServerOnly, agentVars
  <1>0. UNCHANGED <<found, tried, reviewed, call, cmds, taking, known, active, event, worker, queue, flight,
                    progress, out, post, raised>>
    BY DEF StopReviews
  <1>. DEFINE js == {j \in Jobs : job[j].status \in Running}
  <1>1. /\ job' = [j \in Jobs |-> IF j \in js THEN [job[j] EXCEPT !.status = "cancelled"] ELSE job[j]]
        /\ stop' = [at |-> "told", jobs |-> js] /\ stop.at = "idle"
    BY DEF StopReviews
  <1>2. /\ job' \in [Jobs -> [status : {"none", "complete", "error", "cancelled"} \cup Running, rev : Nat]]
        /\ \A j \in Jobs : job'[j].rev = job[j].rev
        /\ \A j \in Jobs : job'[j].status = IF j \in js THEN "cancelled" ELSE job[j].status
    BY <1>1 DEF JobsOK
  <1>3. Begun' = Begun BY <1>2 DEF Begun, Running
  <1>4. JobsOK' BY <1>2, <1>3 DEF JobsOK
  <1>5. stop.jobs = {} BY <1>1 DEF StopOK
  <1>6. \A j \in Jobs : job[j].rev <= job'[j].rev BY <1>2 DEF JobsOK
  <1>7. Grows BY <1>0, <1>3, <1>4, <1>5, <1>6 DEF Grows, FindingsOK
  <1>8. StopOK' BY <1>0, <1>1, <1>2, <1>5 DEF StopOK
  <1>. QED BY <1>0, <1>7, <1>8, CallsKept, CommandsKept, TakingKept, KnownKept, AgentKept, ReportsKept DEF Grows

LEMMA TellStopSound ==
    ASSUME Sound, TellStop
    PROVE  Sound'
  <1>. USE DEF Sound, ServerOnly, agentVars, jobVars
  <1>0. UNCHANGED <<job, found, tried, reviewed, call, taking, known, active, event, worker, queue, flight,
                    progress, out, post, raised>>
    BY DEF TellStop
  <1>1. stop'.jobs = stop.jobs /\ stop' \in [at : {"idle", "told", "over"}, jobs : SUBSET Jobs] /\ stop'.at = "over"
    BY DEF TellStop, StopOK
  <1>2. Grows BY <1>0, <1>1 DEF Grows, JobsOK, FindingsOK, Begun
  <1>3. CommandsOK'
    <2>1. PICK order \in [1..Cardinality(stop.jobs) -> stop.jobs] :
             cmds' = cmds \o [i \in DOMAIN order |->
                        [type |-> "fp_review_stop", call |-> [Idle EXCEPT !.job = order[i]]]]
      BY DEF TellStop
    <2>2. Cardinality(stop.jobs) \in Nat
      <3>1. IsFiniteSet(Jobs) BY FS_Interval, ReviewAssumption DEF Jobs
      <3>. QED BY <3>1, FS_Subset, FS_CardinalityType DEF StopOK
    <2>. DEFINE told == [i \in DOMAIN order |-> [type |-> "fp_review_stop", call |-> [Idle EXCEPT !.job = order[i]]]]
    <2>3. \A i \in DOMAIN order : told[i] \in Command /\ told[i].type = "fp_review_stop" /\ told[i].call.job \in stop.jobs
      <3>1. ASSUME NEW i \in DOMAIN order
            PROVE  [Idle EXCEPT !.job = order[i]] \in CallType /\ [Idle EXCEPT !.job = order[i]].job = order[i]
        <4>1. order[i] \in Nat BY DEF StopOK, Jobs
        <4>. QED BY <4>1 DEF Idle, CallType
      <3>. QED BY <3>1 DEF Command
    <2>4. DOMAIN told = DOMAIN order /\ told \in Seq(Command)
      <3>1. told \in [1..Cardinality(stop.jobs) -> Command] BY <2>3
      <3>. QED BY <2>2, <3>1, Listed
    <2>5. cmds' = cmds \o told BY <2>1
    <2>. HIDE DEF told
    <2>6. /\ cmds' \in Seq(Command)
          /\ \A i \in DOMAIN cmds' : (i \in DOMAIN cmds /\ cmds'[i] = cmds[i]) \/ \E k \in DOMAIN told : cmds'[i] = told[k]
      <3>1. cmds \in Seq(Command) BY DEF CommandsOK
      <3>t. told \in Seq(Command) BY <2>4
      <3>2. cmds \o told \in Seq(Command) BY <3>1, <3>t, Joined
      <3>3. \A i \in DOMAIN (cmds \o told) :
               (i \in DOMAIN cmds /\ (cmds \o told)[i] = cmds[i]) \/ \E k \in DOMAIN told : (cmds \o told)[i] = told[k]
        BY <3>1, <3>t, Joined
      <3>. QED BY <2>5, <3>2, <3>3
    <2>. QED BY <1>0, <1>1, <2>3, <2>4, <2>5, <2>6 DEF CommandsOK, Dispatch, Begun
  <1>4. StopOK' BY <1>0, <1>1 DEF StopOK
  <1>. QED BY <1>0, <1>2, <1>3, <1>4, CallsKept, TakingKept, KnownKept, AgentKept, ReportsKept DEF Grows

(* A report names a job that exists and, as a result, an item that was     *)
(* reviewed.                                                               *)
LEMMA Messages ==
    ASSUME NEW msg \in Result \cup Finish
    PROVE  /\ msg.key[2] \in Begun
           /\ IF msg.key[1] = "finish" THEN msg.status \in {"complete", "error", "cancelled"}
              ELSE msg.key[3] \in tried
  BY DEF Result, Finish

LEMMA DeliverSound ==
    ASSUME Sound, Deliver
    PROVE  Sound'
  <1>. USE DEF Sound, Handles, agentVars
  <1>0. Still /\ UNCHANGED <<job, call, cmds, taking, known, active, event, worker, queue, flight, progress, raised>>
    BY DEF Deliver, Still
  <1>1. Grows BY <1>0, GrowsInPlace
  <1>2. StopOK' BY <1>0, StopKept
  <1>3. ReportsOK'
    <2>1. UNCHANGED <<Result, Finish, Begun>> BY <1>0 DEF Result, Finish, Begun, Still
    <2>2. out # <<>> /\ post = Nobody BY DEF Deliver
    <2>3. Head(out) \in Result \cup Finish /\ Tail(out) \in Seq(Result \cup Finish) BY <2>2 DEF ReportsOK
    <2>4. CASE Refuses(Head(out)) BY <1>0, <2>1, <2>2, <2>3, <2>4 DEF ReportsOK, Deliver
    <2>5. CASE ~Refuses(Head(out))
      <3>1. out' = out /\ post'.msg = Head(out) BY <2>5 DEF Deliver
      <3>. QED BY <1>0, <2>1, <2>2, <2>3, <3>1 DEF ReportsOK
    <2>. QED BY <2>4, <2>5
  <1>. QED BY <1>0, <1>1, <1>2, <1>3, CallsKept, CommandsKept, TakingKept, KnownKept, AgentKept DEF Grows

LEMMA WriteSound ==
    ASSUME Sound, Write
    PROVE  Sound'
  <1>. USE DEF Sound, Handles, agentVars
  <1>0. UNCHANGED <<found, tried, stop, call, cmds, taking, known, active, event, worker, queue, flight, progress, raised>>
    BY DEF Write
  <1>. DEFINE msg == post.msg
              j == msg.key[2]
  <1>1. post # Nobody /\ out # <<>> /\ msg \in Result \cup Finish BY DEF Write, ReportsOK
  <1>2. j \in Begun /\ j \in Jobs BY <1>1, Messages DEF Begun
  <1>3. FindingsOK'
    <2>1. reviewed' = reviewed \/ (msg.key[3] \in tried /\ reviewed' = reviewed \cup {msg.key[3]})
      BY <1>1, Messages DEF Write
    <2>. QED BY <1>0, <2>1 DEF FindingsOK
  <1>4. UNCHANGED job \/ \E s \in {"complete", "error"} \cup Running : Sets(j, s)
    <2>1. CASE msg.key[1] = "finish"
      <3>1. msg.status \in {"complete", "error", "cancelled"} BY <1>1, <2>1, Messages
      <3>. QED BY <2>1, <3>1 DEF Write
    <2>2. CASE msg.key[1] # "finish" BY <2>2 DEF Write, Running
    <2>. QED BY <2>1, <2>2
  <1>. DEFINE JobsKeep ==
              /\ JobsOK' /\ Begun \subseteq Begun'
              /\ \A i \in Jobs : job'[i].rev = job[i].rev
              /\ \A i \in Jobs : job'[i].status = "cancelled" => job[i].status = "cancelled"
  <1>5. JobsKeep
    <2>1. CASE UNCHANGED job BY <2>1 DEF JobsOK, Begun
    <2>2. ASSUME NEW s \in {"complete", "error"} \cup Running, Sets(j, s)
          PROVE  JobsKeep
      <3>1. /\ job' \in [Jobs -> [status : {"none", "complete", "error", "cancelled"} \cup Running, rev : Nat]]
            /\ \A i \in Jobs : job'[i].status = IF i = j THEN s ELSE job[i].status
            /\ \A i \in Jobs : job'[i].rev = job[i].rev
        BY <1>2, <2>2 DEF JobsOK, Sets
      <3>2. Begun' = Begun BY <1>2, <3>1 DEF Begun, Running
      <3>3. s # "cancelled" BY DEF Running
      <3>. QED BY <3>1, <3>2, <3>3 DEF JobsOK
    <2>. QED BY <1>4, <2>1, <2>2
  <1>6. Grows BY <1>0, <1>3, <1>5 DEF Grows, JobsOK
  <1>7. StopOK' BY <1>0, <1>5 DEF StopOK
  <1>8. ReportsOK'
    <2>1. Result \cup Finish \subseteq (Result \cup Finish)' BY <1>6 DEF Result, Finish, Grows
    <2>2. out' \in {out, Tail(out)} /\ post' = Nobody BY DEF Write
    <2>3. out' \in Seq(Result \cup Finish) BY <1>1, <2>2 DEF ReportsOK
    <2>4. out' \in Seq((Result \cup Finish)') BY <2>1, <2>3, SeqGrows
    <2>. QED BY <1>0, <1>6, <2>2, <2>4 DEF ReportsOK, Grows
  <1>. QED BY <1>0, <1>6, <1>7, <1>8, CallsKept, CommandsKept, TakingKept, KnownKept, AgentKept DEF Grows

LEMMA WriteProgressSound ==
    ASSUME Sound, NEW p \in progress, WriteProgress(p)
    PROVE  Sound'
  <1>. USE DEF Sound, Handles, agentVars
  <1>0. Still /\ UNCHANGED <<call, cmds, taking, known, active, event, worker, queue, flight, out, post, raised>>
    BY DEF WriteProgress, Still
  <1>1. p.job \in Begun /\ p.job \in Jobs BY DEF ReportsOK, Begun
  <1>2. Grows /\ \A i \in Jobs : job'[i].rev = job[i].rev
    BY <1>0, <1>1, SetsGrows DEF WriteProgress, Running
  <1>3. StopOK'
    <2>1. \A i \in Jobs : job'[i].status = "cancelled" => job[i].status = "cancelled"
      BY DEF WriteProgress, Sets, JobsOK
    <2>. QED BY <1>0, <2>1, StopKept
  <1>4. ReportsOK'
    <2>1. Result \cup Finish \subseteq (Result \cup Finish)' BY <1>2 DEF Result, Finish, Grows
    <2>2. out' \in Seq((Result \cup Finish)') BY <1>0, <2>1, SeqGrows DEF ReportsOK
    <2>3. progress' \subseteq progress BY DEF WriteProgress
    <2>. QED BY <1>0, <1>2, <2>1, <2>2, <2>3 DEF ReportsOK, Grows
  <1>. QED BY <1>0, <1>2, <1>3, <1>4, CallsKept, CommandsKept, TakingKept, KnownKept, AgentKept DEF Grows

-----------------------------------------------------------------------------
(* Layer 1: the Agent's steps.                                             *)

LEMMA KnowsSound ==
    ASSUME KnownOK, NEW j \in Jobs, NEW rev \in Nat, rev <= job[j].rev, Knows(j, rev), UNCHANGED job
    PROVE  KnownOK'
  <1>1. Highest(known[j], rev) \in Nat /\ Highest(known[j], rev) <= job[j].rev BY DEF KnownOK, Highest
  <1>. QED BY <1>1 DEF KnownOK, Knows

(* A step of the Agent changes the queue and the flights of one job.       *)
LEMMA OneJobSound ==
    ASSUME AgentOK, UNCHANGED <<found, job>>,
           active' \subseteq (Jobs \X Items), event' \in [Jobs -> [there : BOOLEAN, no : Nat]],
           worker' \in [Jobs -> WorkerType], \A i \in Jobs \ Begun : ~worker'[i].had,
           NEW j \in Jobs, NEW q \in Seq(EntryOf(j)), NEW F \in SUBSET FlightOf(j),
           j \notin Begun => q = <<>> /\ F = {},
           queue' = [queue EXCEPT ![j] = q], flight' = [flight EXCEPT ![j] = F]
    PROVE  AgentOK'
  <1>1. /\ DOMAIN queue' = Jobs /\ DOMAIN flight' = Jobs
        /\ queue' = [i \in Jobs |-> queue'[i]] /\ flight' = [i \in Jobs |-> flight'[i]]
        /\ \A i \in Jobs : queue'[i] = (IF i = j THEN q ELSE queue[i]) /\ flight'[i] = (IF i = j THEN F ELSE flight[i])
    BY DEF AgentOK
  <1>2. \A i \in Jobs : EntryOf(i)' = EntryOf(i) /\ FlightOf(i)' = FlightOf(i) BY DEF EntryOf, FlightOf
  <1>3. Begun' = Begun BY DEF Begun
  <1>4. \A i \in Jobs : queue[i] \in Seq(EntryOf(i)) /\ flight[i] \subseteq FlightOf(i) BY DEF AgentOK
  <1>5. \A i \in Jobs : queue'[i] \in Seq(EntryOf(i)) /\ flight'[i] \subseteq FlightOf(i) BY <1>1, <1>4
  <1>6. \A i \in Jobs : queue'[i] \in Seq(EntryOf(i)') /\ flight'[i] \subseteq FlightOf(i)' BY <1>2, <1>5
  <1>7. \A i \in Jobs \ Begun : queue'[i] = <<>> /\ flight'[i] = {} BY <1>1 DEF AgentOK
  <1>. QED BY <1>1, <1>3, <1>6, <1>7 DEF AgentOK

LEMMA UnchangedIsExcept ==
    ASSUME AgentOK, NEW j \in Jobs
    PROVE  /\ queue = [queue EXCEPT ![j] = queue[j]] /\ flight = [flight EXCEPT ![j] = flight[j]]
           /\ queue[j] \in Seq(EntryOf(j)) /\ flight[j] \in SUBSET FlightOf(j)
           /\ j \notin Begun => queue[j] = <<>> /\ flight[j] = {}
  BY DEF AgentOK

LEMMA NoItemSound ==
    ASSUME AgentOK, UNCHANGED <<found, job, queue, flight>>,
           active' \subseteq (Jobs \X Items), event' \in [Jobs -> [there : BOOLEAN, no : Nat]],
           worker' \in [Jobs -> WorkerType], \A i \in Jobs \ Begun : ~worker'[i].had
    PROVE  AgentOK'
  <1>1. \A i \in Jobs : EntryOf(i)' = EntryOf(i) /\ FlightOf(i)' = FlightOf(i) BY DEF EntryOf, FlightOf
  <1>. QED BY <1>1 DEF AgentOK, Begun

LEMMA EntersSound ==
    ASSUME AgentOK, NEW j \in Jobs, NEW v \in Items, Enters(j, v), UNCHANGED <<found, job, worker, queue, flight>>
    PROVE  AgentOK' /\ EventOf(j) \in {j} \X Nat
  <1>1. EventOf(j) = <<j, EventOf(j)[2]>> /\ EventOf(j)[2] \in Nat BY DEF EventOf, AgentOK
  <1>2. event' \in [Jobs -> [there : BOOLEAN, no : Nat]] BY <1>1 DEF AgentOK, Enters
  <1>3. active' \subseteq Jobs \X Items BY DEF AgentOK, Enters
  <1>4. worker' \in [Jobs -> WorkerType] /\ \A i \in Jobs \ Begun : ~worker'[i].had BY DEF AgentOK
  <1>5. AgentOK' BY <1>2, <1>3, <1>4, NoItemSound
  <1>. QED BY <1>1, <1>5

LEMMA JoinsSound ==
    ASSUME AgentOK, NEW j \in Jobs, j \in Begun, NEW v \in found, NEW ev \in {j} \X Nat, Joins(j, v, ev),
           UNCHANGED <<found, job, active, event, flight>>
    PROVE  AgentOK'
  <1>1. worker' \in [Jobs -> WorkerType] /\ \A i \in Jobs : worker'[i].had => worker[i].had
    <2>1. \A i \in Jobs : worker'[i] = worker[i] \/ worker'[i] = [Quiet EXCEPT !.at = "loop"]
      BY DEF Joins, Hires, AgentOK
    <2>2. [Quiet EXCEPT !.at = "loop"] \in WorkerType /\ ~[Quiet EXCEPT !.at = "loop"].had BY DEF Quiet, WorkerType
    <2>3. worker' = [i \in Jobs |-> worker'[i]] BY DEF Joins, Hires, AgentOK
    <2>. QED BY <2>1, <2>2, <2>3 DEF AgentOK
  <1>. DEFINE e == [item |-> v, ev |-> ev]
              q == Append(queue[j], e)
  <1>2. e \in EntryOf(j) BY DEF EntryOf
  <1>3. queue' = [queue EXCEPT ![j] = q] BY DEF Joins, AgentOK
  <1>4. q \in Seq(EntryOf(j))
    <2>1. queue[j] \in Seq(EntryOf(j)) BY DEF AgentOK
    <2>. HIDE DEF e
    <2>. QED BY <1>2, <2>1
  <1>5. \A i \in Jobs \ Begun : ~worker'[i].had BY <1>1 DEF AgentOK
  <1>6. active' \subseteq (Jobs \X Items) /\ event' \in [Jobs -> [there : BOOLEAN, no : Nat]] BY DEF AgentOK
  <1>7. flight' = [flight EXCEPT ![j] = flight[j]] /\ flight[j] \in SUBSET FlightOf(j) BY UnchangedIsExcept
  <1>. HIDE DEF q
  <1>. QED BY <1>1, <1>3, <1>4, <1>5, <1>6, <1>7, OneJobSound

LEMMA CalledBackSound ==
    ASSUME Sound, NEW v \in Items, CalledBack(v)
    PROVE  Sound'
  <1>. USE DEF Sound, jobVars
  <1>0. Still /\ UNCHANGED <<job, cmds, taking, worker, queue, flight, progress, out, post, raised>>
    BY DEF CalledBack, Still
  <1>1. Grows BY <1>0, GrowsInPlace
  <1>2. StopOK' BY <1>0, StopKept
  <1>. DEFINE j == call[v].job
  <1>3. /\ call[v] \in CallType /\ Dispatch(call[v]) /\ call[v].at = "acquired" /\ v \in Callers /\ v \in found
        /\ j \in Begun /\ j \in Jobs /\ call[v].rev \in Nat /\ call[v].rev <= job[j].rev
    BY DEF CalledBack, CallsOK, Callers, Dispatch, Begun, CallType
  <1>4. KnownOK' BY <1>0, <1>3, KnowsSound DEF CalledBack
  <1>. DEFINE Fits(x) == /\ x \in CallType
                         /\ \/ x.at = "over"
                            \/ x.at = "registering" /\ x.job = j /\ x.ev[1] = j /\ Dispatch(x)
  <1>5. AgentOK' /\ \E x : Fits(x) /\ call' = [call EXCEPT ![v] = x]
    <2>1. CASE Accepts(j, call[v].rev, v)
      <3>1. Enters(j, v) /\ call' = [call EXCEPT ![v].at = "registering", ![v].ev = EventOf(j)]
        BY <2>1 DEF CalledBack
      <3>2. AgentOK' /\ EventOf(j) \in {j} \X Nat BY <1>0, <1>3, <3>1, EntersSound DEF Still
      <3>. DEFINE x == [call[v] EXCEPT !.at = "registering", !.ev = EventOf(j)]
      <3>3. j \in Nat BY <1>3 DEF CallType
      <3>4. Fits(x) BY <1>3, <3>2, <3>3 DEF CallType, Dispatch
      <3>5. call' = [call EXCEPT ![v] = x] BY <1>3, <3>1 DEF CallsOK
      <3>. QED BY <3>2, <3>4, <3>5
    <2>2. CASE ~Accepts(j, call[v].rev, v)
      <3>1. UNCHANGED <<active, event>> /\ call' = [call EXCEPT ![v] = Over] BY <2>2 DEF CalledBack, Ignored
      <3>2. AgentOK' BY <1>0, <1>1, <3>1, AgentKept
      <3>3. Fits(Over) BY DEF Over, Idle, CallType
      <3>. QED BY <3>1, <3>2, <3>3
    <2>. QED BY <2>1, <2>2
  <1>6. CallsOK'
    <2>1. PICK x : Fits(x) /\ call' = [call EXCEPT ![v] = x] BY <1>5
    <2>2. call' \in [Callers -> CallType] /\ \A b \in Callers : call'[b] = IF b = v THEN x ELSE call[b]
      BY <1>3, <2>1 DEF CallsOK
    <2>3. \A b \in Callers : call[b] \in CallType BY DEF CallsOK
    <2>. QED BY <1>0, <1>3, <2>1, <2>2, <2>3 DEF CallsOK, Callers, Still, Dispatch, Begun
  <1>. QED BY <1>0, <1>1, <1>2, <1>4, <1>5, <1>6, CommandsKept, TakingKept, ReportsKept DEF Grows

LEMMA CallbackQueuesSound ==
    ASSUME Sound, NEW v \in Items, CallbackQueues(v)
    PROVE  Sound'
  <1>. USE DEF Sound, jobVars
  <1>0. Still /\ UNCHANGED <<job, cmds, taking, known, active, event, flight, progress, out, post, raised>>
    BY DEF CallbackQueues, Still
  <1>1. Grows BY <1>0, GrowsInPlace
  <1>2. StopOK' BY <1>0, StopKept
  <1>. DEFINE j == call[v].job
  <1>3. /\ call[v] \in CallType /\ v \in Callers /\ v \in found /\ j \in Begun /\ j \in Jobs
        /\ call[v].ev[1] = j
    BY DEF CallbackQueues, CallsOK, Callers, Dispatch, Begun
  <1>4. call[v].ev \in {j} \X Nat BY <1>3 DEF CallType
  <1>5. AgentOK' BY <1>0, <1>3, <1>4, JoinsSound DEF CallbackQueues, Still
  <1>6. CallsOK'
    <2>1. Over \in CallType /\ Over.at = "over" BY DEF Over, Idle, CallType
    <2>2. call' \in [Callers -> CallType] /\ \A b \in Callers : call'[b] = IF b = v THEN Over ELSE call[b]
      BY <2>1 DEF CallsOK, CallbackQueues
    <2>. QED BY <1>0, <1>3, <2>1, <2>2 DEF CallsOK, Callers, Still, Dispatch, Begun
  <1>. QED BY <1>0, <1>1, <1>2, <1>5, <1>6, CommandsKept, TakingKept, KnownKept, ReportsKept DEF Grows

LEMMA TakeReviewSound ==
    ASSUME Sound, TakeReview
    PROVE  Sound'
  <1>. USE DEF Sound, AgentOnly, jobVars, agentVars
  <1>0. Still /\ UNCHANGED <<job, call, active, event, worker, queue, flight, progress, out, post, raised>>
    BY DEF TakeReview, Still
  <1>1. Grows BY <1>0, GrowsInPlace
  <1>2. StopOK' BY <1>0, StopKept
  <1>3. cmds # <<>> /\ cmds \in Seq(Command) /\ Head(cmds).type = "fp_review" BY DEF TakeReview, CommandsOK
  <1>. DEFINE d == Head(cmds).call
  <1>4. d \in CallType /\ Dispatch(d)
    <2>1. Head(cmds) = cmds[1] /\ 1 \in DOMAIN cmds /\ cmds[1] \in Command BY <1>3
    <2>. QED BY <1>3, <2>1 DEF CommandsOK, Command
  <1>5. taking' \in CallType /\ taking'.at = "items" /\ taking'.job = d.job /\ taking'.rev = d.rev
        /\ taking'.items = d.items
    BY <1>4 DEF TakeReview, CallType
  <1>6. TakingOK' BY <1>0, <1>4, <1>5 DEF TakingOK, Dispatch, Still, Begun
  <1>7. KnownOK'
    <2>1. d.job \in Jobs /\ d.rev \in Nat /\ d.rev <= job[d.job].rev BY <1>4 DEF Dispatch, Begun, CallType
    <2>2. Knows(d.job, d.rev) BY <1>5 DEF TakeReview
    <2>. QED BY <1>0, <2>1, <2>2, KnowsSound
  <1>8. CommandsOK'
    <2>1. cmds' = Tail(cmds) BY DEF TakeReview
    <2>2. cmds' \in Seq(Command) /\ \A i \in DOMAIN cmds' : i + 1 \in DOMAIN cmds /\ cmds'[i] = cmds[i + 1]
      BY <1>3, <2>1
    <2>. QED BY <1>0, <2>2 DEF CommandsOK, Dispatch, Begun, Still
  <1>. QED BY <1>0, <1>1, <1>2, <1>6, <1>7, <1>8, CallsKept, AgentKept, ReportsKept DEF Grows

(* What is left of a command is the command still, with fewer items.       *)
LEMMA RestSound ==
    ASSUME TakingOK, taking # Free, NEW items \in SUBSET taking.items
    PROVE  /\ Rest(items) \in CallType
           /\ Rest(items) = Free \/ (Rest(items).at = "items" /\ Dispatch(Rest(items)))
  <1>1. CASE items = {} BY <1>1 DEF Rest, Free, Idle, CallType
  <1>2. CASE items # {} BY <1>2 DEF Rest, TakingOK, CallType, Dispatch
  <1>. QED BY <1>1, <1>2

LEMMA TakeItemSound ==
    ASSUME Sound, NEW v \in Items, TakeItem(v)
    PROVE  Sound'
  <1>. USE DEF Sound, AgentOnly, jobVars
  <1>0. Still /\ UNCHANGED <<job, call, cmds, worker, queue, flight, progress, out, post, raised>>
    BY DEF TakeItem, Still
  <1>1. Grows BY <1>0, GrowsInPlace
  <1>2. StopOK' BY <1>0, StopKept
  <1>. DEFINE j == taking.job
  <1>3. taking # Free BY DEF TakeItem, Free, Idle
  <1>4. /\ taking \in CallType /\ Dispatch(taking) /\ v \in found /\ j \in Jobs
        /\ taking.rev \in Nat /\ taking.rev <= job[j].rev
    BY <1>3 DEF TakeItem, TakingOK, Dispatch, CallType, Begun
  <1>5. KnownOK' BY <1>0, <1>4, KnowsSound DEF TakeItem
  <1>6. CASE Accepts(j, taking.rev, v)
    <2>1. /\ Enters(j, v)
          /\ taking' = [taking EXCEPT !.at = "registering", !.items = @ \ {v}, !.ev = EventOf(j), !.next = v]
      BY <1>6 DEF TakeItem
    <2>2. AgentOK' /\ EventOf(j) \in {j} \X Nat BY <1>0, <1>4, <2>1, EntersSound DEF Still
    <2>3. TakingOK'
      <3>1. /\ taking' \in CallType /\ taking'.at = "registering" /\ taking'.next = v /\ taking'.ev[1] = taking'.job
            /\ taking'.job = j /\ taking'.rev = taking.rev /\ taking'.items \subseteq taking.items
        BY <1>4, <2>1, <2>2 DEF CallType
      <3>. QED BY <1>0, <1>4, <3>1 DEF TakingOK, Dispatch, Still, Begun
    <2>. QED BY <1>0, <1>1, <1>2, <1>5, <2>2, <2>3, CallsKept, CommandsKept, ReportsKept DEF Grows
  <1>7. CASE ~Accepts(j, taking.rev, v)
    <2>1. taking' = Rest(taking.items \ {v}) /\ UNCHANGED <<active, event>> BY <1>7 DEF TakeItem, Ignored
    <2>2. TakingOK'
      <3>1. taking.items \ {v} \in SUBSET taking.items OBVIOUS
      <3>2. /\ taking' \in CallType
            /\ taking' = Free \/ (taking'.at = "items" /\ Dispatch(taking'))
        BY <1>3, <2>1, <3>1, RestSound
      <3>. QED BY <1>0, <3>2 DEF TakingOK, Dispatch, Still, Begun
    <2>3. AgentOK' BY <1>0, <1>1, <2>1, AgentKept
    <2>. QED BY <1>0, <1>1, <1>2, <1>5, <2>2, <2>3, CallsKept, CommandsKept, ReportsKept DEF Grows
  <1>. QED BY <1>6, <1>7

LEMMA QueueItemSound ==
    ASSUME Sound, QueueItem
    PROVE  Sound'
  <1>. USE DEF Sound, AgentOnly, jobVars
  <1>0. Still /\ UNCHANGED <<job, call, cmds, known, active, event, flight, progress, out, post, raised>>
    BY DEF QueueItem, Still
  <1>1. Grows BY <1>0, GrowsInPlace
  <1>2. StopOK' BY <1>0, StopKept
  <1>. DEFINE j == taking.job
  <1>3. taking # Free BY DEF QueueItem, Free, Idle
  <1>4. /\ taking \in CallType /\ Dispatch(taking) /\ j \in Jobs /\ j \in Begun /\ taking.next \in found
        /\ taking.ev \in {j} \X Nat
    BY <1>3 DEF QueueItem, TakingOK, Dispatch, CallType, Begun
  <1>5. AgentOK' BY <1>0, <1>4, JoinsSound DEF QueueItem, Still
  <1>6. TakingOK'
    <2>1. taking.items \in SUBSET taking.items OBVIOUS
    <2>2. taking' \in CallType /\ (taking' = Free \/ (taking'.at = "items" /\ Dispatch(taking')))
      BY <1>3, <2>1, RestSound DEF QueueItem
    <2>. QED BY <1>0, <2>2 DEF TakingOK, Dispatch, Still, Begun
  <1>. QED BY <1>0, <1>1, <1>2, <1>5, <1>6, CallsKept, CommandsKept, KnownKept, ReportsKept DEF Grows

LEMMA TakeStopSound ==
    ASSUME Sound, TakeStop
    PROVE  Sound'
  <1>. USE DEF Sound, AgentOnly, jobVars
  <1>0. Still /\ UNCHANGED <<job, call, taking, known, active, event, queue, flight, progress, out, post>>
    BY DEF TakeStop, Still
  <1>1. Grows BY <1>0, GrowsInPlace
  <1>2. cmds # <<>> /\ cmds \in Seq(Command) /\ Head(cmds).type = "fp_review_stop" BY DEF TakeStop, CommandsOK
  <1>. DEFINE j == Head(cmds).call.job
  <1>3. j \in stop.jobs /\ j \in Jobs
    <2>1. Head(cmds) = cmds[1] /\ 1 \in DOMAIN cmds BY <1>2
    <2>. QED BY <1>2, <2>1 DEF CommandsOK, StopOK
  <1>4. CommandsOK'
    <2>1. cmds' = Tail(cmds) BY DEF TakeStop
    <2>2. cmds' \in Seq(Command) /\ \A i \in DOMAIN cmds' : i + 1 \in DOMAIN cmds /\ cmds'[i] = cmds[i + 1]
      BY <1>2, <2>1
    <2>. QED BY <1>0, <2>2 DEF CommandsOK, Dispatch, Begun, Still
  <1>5. StopOK'
    <2>1. raised' \subseteq raised \cup {<<j, event[j].no>>} BY DEF TakeStop
    <2>. QED BY <1>0, <1>3, <2>1 DEF StopOK, Still
  <1>6. AgentOK'
    <2>1. worker' \in [Jobs -> WorkerType] /\ \A i \in Jobs : worker'[i].had => worker[i].had
      <3>1. Interrupted(j) BY DEF TakeStop
      <3>2. worker[j] \in WorkerType BY <1>3 DEF AgentOK
      <3>3. worker' = [worker EXCEPT ![j] = worker'[j]] BY <1>3, <3>1 DEF Interrupted, AgentOK
      <3>4. worker'[j] \in WorkerType /\ (worker'[j].had => worker[j].had)
        BY <1>3, <3>1, <3>2 DEF Interrupted, AgentOK, WorkerType, Quiet
      <3>. QED BY <1>3, <3>3, <3>4 DEF AgentOK
    <2>3. active' \subseteq (Jobs \X Items) /\ event' \in [Jobs -> [there : BOOLEAN, no : Nat]] BY <1>0 DEF AgentOK
    <2>4. \A i \in Jobs \ Begun : ~worker'[i].had BY <2>1 DEF AgentOK
    <2>. QED BY <1>0, <2>1, <2>3, <2>4, NoItemSound DEF Still
  <1>. QED BY <1>0, <1>1, <1>4, <1>5, <1>6, CallsKept, TakingKept, KnownKept, ReportsKept DEF Grows

(* A step of a worker is sound when what the worker holds is, and what it  *)
(* reports.                                                                *)
LEMMA WorkSound ==
    ASSUME Sound, AgentStep, UNCHANGED <<job, raised>>, AgentOK', tried \subseteq tried', tried' \subseteq found,
           progress' \subseteq [job : Begun, item : Items],
           out' \in Seq((Result \cup Finish)'), out # <<>> => out' # <<>>
    PROVE  Sound'
  <1>. USE DEF Sound, AgentStep
  <1>1. FindingsOK' BY DEF FindingsOK
  <1>2. JobsOK' /\ Begun' = Begun BY DEF JobsOK, Begun
  <1>3. Grows
    <2>1. \A j \in Jobs : job[j].rev <= job'[j].rev BY DEF JobsOK
    <2>. QED BY <1>1, <1>2, <2>1 DEF Grows
  <1>4. StopOK' BY DEF StopOK
  <1>5. ReportsOK' BY <1>2, <1>3 DEF ReportsOK, Result, Finish, Grows
  <1>. QED BY <1>1, <1>2, <1>3, <1>4, <1>5, CallsKept, CommandsKept, TakingKept, KnownKept

LEMMA ReportsSound ==
    ASSUME NEW M, out \in Seq(M), NEW msg \in M, Reports(msg)
    PROVE  out' \in Seq(M) /\ out' # <<>>
  <1>1. CASE Places(msg) = {}
    <2>1. out' = Append(out, msg) BY <1>1 DEF Reports
    <2>. QED BY <2>1
  <1>2. CASE Places(msg) # {}
    <2>1. out' = [i \in DOMAIN out |-> IF i \in Places(msg) THEN msg ELSE out[i]] BY <1>2 DEF Reports
    <2>2. out' \in [1..Len(out) -> M] BY <2>1
    <2>3. Len(out) # 0 BY <1>2 DEF Places
    <2>. QED BY <2>2, <2>3, Listed
  <1>. QED BY <1>1, <1>2

(* Nothing is reported, or one message more.                               *)
LEMMA OutSound ==
    ASSUME Sound, Begun' = Begun, tried \subseteq tried',
           UNCHANGED out \/ \E msg \in (Result \cup Finish)' : Reports(msg)
    PROVE  out' \in Seq((Result \cup Finish)') /\ (out # <<>> => out' # <<>>)
  <1>1. Result \cup Finish \subseteq (Result \cup Finish)' BY DEF Result, Finish
  <1>2. out \in Seq((Result \cup Finish)') BY <1>1, SeqGrows DEF Sound, ReportsOK
  <1>. QED BY <1>2, ReportsSound

(* The worker of a job whose items wait or run, or did, is one of a job    *)
(* that exists.                                                            *)
LEMMA WorkerSound ==
    ASSUME AgentOK, NEW j \in Jobs, NEW w \in WorkerType, worker' = [worker EXCEPT ![j] = w],
           w.had => j \in Begun
    PROVE  worker' \in [Jobs -> WorkerType] /\ \A i \in Jobs \ Begun : ~worker'[i].had
  BY DEF AgentOK

LEMMA FinishIsSound ==
    ASSUME Sound, UNCHANGED <<job, tried>>, NEW j \in Jobs, worker[j].had, NEW s \in {"complete", "error", "cancelled"}
    PROVE  [key |-> <<"finish", j>>, rev |-> known[j], status |-> s] \in (Result \cup Finish)'
  <1>1. j \in Begun /\ known[j] \in Nat BY DEF Sound, AgentOK, KnownOK
  <1>. QED BY <1>1 DEF Finish, Begun

LEMMA LaunchSound ==
    ASSUME Sound, NEW j \in Jobs, Launch(j)
    PROVE  Sound'
  <1>. USE DEF Sound
  <1>. DEFINE e == Head(queue[j])
              F == flight[j] \cup {[item |-> e.item, ev |-> e.ev, at |-> "new"]}
              q == Tail(queue[j])
              w == [worker[j] EXCEPT !.had = TRUE]
  <1>1. queue[j] \in Seq(EntryOf(j)) /\ queue[j] # <<>> BY DEF Launch, AgentOK
  <1>2. j \in Begun BY <1>1 DEF AgentOK
  <1>3. e \in EntryOf(j) /\ q \in Seq(EntryOf(j)) BY <1>1
  <1>4. F \in SUBSET FlightOf(j)
    <2>1. [item |-> e.item, ev |-> e.ev, at |-> "new"] \in FlightOf(j) BY <1>3 DEF EntryOf, FlightOf
    <2>. QED BY <2>1, UnchangedIsExcept
  <1>5. w \in WorkerType BY DEF AgentOK, WorkerType
  <1>6. queue' = [queue EXCEPT ![j] = q] /\ flight' = [flight EXCEPT ![j] = F] BY DEF Launch
  <1>7. worker' = [worker EXCEPT ![j] = w] BY DEF Launch, AgentOK
  <1>8. UNCHANGED <<found, job, active, event, raised, tried, out, progress>> /\ AgentStep BY DEF Launch, AgentStep
  <1>. HIDE DEF F, q, w
  <1>9. worker' \in [Jobs -> WorkerType] /\ \A i \in Jobs \ Begun : ~worker'[i].had BY <1>2, <1>5, <1>7, WorkerSound
  <1>10. AgentOK'
    <2>1. active' \subseteq (Jobs \X Items) /\ event' \in [Jobs -> [there : BOOLEAN, no : Nat]] BY <1>8 DEF AgentOK
    <2>. QED BY <1>2, <1>3, <1>4, <1>6, <1>8, <1>9, <2>1, OneJobSound DEF AgentStep
  <1>11. tried' \subseteq found /\ progress' \subseteq [job : Begun, item : Items] BY <1>8 DEF FindingsOK, ReportsOK
  <1>12. out' \in Seq((Result \cup Finish)') /\ (out # <<>> => out' # <<>>)
    <2>1. Begun' = Begun BY <1>8 DEF Begun
    <2>. QED BY <1>8, <2>1, OutSound
  <1>. QED BY <1>8, <1>10, <1>11, <1>12, WorkSound

(* Items that run move on, or are gone.                                    *)
LEMMA FlightsSound ==
    ASSUME AgentOK, UNCHANGED <<found, job, event, queue>>, active' \subseteq active,
           worker' \in [Jobs -> WorkerType], \A i \in Jobs \ Begun : ~worker'[i].had,
           NEW j \in Jobs, NEW F \in SUBSET FlightOf(j), flight[j] # {}, flight' = [flight EXCEPT ![j] = F]
    PROVE  AgentOK'
  <1>1. j \in Begun BY DEF AgentOK
  <1>2. queue' = [queue EXCEPT ![j] = queue[j]] /\ queue[j] \in Seq(EntryOf(j)) BY UnchangedIsExcept
  <1>3. active' \subseteq (Jobs \X Items) /\ event' \in [Jobs -> [there : BOOLEAN, no : Nat]] BY DEF AgentOK
  <1>. QED BY <1>1, <1>2, <1>3, OneJobSound

LEMMA MovedIsSound ==
    ASSUME AgentOK, NEW j \in Jobs, NEW f \in flight[j],
           NEW to \in {"new", "told", "success", "error", "cancelled"}
    PROVE  /\ f \in FlightOf(j) /\ [f EXCEPT !.at = to] \in FlightOf(j)
           /\ (flight[j] \ {f}) \cup {[f EXCEPT !.at = to]} \in SUBSET FlightOf(j)
  <1>1. f \in FlightOf(j) /\ flight[j] \in SUBSET FlightOf(j) BY UnchangedIsExcept
  <1>2. [f EXCEPT !.at = to] \in FlightOf(j) BY <1>1 DEF FlightOf
  <1>. QED BY <1>1, <1>2

LEMMA StartedSound ==
    ASSUME Sound, NEW j \in Jobs, NEW f \in flight[j], Started(j, f)
    PROVE  Sound'
  <1>. USE DEF Sound
  <1>. DEFINE F == (flight[j] \ {f}) \cup {[f EXCEPT !.at = "told"]}
  <1>1. UNCHANGED <<found, job, active, event, queue, raised, tried, worker, out>> /\ AgentStep
    BY DEF Started, AgentStep
  <1>2. F \in SUBSET FlightOf(j) /\ f \in FlightOf(j) BY MovedIsSound
  <1>3. flight' = [flight EXCEPT ![j] = F] BY DEF Started, Moves, AgentOK
  <1>4. AgentOK' BY <1>1, <1>2, <1>3, FlightsSound DEF AgentOK
  <1>5. progress' \subseteq [job : Begun, item : Items]
    <2>1. j \in Begun /\ f.item \in Items BY <1>2 DEF AgentOK, FlightOf, FindingsOK
    <2>. QED BY <2>1 DEF Started, ReportsOK
  <1>6. out' \in Seq((Result \cup Finish)') /\ (out # <<>> => out' # <<>>) BY <1>1, OutSound DEF Begun
  <1>. QED BY <1>1, <1>4, <1>5, <1>6, WorkSound DEF FindingsOK

LEMMA ReviewedSound ==
    ASSUME Sound, NEW j \in Jobs, NEW f \in flight[j], NEW outcome \in Outcomes, Reviewed(j, f, outcome)
    PROVE  Sound'
  <1>. USE DEF Sound
  <1>. DEFINE F == (flight[j] \ {f}) \cup {[f EXCEPT !.at = outcome]}
              msg == [key |-> <<"result", j, f.item>>, rev |-> known[j], status |-> "running"]
  <1>1. UNCHANGED <<found, job, event, queue, raised, worker, progress>> /\ AgentStep
    BY DEF Reviewed, AgentStep
  <1>2. F \in SUBSET FlightOf(j) /\ f \in FlightOf(j) BY MovedIsSound DEF Outcomes
  <1>3. flight' = [flight EXCEPT ![j] = F] BY DEF Reviewed, Moves, AgentOK
  <1>4. active' \subseteq active BY DEF Reviewed
  <1>5. AgentOK' BY <1>1, <1>2, <1>3, <1>4, FlightsSound DEF AgentOK
  <1>6. tried' = tried \cup {f.item} /\ f.item \in found BY <1>2 DEF Reviewed, FlightOf
  <1>7. Begun' = Begun /\ j \in Begun BY <1>1 DEF Begun, AgentOK
  <1>8. out' \in Seq((Result \cup Finish)') /\ (out # <<>> => out' # <<>>)
    <2>1. msg \in Result'
      <3>1. known[j] \in Nat BY DEF KnownOK
      <3>. QED BY <1>6, <1>7, <3>1 DEF Result
    <2>2. UNCHANGED out \/ Reports(msg) BY DEF Reviewed
    <2>. HIDE DEF msg
    <2>. QED BY <1>6, <1>7, <2>1, <2>2, OutSound
  <1>. QED BY <1>1, <1>5, <1>6, <1>8, WorkSound DEF FindingsOK, ReportsOK

LEMMA CollectSound ==
    ASSUME Sound, NEW j \in Jobs, NEW f \in flight[j], Collect(j, f)
    PROVE  Sound'
  <1>. USE DEF Sound
  <1>. DEFINE F == flight[j] \ {f}
  <1>1. UNCHANGED <<found, job, active, event, queue, raised, tried, out, progress>> /\ AgentStep
    BY DEF Collect, AgentStep
  <1>2. F \in SUBSET FlightOf(j) BY UnchangedIsExcept
  <1>3. flight' = [flight EXCEPT ![j] = F] BY DEF Collect, AgentOK
  <1>4. worker[j] \in WorkerType /\ j \in Begun BY DEF AgentOK
  <1>5. /\ worker' = [worker EXCEPT ![j] = worker'[j]] /\ worker'[j] \in WorkerType
    BY <1>4 DEF Collect, AgentOK, WorkerType
  <1>6. worker' \in [Jobs -> WorkerType] /\ \A i \in Jobs \ Begun : ~worker'[i].had BY <1>4, <1>5, WorkerSound
  <1>7. AgentOK' BY <1>1, <1>2, <1>3, <1>6, FlightsSound
  <1>8. out' \in Seq((Result \cup Finish)') /\ (out # <<>> => out' # <<>>) BY <1>1, OutSound DEF Begun
  <1>. QED BY <1>1, <1>7, <1>8, WorkSound DEF FindingsOK, ReportsOK

LEMMA CancelItemSound ==
    ASSUME Sound, NEW j \in Jobs, NEW f \in flight[j], CancelItem(j, f)
    PROVE  Sound'
  <1>. USE DEF Sound
  <1>. DEFINE F == flight[j] \ {f}
  <1>1. UNCHANGED <<found, job, event, queue, raised, tried, worker, out, progress>> /\ AgentStep
    BY DEF CancelItem, AgentStep
  <1>2. F \in SUBSET FlightOf(j) BY UnchangedIsExcept
  <1>3. flight' = [flight EXCEPT ![j] = F] BY DEF CancelItem, AgentOK
  <1>4. active' \subseteq active BY DEF CancelItem
  <1>5. AgentOK' BY <1>1, <1>2, <1>3, <1>4, FlightsSound DEF AgentOK
  <1>6. out' \in Seq((Result \cup Finish)') /\ (out # <<>> => out' # <<>>) BY <1>1, OutSound DEF Begun
  <1>. QED BY <1>1, <1>5, <1>6, WorkSound DEF FindingsOK, ReportsOK

LEMMA WindsUpSound ==
    ASSUME Sound, NEW j \in Jobs, WindsUp(j)
    PROVE  Sound'
  <1>. USE DEF Sound
  <1>1. UNCHANGED <<found, job, active, event, queue, flight, raised, tried, progress>> /\ AgentStep
    BY DEF WindsUp, AgentStep
  <1>2. worker[j] \in WorkerType /\ Len(queue[j]) \in Nat BY DEF AgentOK
  <1>3. /\ worker' = [worker EXCEPT ![j] = worker'[j]] /\ worker'[j] \in WorkerType
        /\ worker'[j].had = worker[j].had
    <2>1. CASE Ending(j) = "cancelled"
      <3>. DEFINE w == [worker[j] EXCEPT !.at = "clearing", !.ends = "cancelled", !.size = Len(queue[j])]
      <3>1. worker' = [worker EXCEPT ![j] = w] BY <2>1 DEF WindsUp, AgentOK
      <3>2. w \in WorkerType /\ w.had = worker[j].had BY <1>2 DEF WorkerType
      <3>. QED BY <3>1, <3>2 DEF AgentOK
    <2>2. CASE Ending(j) # "cancelled"
      <3>. DEFINE w == [worker[j] EXCEPT !.at = "finishing"]
      <3>1. worker' = [worker EXCEPT ![j] = w] BY <2>2 DEF WindsUp, AgentOK
      <3>2. w \in WorkerType /\ w.had = worker[j].had BY <1>2 DEF WorkerType
      <3>. QED BY <3>1, <3>2 DEF AgentOK
    <2>. QED BY <2>1, <2>2
  <1>4. worker' \in [Jobs -> WorkerType] /\ \A i \in Jobs \ Begun : ~worker'[i].had
    BY <1>3, WorkerSound DEF AgentOK
  <1>5. AgentOK'
    <2>1. active' \subseteq (Jobs \X Items) /\ event' \in [Jobs -> [there : BOOLEAN, no : Nat]] BY <1>1 DEF AgentOK
    <2>. QED BY <1>1, <1>4, <2>1, NoItemSound
  <1>6. out' \in Seq((Result \cup Finish)') /\ (out # <<>> => out' # <<>>)
    <2>1. Ending(j) \in {"complete", "error", "cancelled"} BY <1>2 DEF Ending, WorkerType
    <2>2. UNCHANGED out \/ (worker[j].had /\ Reports([key |-> <<"finish", j>>, rev |-> known[j], status |-> Ending(j)]))
      BY DEF WindsUp
    <2>3. UNCHANGED out \/ \E msg \in (Result \cup Finish)' : Reports(msg) BY <1>1, <2>1, <2>2, FinishIsSound
    <2>4. Begun' = Begun BY <1>1 DEF Begun
    <2>. QED BY <1>1, <2>3, <2>4, OutSound
  <1>. QED BY <1>1, <1>5, <1>6, WorkSound DEF FindingsOK, ReportsOK

LEMMA ClearSound ==
    ASSUME Sound, NEW j \in Jobs, Clear(j)
    PROVE  Sound'
  <1>. USE DEF Sound
  <1>1. UNCHANGED <<found, job, event, flight, raised, tried, progress>> /\ AgentStep
    BY DEF Clear, AgentStep
  <1>2. worker[j] \in WorkerType BY DEF AgentOK
  <1>3. /\ worker' = [worker EXCEPT ![j] = worker'[j]] /\ worker'[j] \in WorkerType
        /\ worker'[j].had => worker[j].had
    <2>1. PICK w \in {Quiet, [worker[j] EXCEPT !.cleared = worker[j].cleared + 1], [worker[j] EXCEPT !.at = "finishing"]} :
             worker' = [worker EXCEPT ![j] = w]
      BY DEF Clear, AgentOK
    <2>2. w \in WorkerType /\ (w.had => worker[j].had)
      <3>1. Quiet \in WorkerType /\ ~Quiet.had BY DEF Quiet, WorkerType
      <3>2. \A x \in {[worker[j] EXCEPT !.cleared = worker[j].cleared + 1], [worker[j] EXCEPT !.at = "finishing"]} :
               x \in WorkerType /\ x.had = worker[j].had
        BY <1>2 DEF WorkerType
      <3>. QED BY <3>1, <3>2
    <2>. QED BY <2>1, <2>2 DEF AgentOK
  <1>4. worker' \in [Jobs -> WorkerType] /\ \A i \in Jobs \ Begun : ~worker'[i].had
    BY <1>3, WorkerSound DEF AgentOK
  <1>5. active' \subseteq (Jobs \X Items) /\ event' \in [Jobs -> [there : BOOLEAN, no : Nat]]
    BY <1>1 DEF AgentOK, Clear
  <1>6. AgentOK'
    <2>1. queue' = queue \/ queue' = [queue EXCEPT ![j] = <<>>] BY DEF Clear
    <2>2. CASE queue' = queue BY <1>1, <1>4, <1>5, <2>2, NoItemSound
    <2>3. CASE queue' = [queue EXCEPT ![j] = <<>>]
      <3>1. <<>> \in Seq(EntryOf(j)) OBVIOUS
      <3>2. flight' = [flight EXCEPT ![j] = flight[j]] /\ flight[j] \in SUBSET FlightOf(j)
            /\ (j \notin Begun => flight[j] = {})
        BY <1>1, UnchangedIsExcept
      <3>. QED BY <1>1, <1>4, <1>5, <2>3, <3>1, <3>2, OneJobSound
    <2>. QED BY <2>1, <2>2, <2>3
  <1>7. out' \in Seq((Result \cup Finish)') /\ (out # <<>> => out' # <<>>)
    <2>1. UNCHANGED out \/ (worker[j].had /\ Reports([key |-> <<"finish", j>>, rev |-> known[j], status |-> "cancelled"]))
      BY DEF Clear
    <2>2. UNCHANGED out \/ \E msg \in (Result \cup Finish)' : Reports(msg) BY <1>1, <2>1, FinishIsSound
    <2>3. Begun' = Begun BY <1>1 DEF Begun
    <2>. QED BY <1>1, <2>2, <2>3, OutSound
  <1>. QED BY <1>1, <1>6, <1>7, WorkSound DEF FindingsOK, ReportsOK

LEMMA LeavesSound ==
    ASSUME Sound, NEW j \in Jobs, Leaves(j)
    PROVE  Sound'
  <1>. USE DEF Sound
  <1>1. UNCHANGED <<found, job, active, queue, flight, raised, tried, out, progress>> /\ AgentStep
    BY DEF Leaves, AgentStep
  <1>2. /\ worker' = [worker EXCEPT ![j] = worker'[j]] /\ worker'[j] \in WorkerType
        /\ ~worker'[j].had
    BY DEF Leaves, AgentOK, WorkerType, Quiet
  <1>3. worker' \in [Jobs -> WorkerType] /\ \A i \in Jobs \ Begun : ~worker'[i].had
    BY <1>2, WorkerSound DEF AgentOK
  <1>4. active' \subseteq (Jobs \X Items) /\ event' \in [Jobs -> [there : BOOLEAN, no : Nat]]
    BY <1>1 DEF AgentOK, Leaves
  <1>5. AgentOK' BY <1>1, <1>3, <1>4, NoItemSound
  <1>6. out' \in Seq((Result \cup Finish)') /\ (out # <<>> => out' # <<>>) BY <1>1, OutSound DEF Begun
  <1>. QED BY <1>1, <1>5, <1>6, WorkSound DEF FindingsOK, ReportsOK

LEMMA StutterSound ==
    ASSUME Sound, UNCHANGED vars
    PROVE  Sound'
  <1>. USE DEF Sound, vars, jobVars, agentVars
  <1>1. Grows BY GrowsInPlace DEF Still
  <1>. QED BY <1>1, StopKept, CallsKept, CommandsKept, TakingKept, KnownKept, AgentKept, ReportsKept
       DEF Grows, Still

LEMMA NextSound ==
    ASSUME Sound, [Next]_vars
    PROVE  Sound'
  <1>1. ASSUME NEW v \in Items, Report(v) PROVE Sound' BY <1>1, ReportSound
  <1>2. CASE StopReviews BY <1>2, StopReviewsSound
  <1>3. CASE Server
    <2>1. ASSUME NEW c \in Callers, Ensure(c) \/ Acquire(c) \/ Send(c) PROVE Sound'
      BY <2>1, EnsureSound, AcquireSound, SendSound
    <2>. QED BY <1>3, <2>1, TellStopSound, DeliverSound, WriteSound, WriteProgressSound DEF Server
  <1>4. CASE Enqueuers
    BY <1>4, CalledBackSound, CallbackQueuesSound, TakeItemSound, TakeReviewSound, QueueItemSound, TakeStopSound
    DEF Enqueuers
  <1>5. ASSUME NEW j \in Jobs, Work(j) PROVE Sound'
    BY <1>5, LaunchSound, WindsUpSound, ClearSound, LeavesSound, StartedSound, CollectSound, CancelItemSound,
       ReviewedSound
    DEF Work
  <1>. QED BY <1>1, <1>2, <1>3, <1>4, <1>5, StutterSound DEF Next

LEMMA SoundIsTyped ==
    ASSUME Sound
    PROVE  TypeOK
  <1>. USE DEF Sound
  <1>1. Begun = 1..Latest BY BegunAreFirst
  <1>2. taking \in CallType BY DEF TakingOK
  <1>3. \A c \in Callers : call[c].at \in {"ensured", "acquired", "registering"} => call[c].job \in 1..Latest
    BY <1>1 DEF CallsOK, Dispatch
  <1>4. ASSUME NEW j \in Jobs
        PROVE  /\ \A i \in DOMAIN queue[j] : queue[j][i].item \in found /\ queue[j][i].ev[1] = j
               /\ \A f \in flight[j] : f \in FlightType /\ f.item \in found /\ f.ev[1] = j
    <2>1. \A i \in DOMAIN queue[j] : queue[j][i] \in EntryOf(j) BY DEF AgentOK
    <2>2. \A f \in flight[j] : f \in FlightOf(j) BY DEF AgentOK
    <2>3. j \in Nat BY DEF Jobs
    <2>4. \A f \in FlightOf(j) : f \in FlightType /\ f.item \in found /\ f.ev[1] = j
      BY <2>3 DEF FlightOf, FlightType, FindingsOK
    <2>. QED BY <2>1, <2>2, <2>4 DEF EntryOf
  <1>. QED BY <1>2, <1>3, <1>4 DEF TypeOK, JobsOK, FindingsOK, CallsOK, KnownOK, AgentOK

(* The first layer holds of every state: what the variables name exists,   *)
(* and the Agent's revisions and events fit those of the server.           *)
THEOREM SoundInvariant == Spec => []Sound
  <1>1. Init => Sound BY InitSound
  <1>2. Sound /\ [Next]_vars => Sound' BY NextSound
  <1>. QED BY <1>1, <1>2, PTL DEF Spec

(* A dispatch, a queued item, a running review and a report only name jobs *)
(* and findings that exist, an item carries the event of its own job, and  *)
(* the Agent is never ahead of the revision the server gave: whatever      *)
(* stops, refusals and lost progress reports come between.                 *)
THEOREM Types == Spec => []TypeOK
  <1>1. Sound => TypeOK BY SoundIsTyped
  <1>. QED BY <1>1, SoundInvariant, PTL

-----------------------------------------------------------------------------
(* Layer 2: the server's steps, and those for other jobs, leave it alone.  *)

SameItems(j) ==
    /\ queue'[j] = queue[j] /\ flight'[j] = flight[j] /\ worker'[j] = worker[j]
    /\ \A v \in Items : <<j, v>> \in active' <=> <<j, v>> \in active

SameRegistering(j) ==
    \A v \in Items : (RegCall(j, v)' <=> RegCall(j, v)) /\ (RegTake(j, v)' <=> RegTake(j, v))

LEMMA TracksKept ==
    ASSUME NEW j \in Jobs, Tracks(j), SameItems(j), SameRegistering(j)
    PROVE  Tracks(j)'
  <1>1. WorkerOK(j)' /\ Single(j)' BY DEF Tracks, SameItems, WorkerOK, Single, Ended
  <1>2. ASSUME NEW v \in Items PROVE Where(j, v)'
    <2>1. (InQueue(j, v)' <=> InQueue(j, v)) /\ (InFlight(j, v)' <=> InFlight(j, v))
      BY DEF SameItems, InQueue, InFlight, Ended
    <2>2. (RegCall(j, v)' <=> RegCall(j, v)) /\ (RegTake(j, v)' <=> RegTake(j, v))
      BY DEF SameRegistering
    <2>3. (<<j, v>> \in active') <=> <<j, v>> \in active BY DEF SameItems
    <2>4. (Registering(j, v) <=> RegCall(j, v) \/ RegTake(j, v)) /\ (Registering(j, v)' <=> RegCall(j, v)' \/ RegTake(j, v)')
      BY DEF Registering, RegCall, RegTake
    <2>5. Where(j, v) BY DEF Tracks
    <2>. QED BY <2>1, <2>2, <2>3, <2>4, <2>5 DEF Where
  <1>. QED BY <1>1, <1>2 DEF Tracks

LEMMA ServerTracked ==
    ASSUME Tracked, UNCHANGED <<taking, active, queue, flight, worker>>, stop.jobs \subseteq stop'.jobs,
           \A v \in Items : call'[v].at = "registering" \/ call[v].at = "registering" => call'[v] = call[v]
    PROVE  Tracked'
  <1>1. ASSUME NEW j \in Jobs \ stop'.jobs PROVE Tracks(j)'
    <2>1. SameItems(j) BY DEF SameItems
    <2>2. SameRegistering(j) BY DEF SameRegistering, RegCall, RegTake
    <2>3. Tracks(j) BY DEF Tracked
    <2>. QED BY <2>1, <2>2, <2>3, TracksKept
  <1>. QED BY <1>1 DEF Tracked

(* Steps that concern one job.                                             *)
LEMMA OneJobTracked ==
    ASSUME Tracked, UNCHANGED stop, NEW j \in Jobs,
           \A i \in Jobs \ {j} : SameItems(i) /\ SameRegistering(i),
           j \notin stop.jobs => Tracks(j)'
    PROVE  Tracked'
  BY TracksKept DEF Tracked

LEMMA ServerStepsTracked ==
    ASSUME Sound, Tracked,
           \/ \E v \in Items : Report(v)
           \/ StopReviews \/ Server
    PROVE  Tracked'
  <1>. USE DEF ServerOnly, Handles, agentVars, jobVars
  <1>t. \A c \in Callers : call[c] \in CallType /\ call \in [Callers -> CallType] BY DEF Sound, CallsOK
  <1>v. Items \subseteq Callers BY DEF Callers
  <1>o. Over.at = "over" BY DEF Over, Idle
  <1>1. ASSUME NEW v \in Items, Report(v) PROVE Tracked'
    <2>1. \A b \in Items : call'[b].at = "registering" \/ call[b].at = "registering" => call'[b] = call[b]
      BY <1>1, <1>t, <1>v DEF Report, CallType
    <2>. QED BY <1>1, <2>1, ServerTracked DEF Report
  <1>2. CASE StopReviews
    <2>1. stop.jobs = {} BY <1>2 DEF StopReviews, Sound, StopOK
    <2>2. \A b \in Items : call'[b] = call[b] BY <1>2 DEF StopReviews
    <2>. QED BY <1>2, <2>1, <2>2, ServerTracked DEF StopReviews
  <1>3. ASSUME NEW c \in Callers, Ensure(c) PROVE Tracked'
    <2>1. call[c].at # "registering" BY <1>3 DEF Ensure, Asks
    <2>2. \E x : x.at # "registering" /\ call' = [call EXCEPT ![c] = x] BY <1>3, <1>o DEF Ensure
    <2>3. \A b \in Items : call'[b].at = "registering" \/ call[b].at = "registering" => call'[b] = call[b]
      BY <1>t, <1>v, <2>1, <2>2
    <2>. QED BY <1>3, <2>3, ServerTracked DEF Ensure
  <1>4. ASSUME NEW c \in Callers, Acquire(c) PROVE Tracked'
    <2>1. \A b \in Items : call'[b].at = "registering" \/ call[b].at = "registering" => call'[b] = call[b]
      BY <1>4, <1>t, <1>v DEF Acquire, CallType
    <2>. QED BY <1>4, <2>1, ServerTracked DEF Acquire
  <1>5. ASSUME NEW c \in Callers, Send(c) PROVE Tracked'
    <2>1. \A b \in Items : call'[b].at = "registering" \/ call[b].at = "registering" => call'[b] = call[b]
      BY <1>5, <1>t, <1>v, <1>o DEF Send
    <2>. QED BY <1>5, <2>1, ServerTracked DEF Send
  <1>6. CASE TellStop
    <2>1. stop'.jobs = stop.jobs BY <1>6 DEF TellStop, Sound, StopOK
    <2>. QED BY <1>6, <2>1, ServerTracked DEF TellStop
  <1>7. CASE Deliver BY <1>7, ServerTracked DEF Deliver
  <1>8. CASE Write BY <1>8, ServerTracked DEF Write
  <1>9. ASSUME NEW p \in progress, WriteProgress(p) PROVE Tracked' BY <1>9, ServerTracked DEF WriteProgress
  <1>. QED BY <1>1, <1>2, <1>3, <1>4, <1>5, <1>6, <1>7, <1>8, <1>9 DEF Server

-----------------------------------------------------------------------------
(* Layer 2: the steps that queue an item.                                  *)

LEMMA RegisteringIs ==
    ASSUME NEW j, NEW v
    PROVE  /\ Registering(j, v) <=> RegCall(j, v) \/ RegTake(j, v)
           /\ Registering(j, v)' <=> RegCall(j, v)' \/ RegTake(j, v)'
  BY DEF Registering, RegCall, RegTake

(* An item that is not active enters, and is being registered.             *)
LEMMA EntersTracked ==
    ASSUME Tracked, UNCHANGED <<stop, queue, flight, worker>>, NEW j \in Jobs, NEW v \in Items,
           <<j, v>> \notin active, active' = active \cup {<<j, v>>},
           \A i \in Jobs, w \in Items : <<i, w>> # <<j, v>> => (Registering(i, w)' <=> Registering(i, w)),
           \A i \in Jobs, w \in Items : <<i, w>> # <<j, v>> =>
              (RegCall(i, w)' /\ RegTake(i, w)' => RegCall(i, w) /\ RegTake(i, w)),
           Registering(j, v)',
           ~Registering(j, v) => ~(RegCall(j, v)' /\ RegTake(j, v)')
    PROVE  Tracked'
  <1>1. ASSUME NEW i \in Jobs \ stop.jobs PROVE Tracks(i)'
    <2>1. Tracks(i) BY DEF Tracked
    <2>2. WorkerOK(i)' /\ Single(i)' BY <2>1 DEF Tracks, WorkerOK, Single, Ended
    <2>3. ASSUME NEW w \in Items PROVE Where(i, w)'
      <3>1. Where(i, w) BY <2>1 DEF Tracks
      <3>2. (InQueue(i, w)' <=> InQueue(i, w)) /\ (InFlight(i, w)' <=> InFlight(i, w))
        BY DEF InQueue, InFlight, Ended
      <3>3. CASE <<i, w>> = <<j, v>>
        <4>1. i = j /\ w = v BY <3>3
        <4>2. ~Registering(j, v) /\ ~InQueue(j, v) /\ ~InFlight(j, v) BY <3>1, <4>1 DEF Where
        <4>. QED BY <3>2, <4>1, <4>2 DEF Where
      <3>4. CASE <<i, w>> # <<j, v>>
        <4>1. (<<i, w>> \in active') <=> <<i, w>> \in active BY <3>4
        <4>2. Registering(i, w)' <=> Registering(i, w) BY <3>4
        <4>3. RegCall(i, w)' /\ RegTake(i, w)' => RegCall(i, w) /\ RegTake(i, w) BY <3>4
        <4>. QED BY <3>1, <3>2, <4>1, <4>2, <4>3 DEF Where
      <3>. QED BY <3>3, <3>4
    <2>. QED BY <2>2, <2>3 DEF Tracks
  <1>. QED BY <1>1 DEF Tracked

(* A registered item is queued, and has a worker.                          *)
LEMMA JoinsTracked ==
    ASSUME Sound, Tracked, UNCHANGED <<stop, active, flight>>, NEW j \in Jobs, NEW v \in Items, v \in found,
           NEW ev \in {j} \X Nat, Joins(j, v, ev), Registering(j, v),
           \A i \in Jobs, w \in Items : <<i, w>> # <<j, v>> =>
              (RegCall(i, w)' <=> RegCall(i, w)) /\ (RegTake(i, w)' <=> RegTake(i, w)),
           j \notin stop.jobs => ~Registering(j, v)'
    PROVE  Tracked'
  <1>. DEFINE e == [item |-> v, ev |-> ev]
  <1>1. /\ queue' = [queue EXCEPT ![j] = Append(queue[j], e)]
        /\ worker' = [worker EXCEPT ![j] = IF worker[j].at = "gone" THEN [Quiet EXCEPT !.at = "loop"] ELSE worker[j]]
        /\ DOMAIN queue = Jobs /\ DOMAIN worker = Jobs
    BY DEF Joins, Hires, Sound, AgentOK
  <1>2. ASSUME NEW i \in Jobs \ {j} PROVE SameItems(i) /\ SameRegistering(i)
    <2>1. SameItems(i) BY <1>1 DEF SameItems
    <2>2. \A w \in Items : <<i, w>> # <<j, v>> OBVIOUS
    <2>. QED BY <2>1, <2>2 DEF SameRegistering
  <1>3. ASSUME j \notin stop.jobs PROVE Tracks(j)'
    <2>1. Tracks(j) BY <1>3 DEF Tracked
    <2>2. ~InQueue(j, v) /\ ~InFlight(j, v) /\ <<j, v>> \in active BY <2>1 DEF Tracks, Where
    <2>3. queue[j] \in Seq(EntryOf(j)) BY DEF Sound, AgentOK
    <2>. DEFINE n == Len(queue[j])
    <2>4. /\ queue'[j] = Append(queue[j], e) /\ DOMAIN queue'[j] = 1..(n + 1) /\ n \in Nat
          /\ DOMAIN queue[j] = 1..n
          /\ \A k \in 1..n : queue'[j][k] = queue[j][k]
          /\ queue'[j][n + 1] = e
      <3>1. queue'[j] = Append(queue[j], e) BY <1>1
      <3>2. e \in EntryOf(j) BY DEF EntryOf
      <3>. HIDE DEF e
      <3>. QED BY <2>3, <3>1, <3>2
    <2>5. \A k \in 1..n : queue[j][k].item # v BY <2>2, <2>4 DEF InQueue
    <2>6. \A k \in DOMAIN queue'[j] : queue'[j][k].item = IF k \in 1..n THEN queue[j][k].item ELSE v
      BY <2>4
    <2>7. \A w \in Items : InQueue(j, w)' <=> InQueue(j, w) \/ w = v
      BY <2>4, <2>6 DEF InQueue
    <2>8. \A w \in Items : InFlight(j, w)' <=> InFlight(j, w) BY DEF InFlight, Ended
    <2>9. Single(j)'
      <3>1. Single(j) BY <2>1 DEF Tracks
      <3>2. ASSUME NEW k \in DOMAIN queue'[j], NEW m \in DOMAIN queue'[j], queue'[j][k].item = queue'[j][m].item
            PROVE  k = m
        BY <2>4, <2>5, <2>6, <3>1, <3>2 DEF Single
      <3>. QED BY <3>1, <3>2 DEF Single, Ended
    <2>10. WorkerOK(j)'
      <3>1. WorkerOK(j) BY <2>1 DEF Tracks
      <3>2. worker'[j] = IF worker[j].at = "gone" THEN [Quiet EXCEPT !.at = "loop"] ELSE worker[j] BY <1>1
      <3>3. /\ worker'[j].at \in {"loop", "finishing"} /\ worker'[j].ends = "complete" /\ ~worker'[j].cancelled
            /\ worker'[j].at # "loop" => flight[j] = {}
        BY <3>1, <3>2 DEF WorkerOK, Quiet
      <3>. QED BY <3>1, <3>3 DEF WorkerOK
    <2>11. ASSUME NEW w \in Items PROVE Where(j, w)'
      <3>1. Where(j, w) BY <2>1 DEF Tracks
      <3>2. CASE w = v BY <1>3, <2>2, <2>7, <2>8, <3>2, RegisteringIs DEF Where
      <3>3. CASE w # v
        <4>1. (RegCall(j, w)' <=> RegCall(j, w)) /\ (RegTake(j, w)' <=> RegTake(j, w)) BY <3>3
        <4>. QED BY <2>7, <2>8, <3>1, <3>3, <4>1, RegisteringIs DEF Where
      <3>. QED BY <3>2, <3>3
    <2>. QED BY <2>9, <2>10, <2>11 DEF Tracks
  <1>. QED BY <1>2, <1>3, OneJobTracked

LEMMA NothingTracked ==
    ASSUME Tracked, UNCHANGED <<stop, active, queue, flight, worker>>, \A i \in Jobs : SameRegistering(i)
    PROVE  Tracked'
  <1>1. \A i \in Jobs : SameItems(i) BY DEF SameItems
  <1>. QED BY <1>1, TracksKept DEF Tracked

LEMMA CalledBackTracked ==
    ASSUME Sound, Tracked, NEW v \in Items, CalledBack(v)
    PROVE  Tracked'
  <1>1. UNCHANGED <<stop, taking, queue, flight, worker>> BY DEF CalledBack
  <1>2. v \in Callers /\ call \in [Callers -> CallType] /\ call[v] \in CallType /\ call[v].at = "acquired" /\ Items \subseteq Callers
    BY DEF CalledBack, Sound, CallsOK, Callers
  <1>3. PICK j \in Jobs : j = call[v].job BY <1>2 DEF Sound, CallsOK, Dispatch, Begun
  <1>4. \A i \in Jobs, w \in Items : ~RegCall(i, v) /\ (RegTake(i, w)' <=> RegTake(i, w)) BY <1>1, <1>2 DEF RegCall, RegTake
  <1>5. CASE Accepts(j, call[v].rev, v)
    <2>1. /\ Enters(j, v) /\ <<j, v>> \notin active
          /\ call' = [call EXCEPT ![v].at = "registering", ![v].ev = EventOf(j)]
      BY <1>3, <1>5 DEF CalledBack, Accepts
    <2>2. \A w \in Items : w # v => call'[w] = call[w] BY <1>2, <2>1
    <2>3. call'[v].at = "registering" /\ call'[v].job = j BY <1>2, <1>3, <2>1 DEF CallType
    <2>4. \A i \in Jobs, w \in Items : RegCall(i, w)' <=> IF w = v THEN i = j ELSE RegCall(i, w)
      BY <2>2, <2>3 DEF RegCall
    <2>5. \A i \in Jobs, w \in Items : <<i, w>> # <<j, v>> => (RegCall(i, w)' <=> RegCall(i, w))
      BY <1>4, <2>4
    <2>6. RegCall(j, v)' /\ (RegTake(j, v)' <=> RegTake(j, v)) BY <1>3, <1>4, <2>4
    <2>7. active' = active \cup {<<j, v>>} BY <2>1 DEF Enters
    <2>8. \A i \in Jobs, w \in Items : <<i, w>> # <<j, v>> =>
             (Registering(i, w)' <=> Registering(i, w)) /\ (RegCall(i, w)' /\ RegTake(i, w)' => RegCall(i, w) /\ RegTake(i, w))
      BY <1>4, <2>5, RegisteringIs
    <2>9. Registering(j, v)' /\ (~Registering(j, v) => ~(RegCall(j, v)' /\ RegTake(j, v)')) BY <2>6, RegisteringIs
    <2>. QED BY <1>1, <1>3, <2>1, <2>7, <2>8, <2>9, EntersTracked
  <1>6. CASE ~Accepts(j, call[v].rev, v)
    <2>1. UNCHANGED active /\ call' = [call EXCEPT ![v] = Over] BY <1>3, <1>6 DEF CalledBack, Ignored
    <2>2. \A w \in Items : IF w = v THEN call'[w].at = "over" ELSE call'[w] = call[w]
      BY <1>2, <2>1 DEF Over, Idle
    <2>3. \A i \in Jobs : SameRegistering(i) BY <1>1, <1>4, <2>2 DEF SameRegistering, RegCall, RegTake
    <2>. QED BY <1>1, <2>1, <2>3, NothingTracked
  <1>. QED BY <1>5, <1>6

LEMMA CallbackQueuesTracked ==
    ASSUME Sound, Tracked, NEW v \in Items, CallbackQueues(v)
    PROVE  Tracked'
  <1>1. /\ UNCHANGED <<stop, taking, active, flight>> /\ call' = [call EXCEPT ![v] = Over]
        /\ Joins(call[v].job, v, call[v].ev)
    BY DEF CallbackQueues
  <1>2. /\ v \in Callers /\ call \in [Callers -> CallType] /\ call[v] \in CallType /\ call[v].at = "registering"
        /\ Items \subseteq Callers
    BY DEF CallbackQueues, Sound, CallsOK, Callers
  <1>e. call[v].job \in Jobs /\ call[v].ev \in {call[v].job} \X Nat
    BY <1>2 DEF Sound, CallsOK, Dispatch, Begun, CallType
  <1>3. PICK j \in Jobs : j = call[v].job BY <1>e
  <1>g. PICK ev \in {j} \X Nat : ev = call[v].ev BY <1>e, <1>3
  <1>4. \A w \in Items : IF w = v THEN call'[w].at = "over" ELSE call'[w] = call[w]
    BY <1>1, <1>2 DEF Over, Idle
  <1>f. v \in found BY <1>2 DEF Sound, CallsOK
  <1>j. Joins(j, v, ev) BY <1>1, <1>3, <1>g
  <1>5. RegCall(j, v) /\ Registering(j, v) BY <1>2, <1>3 DEF RegCall, Registering
  <1>6. \A i \in Jobs, w \in Items : RegTake(i, w)' <=> RegTake(i, w) BY <1>1 DEF RegTake
  <1>7. \A i \in Jobs, w \in Items : <<i, w>> # <<j, v>> => (RegCall(i, w)' <=> RegCall(i, w))
    BY <1>2, <1>3, <1>4 DEF RegCall
  <1>8. j \notin stop.jobs => ~Registering(j, v)'
    <2>1. ASSUME j \notin stop.jobs PROVE ~RegTake(j, v)
      BY <1>3, <1>5, <2>1 DEF Tracked, Tracks, Where
    <2>2. ~RegCall(j, v)' BY <1>4 DEF RegCall
    <2>. QED BY <1>3, <1>6, <2>1, <2>2, RegisteringIs
  <1>. QED BY <1>1, <1>f, <1>j, <1>5, <1>6, <1>7, <1>8, JoinsTracked

LEMMA TakeReviewTracked ==
    ASSUME Sound, Tracked, TakeReview
    PROVE  Tracked'
  <1>1. UNCHANGED <<stop, active, queue, flight, worker, call>> BY DEF TakeReview, agentVars, AgentOnly
  <1>2. taking'.at = "items"
    <2>1. cmds # <<>> /\ cmds \in Seq(Command) BY DEF TakeReview, Sound, CommandsOK
    <2>2. Head(cmds) \in Command BY <2>1
    <2>. QED BY <2>2 DEF TakeReview, Command, CallType
  <1>3. taking.at = "items" BY DEF TakeReview, Free, Idle
  <1>. QED BY <1>1, <1>2, <1>3, NothingTracked DEF SameRegistering, RegCall, RegTake

LEMMA TakeItemTracked ==
    ASSUME Sound, Tracked, NEW v \in Items, TakeItem(v)
    PROVE  Tracked'
  <1>1. UNCHANGED <<stop, call, queue, flight, worker>> BY DEF TakeItem, AgentOnly
  <1>2. taking # Free /\ taking \in CallType /\ taking.at = "items"
    BY DEF TakeItem, Free, Idle, Sound, TakingOK
  <1>3. PICK j \in Jobs : j = taking.job BY <1>2 DEF Sound, TakingOK, Dispatch, Begun
  <1>4. \A i \in Jobs, w \in Items : ~RegTake(i, w) /\ (RegCall(i, w)' <=> RegCall(i, w))
    BY <1>1, <1>2 DEF RegCall, RegTake
  <1>5. CASE Accepts(j, taking.rev, v)
    <2>1. /\ Enters(j, v) /\ <<j, v>> \notin active
          /\ taking' = [taking EXCEPT !.at = "registering", !.items = @ \ {v}, !.ev = EventOf(j), !.next = v]
      BY <1>3, <1>5 DEF TakeItem, Accepts
    <2>2. taking'.at = "registering" /\ taking'.job = j /\ taking'.next = v BY <1>2, <1>3, <2>1 DEF CallType
    <2>3. \A i \in Jobs, w \in Items : RegTake(i, w)' <=> (i = j /\ w = v) BY <2>2 DEF RegTake
    <2>4. active' = active \cup {<<j, v>>} BY <2>1 DEF Enters
    <2>5. \A i \in Jobs, w \in Items : <<i, w>> # <<j, v>> =>
             (Registering(i, w)' <=> Registering(i, w)) /\ (RegCall(i, w)' /\ RegTake(i, w)' => RegCall(i, w) /\ RegTake(i, w))
      BY <1>4, <2>3, RegisteringIs
    <2>6. Registering(j, v)' /\ (~Registering(j, v) => ~(RegCall(j, v)' /\ RegTake(j, v)'))
      BY <1>4, <2>3, RegisteringIs
    <2>. QED BY <1>1, <2>1, <2>4, <2>5, <2>6, EntersTracked
  <1>6. CASE ~Accepts(j, taking.rev, v)
    <2>1. UNCHANGED active /\ taking' = Rest(taking.items \ {v}) BY <1>3, <1>6 DEF TakeItem, Ignored
    <2>2. taking'.at = "items"
      <3>1. taking.items \ {v} \in SUBSET taking.items OBVIOUS
      <3>2. Free.at = "items" BY DEF Free, Idle
      <3>. QED BY <1>2, <2>1, <3>1, <3>2, RestSound DEF Sound
    <2>3. \A i \in Jobs : SameRegistering(i) BY <1>4, <2>2 DEF SameRegistering, RegTake
    <2>. QED BY <1>1, <2>1, <2>3, NothingTracked
  <1>. QED BY <1>5, <1>6

LEMMA QueueItemTracked ==
    ASSUME Sound, Tracked, QueueItem
    PROVE  Tracked'
  <1>1. UNCHANGED <<stop, call, active, flight>> /\ Joins(taking.job, taking.next, taking.ev)
    BY DEF QueueItem, AgentOnly
  <1>2. /\ taking # Free /\ taking \in CallType /\ taking.at = "registering" /\ taking.next \in found
        /\ taking.job \in Jobs /\ taking.ev \in {taking.job} \X Nat
    BY DEF QueueItem, Free, Idle, Sound, TakingOK, Dispatch, Begun, CallType
  <1>3. PICK j \in Jobs : j = taking.job BY <1>2
  <1>4. PICK v \in Items : v = taking.next /\ v \in found BY <1>2 DEF Sound, FindingsOK
  <1>5. PICK ev \in {j} \X Nat : ev = taking.ev BY <1>2, <1>3
  <1>6. Joins(j, v, ev) BY <1>1, <1>3, <1>4, <1>5
  <1>7. taking'.at = "items"
    <2>1. taking.items \in SUBSET taking.items OBVIOUS
    <2>2. Free.at = "items" BY DEF Free, Idle
    <2>. QED BY <1>2, <2>1, <2>2, RestSound DEF Sound, QueueItem
  <1>8. RegTake(j, v) /\ Registering(j, v) BY <1>2, <1>3, <1>4 DEF RegTake, Registering
  <1>9. \A i \in Jobs, w \in Items : (RegCall(i, w)' <=> RegCall(i, w)) /\ ~RegTake(i, w)'
        /\ (RegTake(i, w) => i = j /\ w = v)
    BY <1>1, <1>3, <1>4, <1>7 DEF RegCall, RegTake
  <1>10. \A i \in Jobs, w \in Items : <<i, w>> # <<j, v>> =>
            (RegCall(i, w)' <=> RegCall(i, w)) /\ (RegTake(i, w)' <=> RegTake(i, w))
    BY <1>9
  <1>11. j \notin stop.jobs => ~Registering(j, v)'
    <2>1. ASSUME j \notin stop.jobs PROVE ~RegCall(j, v)
      BY <1>8, <2>1 DEF Tracked, Tracks, Where
    <2>. QED BY <1>9, <2>1, RegisteringIs
  <1>. QED BY <1>1, <1>4, <1>6, <1>8, <1>10, <1>11, JoinsTracked

LEMMA TakeStopTracked ==
    ASSUME Sound, Tracked, TakeStop
    PROVE  Tracked'
  <1>1. UNCHANGED <<stop, call, taking, active, queue, flight>> BY DEF TakeStop, AgentOnly
  <1>2. PICK j \in Jobs : j = Head(cmds).call.job /\ j \in stop.jobs
    <2>1. cmds # <<>> /\ cmds \in Seq(Command) /\ Head(cmds).type = "fp_review_stop"
      BY DEF TakeStop, Sound, CommandsOK
    <2>2. Head(cmds) = cmds[1] /\ 1 \in DOMAIN cmds BY <2>1
    <2>. QED BY <2>1, <2>2 DEF Sound, CommandsOK, StopOK
  <1>3. \A i \in Jobs \ {j} : worker'[i] = worker[i] BY <1>2 DEF TakeStop, Interrupted, Sound, AgentOK
  <1>4. \A i \in Jobs \ {j} : SameItems(i) /\ SameRegistering(i)
    BY <1>1, <1>3 DEF SameItems, SameRegistering, RegCall, RegTake
  <1>. QED BY <1>1, <1>2, <1>4, OneJobTracked

-----------------------------------------------------------------------------
(* Layer 2: the steps of a worker.                                         *)

LEMMA WorkTracked ==
    ASSUME Tracked, NEW j \in Jobs, AgentStep, \A i \in Jobs \ {j} : SameItems(i),
           j \notin stop.jobs => Tracks(j)'
    PROVE  Tracked'
  <1>1. UNCHANGED <<stop, call, taking>> BY DEF AgentStep
  <1>2. \A i \in Jobs : SameRegistering(i) BY <1>1 DEF SameRegistering, RegCall, RegTake
  <1>. QED BY <1>1, <1>2, OneJobTracked

(* Where an item is, in terms of what a worker changes.                    *)
LEMMA SameWhere ==
    ASSUME AgentStep, NEW j, NEW v, Where(j, v),
           (<<j, v>> \in active') <=> (<<j, v>> \in active),
           InQueue(j, v)' <=> InQueue(j, v), InFlight(j, v)' <=> InFlight(j, v)
    PROVE  Where(j, v)'
  <1>1. (RegCall(j, v)' <=> RegCall(j, v)) /\ (RegTake(j, v)' <=> RegTake(j, v)) BY DEF AgentStep, RegCall, RegTake
  <1>. QED BY <1>1, RegisteringIs DEF Where

LEMMA LaunchTracked ==
    ASSUME Sound, Tracked, NEW j \in Jobs, Launch(j)
    PROVE  Tracked'
  <1>. DEFINE e == Head(queue[j])
              g == [item |-> e.item, ev |-> e.ev, at |-> "new"]
  <1>1. AgentStep /\ UNCHANGED active BY DEF Launch, AgentStep
  <1>2. /\ queue[j] # <<>> /\ queue[j] \in Seq(EntryOf(j)) /\ worker[j].at = "loop"
        /\ queue' = [queue EXCEPT ![j] = Tail(queue[j])] /\ flight' = [flight EXCEPT ![j] = flight[j] \cup {g}]
        /\ worker' = [worker EXCEPT ![j] = [worker[j] EXCEPT !.had = TRUE]]
        /\ DOMAIN queue = Jobs /\ DOMAIN flight = Jobs /\ DOMAIN worker = Jobs /\ worker[j] \in WorkerType
    BY DEF Launch, Sound, AgentOK, WorkerIs
  <1>3. \A i \in Jobs \ {j} : SameItems(i) BY <1>1, <1>2 DEF SameItems
  <1>4. ASSUME j \notin stop.jobs PROVE Tracks(j)'
    <2>1. Tracks(j) BY <1>4 DEF Tracked
    <2>. DEFINE n == Len(queue[j])
    <2>2. /\ n \in Nat /\ n >= 1 /\ DOMAIN queue[j] = 1..n /\ DOMAIN Tail(queue[j]) = 1..(n - 1)
          /\ \A k \in 1..(n - 1) : Tail(queue[j])[k] = queue[j][k + 1]
          /\ e = queue[j][1]
      BY <1>2
    <2>3. /\ queue'[j] = Tail(queue[j]) /\ flight'[j] = flight[j] \cup {g}
          /\ worker'[j].at = "loop" /\ worker'[j].ends = worker[j].ends /\ worker'[j].cancelled = worker[j].cancelled
      BY <1>2 DEF WorkerType
    <2>4. g.item = e.item /\ g.at = "new" /\ ~Ended(g) BY DEF Ended, Outcomes
    <2>5. e.item \in Items
      <3>1. e \in EntryOf(j) BY <1>2
      <3>. QED BY <3>1 DEF EntryOf, Sound, FindingsOK
    <2>6. InQueue(j, e.item) BY <2>2 DEF InQueue
    <2>7. ~InFlight(j, e.item) /\ ~Registering(j, e.item) BY <2>1, <2>5, <2>6 DEF Tracks, Where
    <2>8. Single(j) /\ WorkerOK(j) BY <2>1 DEF Tracks
    <2>. HIDE DEF e, g, n
    <2>9. \A w : InFlight(j, w)' <=> InFlight(j, w) \/ w = e.item
      BY <2>3, <2>4 DEF InFlight, Ended
    <2>10. \A w : InQueue(j, w)' <=> InQueue(j, w) /\ w # e.item
      <3>1. \A k \in 2..n : k - 1 \in 1..(n - 1) /\ Tail(queue[j])[k - 1] = queue[j][k] BY <2>2
      <3>2. \A k \in 2..n : queue[j][k].item # e.item BY <2>2, <2>8 DEF Single
      <3>3. \A k \in 1..n : k = 1 \/ k \in 2..n BY <2>2
      <3>4. \A k \in 1..(n - 1) : k + 1 \in 2..n BY <2>2
      <3>5. ASSUME NEW w, NEW k \in 1..(n - 1), Tail(queue[j])[k].item = w PROVE InQueue(j, w) /\ w # e.item
        BY <2>2, <3>2, <3>4, <3>5 DEF InQueue
      <3>6. ASSUME NEW w, NEW k \in 1..n, queue[j][k].item = w, w # e.item
            PROVE  \E m \in 1..(n - 1) : Tail(queue[j])[m].item = w
        BY <2>2, <3>1, <3>3, <3>6
      <3>7. \A w : InQueue(j, w)' <=> \E m \in 1..(n - 1) : Tail(queue[j])[m].item = w
        BY <2>2, <2>3, Zenon DEF InQueue
      <3>8. \A w : InQueue(j, w) <=> \E k \in 1..n : queue[j][k].item = w
        BY <2>2, Zenon DEF InQueue
      <3>. QED BY <3>5, <3>6, <3>7, <3>8, Zenon
    <2>11. Single(j)'
      <3>1. ASSUME NEW i \in DOMAIN queue'[j], NEW k \in DOMAIN queue'[j], queue'[j][i].item = queue'[j][k].item
            PROVE  i = k
        <4>1. i \in 1..(n - 1) /\ k \in 1..(n - 1) BY <2>2, <2>3
        <4>2. i + 1 \in 1..n /\ k + 1 \in 1..n /\ queue[j][i + 1].item = queue[j][k + 1].item
          BY <2>2, <2>3, <3>1, <4>1
        <4>3. i + 1 = k + 1 BY <2>2, <2>8, <4>2 DEF Single
        <4>. QED BY <4>1, <4>3
      <3>2. ASSUME NEW a \in flight'[j], NEW b \in flight'[j], a.item = b.item, ~Ended(a), ~Ended(b)
            PROVE  a = b
        BY <2>3, <2>4, <2>7, <2>8, <3>2 DEF Single, InFlight
      <3>. QED BY <3>1, <3>2 DEF Single, Ended
    <2>12. WorkerOK(j)' BY <2>3, <2>4, <2>8 DEF WorkerOK
    <2>13. ASSUME NEW w \in Items PROVE Where(j, w)'
      <3>1. Where(j, w) BY <2>1 DEF Tracks
      <3>2. CASE w # e.item BY <1>1, <2>9, <2>10, <3>1, <3>2, SameWhere
      <3>3. CASE w = e.item
        <4>1. (RegCall(j, w)' <=> RegCall(j, w)) /\ (RegTake(j, w)' <=> RegTake(j, w)) BY <1>1 DEF AgentStep, RegCall, RegTake
        <4>. QED BY <1>1, <2>6, <2>7, <2>9, <2>10, <3>1, <3>3, <4>1, RegisteringIs DEF Where
      <3>. QED BY <3>2, <3>3
    <2>. QED BY <2>11, <2>12, <2>13 DEF Tracks
  <1>. QED BY <1>1, <1>3, <1>4, WorkTracked

(* What is held for a job that the user has not stopped.                   *)
LEMMA NotStopped ==
    ASSUME Sound, Tracked, NEW j \in Jobs, j \notin stop.jobs
    PROVE  /\ Tracks(j) /\ WorkerOK(j) /\ Single(j) /\ ~UserCancelled(j)
           /\ \A f \in flight[j] : f.ev \notin raised
  <1>1. Tracks(j) BY DEF Tracked
  <1>2. ~UserCancelled(j) BY DEF UserCancelled, Sound, StopOK
  <1>3. \A f \in flight[j] : f.ev[1] = j
    <2>1. flight[j] \subseteq FlightOf(j) BY DEF Sound, AgentOK
    <2>. QED BY <2>1 DEF FlightOf
  <1>. QED BY <1>1, <1>2, <1>3 DEF Tracks, Sound, StopOK

LEMMA StartedTracked ==
    ASSUME Sound, Tracked, NEW j \in Jobs, NEW f \in flight[j], Started(j, f)
    PROVE  Tracked'
  <1>. DEFINE g == [f EXCEPT !.at = "told"]
  <1>1. AgentStep /\ UNCHANGED <<active, queue, worker>> BY DEF Started, AgentStep
  <1>2. /\ flight' = [flight EXCEPT ![j] = (flight[j] \ {f}) \cup {g}] /\ DOMAIN flight = Jobs /\ f.at = "new"
        /\ f \in FlightOf(j)
    BY DEF Started, Moves, Sound, AgentOK
  <1>3. \A i \in Jobs \ {j} : SameItems(i) BY <1>1, <1>2 DEF SameItems
  <1>4. ASSUME j \notin stop.jobs PROVE Tracks(j)'
    <2>1. Tracks(j) /\ WorkerOK(j) /\ Single(j) BY <1>4, NotStopped
    <2>2. g.item = f.item /\ g.at = "told" BY <1>2 DEF FlightOf
    <2>3. flight'[j] = (flight[j] \ {f}) \cup {g} BY <1>2
    <2>4. ~Ended(f) /\ ~Ended(g) BY <1>2, <2>2 DEF Ended, Outcomes
    <2>. HIDE DEF g
    <2>5. \A w : (InQueue(j, w)' <=> InQueue(j, w)) /\ (InFlight(j, w)' <=> InFlight(j, w))
      BY <1>1, <2>2, <2>3, <2>4 DEF InQueue, InFlight, Ended
    <2>6. Single(j)' BY <1>1, <2>1, <2>2, <2>3, <2>4 DEF Single, Ended
    <2>7. WorkerOK(j)' BY <1>1, <2>1, <2>2, <2>3 DEF WorkerOK
    <2>8. ASSUME NEW w \in Items PROVE Where(j, w)' BY <1>1, <2>1, <2>5, SameWhere DEF Tracks
    <2>. QED BY <2>6, <2>7, <2>8 DEF Tracks
  <1>. QED BY <1>1, <1>3, <1>4, WorkTracked

LEMMA ReviewedTracked ==
    ASSUME Sound, Tracked, NEW j \in Jobs, NEW f \in flight[j], NEW outcome \in Outcomes, Reviewed(j, f, outcome)
    PROVE  Tracked'
  <1>. DEFINE g == [f EXCEPT !.at = outcome]
  <1>1. AgentStep /\ UNCHANGED <<queue, worker>> BY DEF Reviewed, AgentStep
  <1>2. /\ flight' = [flight EXCEPT ![j] = (flight[j] \ {f}) \cup {g}] /\ DOMAIN flight = Jobs /\ f.at \in {"new", "told"}
        /\ f \in FlightOf(j) /\ active' = active \ {<<j, f.item>>} /\ (outcome = "cancelled" => f.ev \in raised)
    BY DEF Reviewed, Moves, Sound, AgentOK
  <1>3. \A i \in Jobs \ {j} : SameItems(i) BY <1>1, <1>2 DEF SameItems
  <1>4. ASSUME j \notin stop.jobs PROVE Tracks(j)'
    <2>1. Tracks(j) /\ WorkerOK(j) /\ Single(j) /\ outcome # "cancelled" BY <1>2, <1>4, NotStopped
    <2>2. g.item = f.item /\ g.at = outcome BY <1>2 DEF FlightOf
    <2>3. flight'[j] = (flight[j] \ {f}) \cup {g} BY <1>2
    <2>4. ~Ended(f) /\ Ended(g) BY <1>2, <2>2 DEF Ended, Outcomes
    <2>i. f.item \in Items BY <1>2 DEF FlightOf, Sound, FindingsOK
    <2>. HIDE DEF g
    <2>5. \A w : (InQueue(j, w)' <=> InQueue(j, w)) /\ (InFlight(j, w)' <=> InFlight(j, w) /\ w # f.item)
      <3>1. \A h \in flight[j] : h.item = f.item /\ ~Ended(h) => h = f BY <2>1, <2>4 DEF Single
      <3>2. \A w : InFlight(j, w)' <=> \E h \in flight[j] \ {f} : h.item = w /\ ~Ended(h)
        BY <2>3, <2>4 DEF InFlight, Ended
      <3>3. \A w : InFlight(j, w)' <=> InFlight(j, w) /\ w # f.item BY <3>1, <3>2 DEF InFlight
      <3>. QED BY <1>1, <3>3 DEF InQueue
    <2>6. Single(j)' BY <1>1, <2>1, <2>2, <2>3, <2>4 DEF Single, Ended
    <2>7. WorkerOK(j)' BY <1>1, <2>1, <2>2, <2>3 DEF WorkerOK
    <2>8. ASSUME NEW w \in Items PROVE Where(j, w)'
      <3>1. Where(j, w) BY <2>1 DEF Tracks
      <3>2. CASE w # f.item
        <4>1. (<<j, w>> \in active') <=> <<j, w>> \in active BY <1>2, <3>2
        <4>. QED BY <1>1, <2>5, <3>1, <3>2, <4>1, SameWhere
      <3>3. CASE w = f.item
        <4>1. (RegCall(j, w)' <=> RegCall(j, w)) /\ (RegTake(j, w)' <=> RegTake(j, w)) BY <1>1 DEF AgentStep, RegCall, RegTake
        <4>2. InFlight(j, w) BY <2>4, <3>3 DEF InFlight
        <4>3. <<j, w>> \notin active' BY <1>2, <3>3
        <4>. QED BY <2>5, <3>1, <3>3, <4>1, <4>2, <4>3, RegisteringIs DEF Where
      <3>. QED BY <3>2, <3>3
    <2>. QED BY <2>6, <2>7, <2>8 DEF Tracks
  <1>. QED BY <1>1, <1>3, <1>4, WorkTracked

LEMMA CollectTracked ==
    ASSUME Sound, Tracked, NEW j \in Jobs, NEW f \in flight[j], Collect(j, f)
    PROVE  Tracked'
  <1>1. AgentStep /\ UNCHANGED <<active, queue>> BY DEF Collect, AgentStep
  <1>2. /\ flight' = [flight EXCEPT ![j] = flight[j] \ {f}] /\ DOMAIN flight = Jobs /\ Ended(f) /\ worker[j].at = "loop"
        /\ DOMAIN worker = Jobs /\ worker[j] \in WorkerType
        /\ \A i \in Jobs \ {j} : worker'[i] = worker[i]
    BY DEF Collect, Sound, AgentOK, WorkerIs
  <1>3. \A i \in Jobs \ {j} : SameItems(i) BY <1>1, <1>2 DEF SameItems
  <1>4. ASSUME j \notin stop.jobs PROVE Tracks(j)'
    <2>1. Tracks(j) /\ WorkerOK(j) /\ Single(j) /\ ~UserCancelled(j) BY <1>4, NotStopped
    <2>3. flight'[j] = flight[j] \ {f} BY <1>2
    <2>4. worker'[j].at = "loop" /\ worker'[j].ends = "complete" /\ ~worker'[j].cancelled
      BY <1>2, <2>1 DEF Collect, WorkerType, WorkerOK
    <2>5. \A w : (InQueue(j, w)' <=> InQueue(j, w)) /\ (InFlight(j, w)' <=> InFlight(j, w))
      BY <1>1, <1>2, <2>3 DEF InQueue, InFlight, Ended
    <2>6. Single(j)' BY <1>1, <2>1, <2>3 DEF Single, Ended
    <2>7. WorkerOK(j)' BY <1>1, <2>1, <2>3, <2>4 DEF WorkerOK
    <2>8. ASSUME NEW w \in Items PROVE Where(j, w)' BY <1>1, <2>1, <2>5, SameWhere DEF Tracks
    <2>. QED BY <2>6, <2>7, <2>8 DEF Tracks
  <1>. QED BY <1>1, <1>3, <1>4, WorkTracked

(* Only the worker of a stopped job cancels items or clears its queue.     *)
LEMMA OnlyStoppedClears ==
    ASSUME Sound, Tracked, NEW j \in Jobs, Clear(j) \/ \E f \in flight[j] : CancelItem(j, f)
    PROVE  j \in stop.jobs
  <1>1. worker[j].at \in {"clearing", "cancelling"} BY DEF Clear, CancelItem, WorkerIs
  <1>. QED BY <1>1, NotStopped DEF WorkerOK

LEMMA ClearsTracked ==
    ASSUME Sound, Tracked, NEW j \in Jobs, Clear(j) \/ \E f \in flight[j] : CancelItem(j, f)
    PROVE  Tracked'
  <1>1. AgentStep BY DEF Clear, CancelItem, AgentStep
  <1>2. \A i \in Jobs \ {j} : SameItems(i)
    BY DEF Clear, CancelItem, SameItems, Sound, AgentOK
  <1>3. j \in stop.jobs BY OnlyStoppedClears
  <1>. QED BY <1>1, <1>2, <1>3, WorkTracked

LEMMA WindsUpTracked ==
    ASSUME Sound, Tracked, NEW j \in Jobs, WindsUp(j)
    PROVE  Tracked'
  <1>1. AgentStep /\ UNCHANGED <<active, queue, flight>> BY DEF WindsUp, AgentStep
  <1>2. flight[j] = {} /\ DOMAIN worker = Jobs /\ worker[j] \in WorkerType
    BY DEF WindsUp, Sound, AgentOK
  <1>3. \A i \in Jobs \ {j} : SameItems(i) BY <1>1, <1>2 DEF SameItems, WindsUp
  <1>4. ASSUME j \notin stop.jobs PROVE Tracks(j)'
    <2>1. Tracks(j) /\ WorkerOK(j) /\ Single(j) /\ ~UserCancelled(j) BY <1>4, NotStopped
    <2>2. Ending(j) # "cancelled" BY <2>1 DEF Ending, WorkerOK
    <2>3. worker'[j] = [worker[j] EXCEPT !.at = "finishing"] BY <1>2, <2>2 DEF WindsUp
    <2>4. WorkerOK(j)' BY <1>1, <1>2, <2>1, <2>3 DEF WorkerOK, WorkerType
    <2>5. \A w : (InQueue(j, w)' <=> InQueue(j, w)) /\ (InFlight(j, w)' <=> InFlight(j, w))
      BY <1>1 DEF InQueue, InFlight, Ended
    <2>6. Single(j)' BY <1>1, <2>1 DEF Single, Ended
    <2>7. ASSUME NEW w \in Items PROVE Where(j, w)' BY <1>1, <2>1, <2>5, SameWhere DEF Tracks
    <2>. QED BY <2>4, <2>6, <2>7 DEF Tracks
  <1>. QED BY <1>1, <1>3, <1>4, WorkTracked

LEMMA LeavesTracked ==
    ASSUME Sound, Tracked, NEW j \in Jobs, Leaves(j)
    PROVE  Tracked'
  <1>1. AgentStep /\ UNCHANGED <<active, queue, flight>> BY DEF Leaves, AgentStep
  <1>2. worker[j].at = "finishing" /\ DOMAIN worker = Jobs
    BY DEF Leaves, WorkerIs, Sound, AgentOK
  <1>3. \A i \in Jobs \ {j} : SameItems(i) BY <1>1, <1>2 DEF SameItems, Leaves
  <1>4. ASSUME j \notin stop.jobs PROVE Tracks(j)'
    <2>1. Tracks(j) /\ WorkerOK(j) /\ Single(j) BY <1>4, NotStopped
    <2>2. flight[j] = {} BY <1>2, <2>1 DEF WorkerOK
    <2>3. worker'[j] = IF queue[j] # <<>> THEN [Quiet EXCEPT !.at = "loop"] ELSE Quiet
      BY <1>2, <2>1 DEF Leaves, WorksAgain, WorkerOK
    <2>4. WorkerOK(j)' BY <1>1, <2>2, <2>3 DEF WorkerOK, Quiet
    <2>5. \A w : (InQueue(j, w)' <=> InQueue(j, w)) /\ (InFlight(j, w)' <=> InFlight(j, w))
      BY <1>1 DEF InQueue, InFlight, Ended
    <2>6. Single(j)' BY <1>1, <2>1 DEF Single, Ended
    <2>7. ASSUME NEW w \in Items PROVE Where(j, w)' BY <1>1, <2>1, <2>5, SameWhere DEF Tracks
    <2>. QED BY <2>4, <2>6, <2>7 DEF Tracks
  <1>. QED BY <1>1, <1>3, <1>4, WorkTracked

LEMMA InitTracked == ASSUME Init PROVE Tracked
  <1>1. ASSUME NEW j \in Jobs, NEW v \in Items
        PROVE  ~Registering(j, v) /\ ~InQueue(j, v) /\ ~InFlight(j, v) /\ <<j, v>> \notin active
               /\ ~RegCall(j, v) /\ ~RegTake(j, v)
    <2>1. call[v].at # "registering" BY DEF Init, Callers, Over, Idle
    <2>2. taking.at # "registering" BY DEF Init, Free, Idle
    <2>. QED BY <2>1, <2>2 DEF Init, Registering, RegCall, RegTake, InQueue, InFlight
  <1>2. ASSUME NEW j \in Jobs PROVE WorkerOK(j) /\ Single(j)
    BY DEF Init, WorkerOK, Single, Quiet
  <1>. QED BY <1>1, <1>2 DEF Tracked, Tracks, Where

LEMMA NextTracked ==
    ASSUME Sound, Tracked, [Next]_vars
    PROVE  Tracked'
  <1>1. CASE (\E v \in Items : Report(v)) \/ StopReviews \/ Server BY <1>1, ServerStepsTracked
  <1>2. CASE Enqueuers
    BY <1>2, CalledBackTracked, CallbackQueuesTracked, TakeItemTracked, TakeReviewTracked, QueueItemTracked,
       TakeStopTracked
    DEF Enqueuers
  <1>3. ASSUME NEW j \in Jobs, Work(j) PROVE Tracked'
    BY <1>3, LaunchTracked, WindsUpTracked, ClearsTracked, LeavesTracked, StartedTracked, CollectTracked,
       ReviewedTracked
    DEF Work
  <1>4. CASE UNCHANGED vars
    BY <1>4, NothingTracked DEF vars, agentVars, SameRegistering, RegCall, RegTake
  <1>. QED BY <1>1, <1>2, <1>3, <1>4 DEF Next

(* The second: in a review that was not stopped, each active item is in    *)
(* exactly one place, and the worker does not leave items behind.          *)
THEOREM TrackedInvariant == Spec => []Tracked
  <1>1. Init => Tracked BY InitTracked
  <1>2. Sound /\ Tracked /\ [Next]_vars => Tracked' BY NextTracked
  <1>. QED BY <1>1, <1>2, SoundInvariant, PTL DEF Spec

(* Nothing that was taken for review is left behind by a review the user   *)
(* has not stopped: what is marked as active is being registered, waits in *)
(* the queue or runs, and a queue with items has a worker.  The worker     *)
(* that ends just when an item arrives starts over.                        *)
THEOREM NothingIsStranded == Spec => []NothingStranded
  <1>1. Tracked => NothingStranded
    BY DEF Tracked, Tracks, WorkerOK, Where, NothingStranded, WorkerIs
  <1>. QED BY <1>1, TrackedInvariant, PTL

(* An item is queued or reviewed once at a time, though the finding's own  *)
(* dispatch, the end of the scan and the user all ask for it.              *)
THEOREM OneReviewAtATime == Spec => []OnceAtATime
  <1>1. ASSUME Tracked PROVE OnceAtATime
    <2>1. ASSUME NEW j \in Jobs \ stop.jobs, NEW v \in Items
          PROVE  Cardinality({i \in DOMAIN queue[j] : queue[j][i].item = v})
                 + Cardinality({f \in flight[j] : f.item = v /\ ~Ended(f)}) <= 1
      <3>. DEFINE A == {i \in DOMAIN queue[j] : queue[j][i].item = v}
                  B == {f \in flight[j] : f.item = v /\ ~Ended(f)}
      <3>1. Single(j) /\ Where(j, v) BY <1>1 DEF Tracked, Tracks
      <3>2. A = {} \/ \E i : A = {i} BY <3>1 DEF Single
      <3>3. B = {} \/ \E f : B = {f} BY <3>1 DEF Single
      <3>4. A = {} \/ B = {} BY <3>1 DEF Where, InQueue, InFlight
      <3>5. Cardinality({}) = 0 BY FS_EmptySet
      <3>6. \A x : Cardinality({x}) = 1 BY FS_Singleton
      <3>. HIDE DEF A, B
      <3>a. Cardinality(A) \in {0, 1} /\ (A = {} => Cardinality(A) = 0) BY <3>2, <3>5, <3>6
      <3>b. Cardinality(B) \in {0, 1} /\ (B = {} => Cardinality(B) = 0) BY <3>3, <3>5, <3>6
      <3>7. Cardinality(A) + Cardinality(B) <= 1 BY <3>4, <3>a, <3>b
      <3>. QED BY <3>7 DEF A, B
    <2>. QED BY <2>1 DEF OnceAtATime
  <1>. QED BY <1>1, TrackedInvariant, PTL

-----------------------------------------------------------------------------
(* Layer 3.  The scan ends with a dispatch of its own, Final.              *)

LEMMA FinalIsNoItem ==
    ASSUME Final \in Others
    PROVE  Final \in Callers /\ Final \notin Items /\ Final # Manual /\ Items \subseteq Callers /\ Others \subseteq Callers
  BY ReviewAssumption DEF Callers

(* No handler is idle again, and a job that was stopped was.               *)
Onward ==
    /\ \A c \in Callers : call'[c].at = "idle" => call[c].at = "idle"
    /\ stop.jobs \subseteq stop'.jobs

LEMMA NoWayBack ==
    ASSUME Sound, [Next]_vars
    PROVE  Onward
  <1>. USE DEF ServerOnly, Handles, AgentOnly, AgentStep, agentVars, jobVars
  <1>t. /\ call \in [Callers -> CallType] /\ Items \subseteq Callers
        /\ stop.at = "idle" => stop.jobs = {}
        /\ stop \in [at : {"idle", "told", "over"}, jobs : SUBSET Jobs]
    BY DEF Sound, CallsOK, StopOK, Callers
  <1>o. Over.at = "over" BY DEF Over, Idle
  <1>u. ASSUME UNCHANGED <<call, stop>> PROVE Onward BY <1>u DEF Onward
  <1>x. ASSUME NEW c \in Callers, NEW x, x.at # "idle", call' = [call EXCEPT ![c] = x], UNCHANGED stop
        PROVE  Onward
    BY <1>t, <1>x DEF Onward
  <1>1. ASSUME NEW v \in Items, Report(v) PROVE Onward
    BY <1>1, <1>t DEF Report, CallType, Onward
  <1>2. CASE StopReviews BY <1>2, <1>t DEF StopReviews, Onward
  <1>3. ASSUME NEW c \in Callers, Ensure(c) PROVE Onward
    <2>1. \E x : x.at # "idle" /\ call' = [call EXCEPT ![c] = x] BY <1>3, <1>o DEF Ensure
    <2>. QED BY <1>3, <1>x, <2>1 DEF Ensure
  <1>4. ASSUME NEW c \in Callers, Acquire(c) PROVE Onward
    BY <1>4, <1>t DEF Acquire, CallType, Onward
  <1>5. ASSUME NEW c \in Callers, Send(c) PROVE Onward BY <1>5, <1>o, <1>x DEF Send
  <1>6. CASE TellStop BY <1>6, <1>t DEF TellStop, Onward
  <1>7. CASE Deliver \/ Write \/ \E p \in progress : WriteProgress(p)
    BY <1>7, <1>u DEF Deliver, Write, WriteProgress
  <1>8. ASSUME NEW v \in Items, CalledBack(v) PROVE Onward
    BY <1>8, <1>t, <1>o DEF CalledBack, CallType, Onward
  <1>9. ASSUME NEW v \in Items, CallbackQueues(v) PROVE Onward
    BY <1>9, <1>o, <1>t, <1>x DEF CallbackQueues
  <1>10. CASE TakeReview \/ QueueItem \/ TakeStop \/ \E v \in Items : TakeItem(v)
    BY <1>10, <1>u DEF TakeReview, QueueItem, TakeStop, TakeItem
  <1>11. ASSUME NEW j \in Jobs, Work(j) PROVE Onward
    BY <1>11, <1>u DEF Work, Launch, WindsUp, Clear, Leaves, Started, Collect, CancelItem, Reviewed
  <1>12. CASE UNCHANGED vars BY <1>12, <1>u DEF vars
  <1>. QED
    BY <1>1, <1>2, <1>3, <1>4, <1>5, <1>6, <1>7, <1>8, <1>9, <1>10, <1>11, <1>12 DEF Next, Server, Enqueuers

LEMMA ScanWasAlone ==
    ASSUME Onward, OnlyTheScan'
    PROVE  OnlyTheScan
  BY DEF Onward, OnlyTheScan, Callers

(* What waits goes on waiting while the commands and the revisions stay as *)
(* they are, and no active item is lost that was not reviewed.             *)
LEMMA WaitsKept ==
    ASSUME Final \in Others, Sound, Waits, UNCHANGED <<found, cmds, taking>>, call'[Final] = call[Final],
           \A j \in Jobs : job'[j].rev = job[j].rev, tried \subseteq tried',
           \A j \in Jobs, v \in Items : <<j, v>> \in active => <<j, v>> \in active' \/ v \in tried'
    PROVE  Waits'
  <1>1. FinalCurrent'
    <2>1. call[Final].at = "acquired" => call[Final].job \in Jobs
      BY FinalIsNoItem DEF Sound, CallsOK, Dispatch, Begun
    <2>2. \A i \in DOMAIN cmds : Asked(cmds[i]) => cmds[i].call.job \in Jobs
      BY DEF Sound, CommandsOK, Asked, Dispatch, Begun
    <2>3. taking # Free => taking.job \in Jobs
      BY DEF Sound, TakingOK, Dispatch, Begun
    <2>4. call'[Final].at = "acquired" => call'[Final].rev = job'[call'[Final].job].rev
      BY <2>1 DEF Waits, FinalCurrent, Current
    <2>5. \A i \in DOMAIN cmds : Asked(cmds[i]) => cmds[i].call.rev = job'[cmds[i].call.job].rev
      BY <2>2 DEF Waits, FinalCurrent, Current
    <2>6. taking # Free => taking.rev = job'[taking.job].rev
      BY <2>3 DEF Waits, FinalCurrent, Current
    <2>7. call'[Final].at # "over" => taking = Free /\ \A i \in DOMAIN cmds : ~Asked(cmds[i])
      BY DEF Waits, FinalCurrent
    <2>. QED BY <2>4, <2>5, <2>6, <2>7 DEF FinalCurrent, Current, Asked
  <1>2. ASSUME NEW v \in found, v \notin tried' PROVE Awaits(v)'
    <2>1. Awaits(v) BY <1>2 DEF Waits
    <2>2. \A j : <<j, v>> \in active => j \in Jobs /\ v \in Items BY DEF Sound, AgentOK
    <2>. QED BY <1>2, <2>1, <2>2 DEF Awaits, Asked
  <1>. QED BY <1>1, <1>2 DEF Waits


LEMMA FinalStaysLast ==
    ASSUME Final \in Others, Sound, FinalLast, [Next]_vars
    PROVE  FinalLast'
  <1>. USE FinalIsNoItem DEF ServerOnly, Handles, AgentOnly, AgentStep, agentVars, jobVars
  <1>t. call \in [Callers -> CallType] BY DEF Sound, CallsOK
  <1>o. Over.at = "over" BY DEF Over, Idle
  <1>u. ASSUME UNCHANGED call PROVE FinalLast' BY <1>u DEF FinalLast
  <1>x. ASSUME NEW c \in Callers, NEW x, call' = [call EXCEPT ![c] = x],
               c = Final => x.at \in {"ensured", "acquired", "over"} /\ \A v \in Items : call[v].at \notin {"idle", "start", "ensured"},
               c \in Items => x.at \in {"acquired", "registering", "over"} \/ call[Final].at = "idle"
        PROVE  FinalLast'
    <2>1. \A b \in Callers : call'[b] = IF b = c THEN x ELSE call[b] BY <1>t, <1>x
    <2>. QED BY <1>x, <2>1 DEF FinalLast
  <1>1. ASSUME NEW v \in Items, Report(v) PROVE FinalLast'
    <2>1. call[Final].at = "idle" BY <1>1 DEF Report, FinalLast
    <2>2. call'[Final] = call[Final] BY <1>1, <1>t DEF Report
    <2>. QED BY <2>1, <2>2 DEF FinalLast
  <1>2. ASSUME NEW c \in Callers, Ensure(c) PROVE FinalLast'
    <2>1. PICK x : x.at \in {"ensured", "over"} /\ call' = [call EXCEPT ![c] = x] BY <1>2, <1>o DEF Ensure
    <2>2. c \in Items => call[Final].at = "idle" BY <1>2 DEF Ensure, Asks, FinalLast
    <2>3. c = Final => \A v \in Items : call[v].at \notin {"idle", "start", "ensured"} BY <1>2 DEF Ensure, Asks
    <2>. QED BY <1>x, <2>1, <2>2, <2>3
  <1>3. ASSUME NEW c \in Callers, Acquire(c) PROVE FinalLast'
    <2>. DEFINE x == [call[c] EXCEPT !.at = "acquired", !.rev = Acquired(c)]
    <2>1. call' = [call EXCEPT ![c] = x] BY <1>3, <1>t DEF Acquire
    <2>2. x.at = "acquired" BY <1>t DEF CallType
    <2>3. c = Final => \A v \in Items : call[v].at \notin {"idle", "start", "ensured"} BY <1>3 DEF Acquire, FinalLast
    <2>. HIDE DEF x
    <2>. QED BY <1>x, <2>1, <2>2, <2>3
  <1>4. ASSUME NEW c \in Callers, Send(c) PROVE FinalLast'
    <2>1. call' = [call EXCEPT ![c] = Over] /\ c \notin Items BY <1>4, ReviewAssumption DEF Send
    <2>2. c = Final => \A v \in Items : call[v].at \notin {"idle", "start", "ensured"} BY <1>4 DEF Send, FinalLast
    <2>. QED BY <1>o, <1>x, <2>1, <2>2
  <1>5. ASSUME NEW v \in Items, CalledBack(v) PROVE FinalLast'
    <2>1. CASE call' = [call EXCEPT ![v] = Over] BY <1>o, <1>x, <2>1
    <2>2. CASE ~(call' = [call EXCEPT ![v] = Over])
      <3>. DEFINE x == [call[v] EXCEPT !.at = "registering", !.ev = EventOf(call[v].job)]
      <3>1. call' = [call EXCEPT ![v] = x] BY <1>5, <1>t, <2>2 DEF CalledBack
      <3>2. x.at = "registering" BY <1>t DEF CallType
      <3>. HIDE DEF x
      <3>. QED BY <1>x, <3>1, <3>2
    <2>. QED BY <2>1, <2>2
  <1>6. ASSUME NEW v \in Items, CallbackQueues(v) PROVE FinalLast'
    BY <1>6, <1>o, <1>x DEF CallbackQueues
  <1>7. CASE StopReviews \/ TellStop \/ Deliver \/ Write \/ \E p \in progress : WriteProgress(p)
    BY <1>7, <1>u DEF StopReviews, TellStop, Deliver, Write, WriteProgress
  <1>8. CASE TakeReview \/ QueueItem \/ TakeStop \/ \E v \in Items : TakeItem(v)
    BY <1>8, <1>u DEF TakeReview, QueueItem, TakeStop, TakeItem
  <1>9. ASSUME NEW j \in Jobs, Work(j) PROVE FinalLast'
    BY <1>9, <1>u DEF Work, Launch, WindsUp, Clear, Leaves, Started, Collect, CancelItem, Reviewed
  <1>10. CASE UNCHANGED vars BY <1>10, <1>u DEF vars
  <1>. QED
    BY <1>1, <1>2, <1>3, <1>4, <1>5, <1>6, <1>7, <1>8, <1>9, <1>10 DEF Next, Server, Enqueuers

(* Before the scan's end nothing needs to wait: its dispatch will come.    *)
LEMMA BeforeTheEnd ==
    ASSUME Waits, call[Final].at = "idle", call'[Final].at = "idle", UNCHANGED <<cmds, taking>>
    PROVE  Waits'
  <1>1. taking = Free /\ \A i \in DOMAIN cmds : ~Asked(cmds[i]) BY DEF Waits, FinalCurrent
  <1>2. FinalCurrent' BY <1>1 DEF FinalCurrent, Asked
  <1>. QED BY <1>2 DEF Waits, Awaits

(* The dispatch of the scan's end takes every finding that was not         *)
(* reviewed.                                                               *)
LEMMA EnsureWaits ==
    ASSUME Final \in Others, Sound, FinalLast, Waits, OnlyTheScan, OnlyTheScan',
           NEW c \in Callers, Ensure(c)
    PROVE  Waits'
  <1>. USE FinalIsNoItem
  <1>t. call \in [Callers -> CallType] BY DEF Sound, CallsOK
  <1>o. Over.at = "over" BY DEF Over, Idle
  <1>u. UNCHANGED <<found, reviewed, tried, cmds, taking, active>> BY DEF Ensure, ServerOnly, agentVars
  <1>1. PICK x : x.at \in {"ensured", "over"} /\ call' = [call EXCEPT ![c] = x] BY <1>o DEF Ensure
  <1>2. \A b \in Callers : call'[b] = IF b = c THEN x ELSE call[b] BY <1>t, <1>1
  <1>3. CASE c \in Items
    <2>1. call[Final].at = "idle" BY <1>3 DEF Ensure, Asks, FinalLast
    <2>. QED BY <1>u, <1>2, <1>3, <2>1, BeforeTheEnd
  <1>4. CASE c \in Others \ {Final}
    <2>1. call'[c].at = "idle" BY <1>4 DEF OnlyTheScan
    <2>. QED BY <1>1, <1>2, <2>1
  <1>5. CASE c = Final
    <2>1. call[Final].at = "idle" BY <1>5 DEF Ensure, Asks
    <2>2. taking = Free /\ \A i \in DOMAIN cmds : ~Asked(cmds[i]) BY <2>1 DEF Waits, FinalCurrent
    <2>3. FinalCurrent' BY <1>u, <1>1, <1>2, <1>5, <2>2 DEF FinalCurrent, Asked
    <2>4. ASSUME NEW v \in found, v \notin tried PROVE Awaits(v)'
      <3>1. v \in Unresolved /\ Confirmed = Unresolved
        BY <2>4 DEF Unresolved, Confirmed, Sound, FindingsOK
      <3>2. ~Refused(c)
        <4>1. Latest > 0 => Latest \in Jobs
          <5>1. Latest \in 0..MaxJob BY BegunAreFirst DEF Sound
          <5>. QED BY <5>1, ReviewAssumption DEF Jobs
        <4>2. ~(Latest > 0 /\ job[Latest].status = "cancelled") BY <4>1 DEF OnlyTheScan, Sound, StopOK
        <4>. QED BY <3>1, <4>2 DEF Refused
      <3>. DEFINE j == IF Fresh THEN Latest + 1 ELSE Latest
                  g == [at |-> "ensured", job |-> j, rev |-> 0,
                        force |-> c = Manual \/ (~Fresh /\ job[j].status \notin Running),
                        items |-> IF c \in Items THEN {c} ELSE Confirmed, ev |-> <<0, 0>>, next |-> Nobody]
      <3>3. call' = [call EXCEPT ![c] = g] BY <1>5, <3>2 DEF Ensure
      <3>4. call'[Final] = g BY <1>5, <1>t, <3>3
      <3>5. call'[Final].at = "ensured" /\ v \in call'[Final].items BY <1>5, <3>1, <3>4
      <3>. QED BY <3>5 DEF Awaits
    <2>. QED BY <1>u, <2>3, <2>4 DEF Waits
  <1>. QED BY <1>3, <1>4, <1>5 DEF Callers

LEMMA AcquireWaits ==
    ASSUME Final \in Others, Sound, FinalLast, Waits, OnlyTheScan,
           NEW c \in Callers, Acquire(c)
    PROVE  Waits'
  <1>. USE FinalIsNoItem
  <1>t. call \in [Callers -> CallType] BY DEF Sound, CallsOK
  <1>u. UNCHANGED <<found, tried, cmds, taking, active>> BY DEF Acquire, ServerOnly, agentVars
  <1>1. call' = [call EXCEPT ![c].at = "acquired", ![c].rev = Acquired(c)] BY DEF Acquire
  <1>2. CASE c \in Items
    <2>1. call[Final].at = "idle" BY <1>2 DEF Acquire, FinalLast
    <2>. QED BY <1>u, <1>1, <1>2, <1>t, <2>1, BeforeTheEnd
  <1>3. CASE c \in Others \ {Final} BY <1>3 DEF Acquire, OnlyTheScan
  <1>4. CASE c = Final
    <2>1. taking = Free /\ \A i \in DOMAIN cmds : ~Asked(cmds[i]) /\ call[Final].at = "ensured"
      BY <1>4 DEF Waits, FinalCurrent, Acquire
    <2>2. /\ call'[Final].at = "acquired" /\ call'[Final].rev = Acquired(Final)
          /\ call'[Final].items = call[Final].items /\ call'[Final].job = call[Final].job
      BY <1>1, <1>4, <1>t DEF CallType
    <2>3. call[Final].job \in Jobs BY <1>4 DEF Acquire, Sound, CallsOK, Dispatch, Begun
    <2>4. job'[call[Final].job].rev = Acquired(Final) BY <1>4, <2>3 DEF Acquire, Sound, JobsOK
    <2>5. FinalCurrent' BY <1>u, <2>1, <2>2, <2>4 DEF FinalCurrent, Current, Asked
    <2>6. ASSUME NEW v \in found, v \notin tried PROVE Awaits(v)'
      <3>1. Awaits(v) BY <2>6 DEF Waits
      <3>2. call[Final].at = "ensured" BY <1>4 DEF Acquire
      <3>. QED BY <1>u, <2>2, <3>1, <3>2 DEF Awaits, Asked
    <2>. QED BY <1>u, <2>5, <2>6 DEF Waits
  <1>. QED BY <1>2, <1>3, <1>4 DEF Callers

LEMMA SendWaits ==
    ASSUME Final \in Others, Sound, Waits, OnlyTheScan, NEW c \in Callers, Send(c)
    PROVE  Waits'
  <1>. USE FinalIsNoItem
  <1>t. call \in [Callers -> CallType] BY DEF Sound, CallsOK
  <1>u. UNCHANGED <<found, job, tried, taking, active>> BY DEF Send, ServerOnly, agentVars, jobVars
  <1>1. c = Final BY DEF Send, OnlyTheScan
  <1>. DEFINE d == [type |-> "fp_review", call |-> call[Final]]
  <1>2. call[Final].at = "acquired" /\ call'[Final].at = "over" BY <1>1, <1>t DEF Send, Over, Idle
  <1>3. taking = Free /\ Current(call[Final]) /\ \A i \in DOMAIN cmds : ~Asked(cmds[i])
    BY <1>2 DEF Waits, FinalCurrent
  <1>4. /\ cmds' = Append(cmds, d) /\ cmds \in Seq(Command) /\ d \in Command
        /\ d.type = "fp_review" /\ d.call = call[Final]
    BY <1>1 DEF Send, Sound, CommandsOK, CallsOK, Command
  <1>. HIDE DEF d
  <1>5. /\ DOMAIN cmds' = 1..(Len(cmds) + 1) /\ cmds'[Len(cmds) + 1] = d /\ Len(cmds) \in Nat /\ DOMAIN cmds = 1..Len(cmds)
        /\ \A i \in 1..Len(cmds) : cmds'[i] = cmds[i]
    BY <1>4
  <1>6. \A i \in DOMAIN cmds' : Asked(cmds'[i]) => cmds'[i].call = call[Final] BY <1>3, <1>4, <1>5
  <1>7. FinalCurrent' BY <1>u, <1>2, <1>3, <1>6 DEF FinalCurrent, Current, Asked
  <1>8. ASSUME NEW v \in found, v \notin tried PROVE Awaits(v)'
    <2>1. Awaits(v) BY <1>8 DEF Waits
    <2>2. CASE v \in call[Final].items
      <3>1. Len(cmds) + 1 \in DOMAIN cmds' BY <1>5
      <3>. QED BY <1>4, <1>5, <2>2, <3>1 DEF Awaits, Asked
    <2>3. CASE v \notin call[Final].items BY <1>u, <1>2, <1>3, <2>1, <2>3 DEF Awaits
    <2>. QED BY <2>2, <2>3
  <1>. QED BY <1>u, <1>7, <1>8 DEF Waits

LEMMA TakeReviewWaits ==
    ASSUME Sound, Waits, TakeReview
    PROVE  Waits'
  <1>u. UNCHANGED <<call, found, job, tried, active>> BY DEF TakeReview, AgentOnly, jobVars, agentVars
  <1>1. /\ cmds # <<>> /\ cmds \in Seq(Command) /\ Head(cmds).type = "fp_review" /\ cmds' = Tail(cmds)
        /\ taking = Free /\ taking' = [Head(cmds).call EXCEPT !.at = "items", !.force = FALSE]
    BY DEF TakeReview, Sound, CommandsOK
  <1>2. Head(cmds) = cmds[1] /\ 1 \in DOMAIN cmds /\ cmds[1] \in Command BY <1>1
  <1>3. Asked(cmds[1]) /\ call[Final].at = "over" /\ Current(cmds[1].call)
    BY <1>1, <1>2 DEF Asked, Waits, FinalCurrent
  <1>4. taking'.rev = cmds[1].call.rev /\ taking'.job = cmds[1].call.job /\ taking'.items = cmds[1].call.items
    BY <1>1, <1>2 DEF Command, CallType
  <1>5. /\ \A i \in DOMAIN cmds' : i + 1 \in DOMAIN cmds /\ cmds'[i] = cmds[i + 1]
        /\ \A i \in DOMAIN cmds : i = 1 \/ (i - 1 \in DOMAIN cmds' /\ cmds'[i - 1] = cmds[i])
    BY <1>1
  <1>6. FinalCurrent'
    <2>1. \A i \in DOMAIN cmds' : Asked(cmds'[i]) => Current(cmds'[i].call)
      BY <1>5 DEF Waits, FinalCurrent
    <2>. QED BY <1>u, <1>3, <1>4, <2>1 DEF FinalCurrent, Current, Asked
  <1>7. ASSUME NEW v \in found, v \notin tried PROVE Awaits(v)'
    <2>1. Awaits(v) BY <1>7 DEF Waits
    <2>2. v \notin taking.items BY <1>1 DEF Free, Idle
    <2>3. CASE \E i \in DOMAIN cmds : Asked(cmds[i]) /\ v \in cmds[i].call.items
      <3>1. PICK i \in DOMAIN cmds : Asked(cmds[i]) /\ v \in cmds[i].call.items BY <2>3
      <3>2. CASE i = 1 BY <1>4, <3>1, <3>2 DEF Awaits
      <3>3. CASE i # 1 BY <1>5, <3>1, <3>3 DEF Awaits, Asked
      <3>. QED BY <3>2, <3>3
    <2>4. CASE \E j \in Jobs : <<j, v>> \in active BY <1>u, <2>4 DEF Awaits
    <2>. QED BY <1>3, <2>1, <2>2, <2>3, <2>4 DEF Awaits
  <1>. QED BY <1>u, <1>6, <1>7 DEF Waits

(* An item of the command is taken up, or was already: what the scan's end *)
(* asks for is never refused as stale.                                     *)
LEMMA TakeItemWaits ==
    ASSUME Sound, Waits, NEW v \in Items, TakeItem(v)
    PROVE  Waits'
  <1>u. UNCHANGED <<call, found, job, tried, cmds>> BY DEF TakeItem, AgentOnly, jobVars
  <1>1. taking # Free /\ taking \in CallType /\ v \in taking.items BY DEF TakeItem, Free, Idle, Sound, TakingOK
  <1>2. PICK j \in Jobs : j = taking.job BY <1>1 DEF Sound, TakingOK, Dispatch, Begun
  <1>3. call[Final].at = "over" /\ Current(taking) BY <1>1 DEF Waits, FinalCurrent
  <1>4. taking.rev >= known[j]
    <2>1. known[j] <= job[j].rev /\ known[j] \in Nat /\ job[j].rev \in Nat BY DEF Sound, KnownOK, JobsOK
    <2>. QED BY <1>2, <1>3, <2>1 DEF Current
  <1>5. active \subseteq active' /\ <<j, v>> \in active'
        /\ (taking' = Free \/ (taking'.job = taking.job /\ taking'.rev = taking.rev))
        /\ taking.items \ {v} \subseteq taking'.items
    <2>1. CASE Accepts(j, taking.rev, v)
      <3>1. /\ Enters(j, v)
            /\ taking' = [taking EXCEPT !.at = "registering", !.items = @ \ {v}, !.ev = EventOf(j), !.next = v]
        BY <1>2, <2>1 DEF TakeItem
      <3>2. taking'.job = taking.job /\ taking'.rev = taking.rev /\ taking'.items = taking.items \ {v}
        BY <1>1, <3>1 DEF CallType
      <3>. QED BY <3>1, <3>2 DEF Enters
    <2>2. CASE ~Accepts(j, taking.rev, v)
      <3>1. <<j, v>> \in active BY <1>4, <2>2 DEF Accepts
      <3>2. taking' = Rest(taking.items \ {v}) /\ active' = active BY <1>2, <2>2 DEF TakeItem, Ignored
      <3>3. taking.items \ {v} = {} \/ (taking'.job = taking.job /\ taking'.rev = taking.rev /\ taking'.items = taking.items \ {v})
        BY <1>1, <3>2 DEF Rest, CallType
      <3>4. taking.items \ {v} = {} => taking' = Free BY <3>2 DEF Rest
      <3>. QED BY <3>1, <3>2, <3>3, <3>4
    <2>. QED BY <2>1, <2>2
  <1>6. FinalCurrent' BY <1>u, <1>3, <1>5 DEF Waits, FinalCurrent, Current, Asked
  <1>7. ASSUME NEW w \in found, w \notin tried PROVE Awaits(w)'
    <2>1. Awaits(w) BY <1>7 DEF Waits
    <2>. QED BY <1>u, <1>5, <2>1 DEF Awaits, Asked
  <1>. QED BY <1>u, <1>6, <1>7 DEF Waits

LEMMA QueueItemWaits ==
    ASSUME Sound, Waits, QueueItem
    PROVE  Waits'
  <1>u. UNCHANGED <<call, found, job, tried, cmds, active>> BY DEF QueueItem, AgentOnly, jobVars
  <1>1. taking # Free /\ taking \in CallType /\ taking' = Rest(taking.items)
    BY DEF QueueItem, Free, Idle, Sound, TakingOK
  <1>2. taking' = Free \/ (taking'.job = taking.job /\ taking'.rev = taking.rev) BY <1>1 DEF Rest, CallType
  <1>3. taking.items \subseteq taking'.items BY <1>1 DEF Rest, CallType
  <1>4. FinalCurrent' BY <1>u, <1>1, <1>2 DEF Waits, FinalCurrent, Current, Asked
  <1>5. ASSUME NEW w \in found, w \notin tried PROVE Awaits(w)'
    <2>1. Awaits(w) BY <1>5 DEF Waits
    <2>. QED BY <1>u, <1>3, <2>1 DEF Awaits, Asked
  <1>. QED BY <1>u, <1>4, <1>5 DEF Waits

(* The steps that lose nothing that waits.                                 *)
LEMMA WorkWaits ==
    ASSUME Final \in Others, Sound, Tracked, Waits, OnlyTheScan, NEW j \in Jobs, Work(j)
    PROVE  Waits'
  <1>1. AgentStep /\ UNCHANGED job
    BY DEF Work, Launch, WindsUp, Clear, Leaves, Started, Collect, CancelItem, Reviewed, AgentStep
  <1>2. CASE \E f \in flight[j], outcome \in Outcomes : Reviewed(j, f, outcome)
    <2>1. PICK f \in flight[j], outcome \in Outcomes : Reviewed(j, f, outcome) BY <1>2
    <2>2. active' = active \ {<<j, f.item>>} /\ tried' = tried \cup {f.item} BY <2>1 DEF Reviewed
    <2>. QED BY <1>1, <2>2, WaitsKept DEF AgentStep
  <1>3. CASE ~ \E f \in flight[j], outcome \in Outcomes : Reviewed(j, f, outcome)
    <2>1. ~Clear(j) /\ ~ \E f \in flight[j] : CancelItem(j, f) BY OnlyStoppedClears DEF OnlyTheScan
    <2>2. UNCHANGED <<active, tried>> BY <1>3, <2>1 DEF Work, Launch, WindsUp, Leaves, Started, Collect
    <2>. QED BY <1>1, <2>2, WaitsKept DEF AgentStep
  <1>. QED BY <1>2, <1>3

LEMMA TellStopWaits ==
    ASSUME Final \in Others, Sound, Waits, OnlyTheScan, TellStop
    PROVE  Waits'
  <1>1. PICK order \in [1..Cardinality(stop.jobs) -> stop.jobs] :
           cmds' = cmds \o [i \in DOMAIN order |->
                      [type |-> "fp_review_stop", call |-> [Idle EXCEPT !.job = order[i]]]]
    BY DEF TellStop
  <1>2. DOMAIN order = {}
    <2>1. Cardinality(stop.jobs) = 0 BY FS_EmptySet DEF OnlyTheScan
    <2>. QED BY <2>1
  <1>3. [i \in DOMAIN order |-> [type |-> "fp_review_stop", call |-> [Idle EXCEPT !.job = order[i]]]] = <<>>
    BY <1>2
  <1>4. cmds' = cmds
    <2>1. cmds \in Seq(Command) BY DEF Sound, CommandsOK
    <2>2. \A s \in Seq(Command) : s \o <<>> = s OBVIOUS
    <2>. QED BY <1>1, <1>3, <2>1, <2>2
  <1>. QED BY <1>4, WaitsKept DEF TellStop, ServerOnly, agentVars, jobVars

LEMMA NextWaits ==
    ASSUME Final \in Others, Sound, Tracked, FinalLast, Waits, OnlyTheScan, OnlyTheScan', [Next]_vars
    PROVE  Waits'
  <1>. USE FinalIsNoItem
  <1>t. call \in [Callers -> CallType] BY DEF Sound, CallsOK
  <1>j. job \in [Jobs -> [status : {"none", "complete", "error", "cancelled"} \cup Running, rev : Nat]]
    BY DEF Sound, JobsOK
  <1>1. ASSUME NEW v \in Items, Report(v) PROVE Waits'
    <2>1. call[Final].at = "idle" BY <1>1 DEF Report, FinalLast
    <2>. QED BY <1>1, <1>t, <2>1, BeforeTheEnd DEF Report, ServerOnly
  <1>2. CASE StopReviews
    <2>1. \A i \in Jobs : job'[i].rev = job[i].rev BY <1>2, <1>j DEF StopReviews
    <2>. QED BY <1>2, <2>1, WaitsKept DEF StopReviews, ServerOnly, agentVars
  <1>3. CASE TellStop BY <1>3, TellStopWaits
  <1>4. ASSUME NEW c \in Callers, Ensure(c) \/ Acquire(c) \/ Send(c) PROVE Waits'
    BY <1>4, EnsureWaits, AcquireWaits, SendWaits
  <1>5. CASE Deliver \/ Write \/ \E p \in progress : WriteProgress(p)
    <2>s. ASSUME NEW k, NEW s, Sets(k, s) PROVE \A i \in Jobs : job'[i].rev = job[i].rev
      BY <1>j, <2>s DEF Sets
    <2>u. UNCHANGED job \/ \E k : \E s : Sets(k, s)
      <3>1. CASE Deliver BY <3>1 DEF Deliver
      <3>2. CASE Write
        <4>1. CASE post.msg.key[1] = "finish" BY <3>2, <4>1 DEF Write
        <4>2. CASE post.msg.key[1] # "finish" BY <3>2, <4>2 DEF Write
        <4>. QED BY <4>1, <4>2
      <3>3. CASE \E p \in progress : WriteProgress(p) BY <3>3 DEF WriteProgress
      <3>. QED BY <1>5, <3>1, <3>2, <3>3
    <2>1. \A i \in Jobs : job'[i].rev = job[i].rev BY <2>s, <2>u
    <2>. QED BY <1>5, <2>1, WaitsKept DEF Deliver, Write, WriteProgress, Handles, agentVars
  <1>6. ASSUME NEW v \in Items, CalledBack(v) PROVE Waits'
    <2>1. call'[Final] = call[Final] /\ active \subseteq active' BY <1>6, <1>t DEF CalledBack, Enters, Ignored
    <2>. QED BY <1>6, <2>1, WaitsKept DEF CalledBack, jobVars
  <1>7. ASSUME NEW v \in Items, CallbackQueues(v) PROVE Waits'
    <2>1. call'[Final] = call[Final] BY <1>7, <1>t DEF CallbackQueues
    <2>. QED BY <1>7, <2>1, WaitsKept DEF CallbackQueues, jobVars
  <1>8. CASE TakeReview BY <1>8, TakeReviewWaits
  <1>9. ASSUME NEW v \in Items, TakeItem(v) PROVE Waits' BY <1>9, TakeItemWaits
  <1>10. CASE QueueItem BY <1>10, QueueItemWaits
  <1>11. CASE TakeStop
    <2>1. cmds # <<>> /\ cmds \in Seq(Command) /\ Head(cmds).type = "fp_review_stop"
      BY <1>11 DEF TakeStop, Sound, CommandsOK
    <2>2. Head(cmds) = cmds[1] /\ 1 \in DOMAIN cmds BY <2>1
    <2>. QED BY <2>1, <2>2 DEF Sound, CommandsOK, OnlyTheScan
  <1>12. ASSUME NEW j \in Jobs, Work(j) PROVE Waits' BY <1>12, WorkWaits
  <1>13. CASE UNCHANGED vars BY <1>13, WaitsKept DEF vars, jobVars, agentVars
  <1>. QED
    BY <1>1, <1>2, <1>3, <1>4, <1>5, <1>6, <1>7, <1>8, <1>9, <1>10, <1>11, <1>12, <1>13 DEF Next, Server, Enqueuers

LEMMA InitKept ==
    ASSUME Final \in Others, Init
    PROVE  Kept
  <1>1. call[Final].at = "idle" BY FinalIsNoItem, ReviewAssumption DEF Init, Over, Idle
  <1>2. taking = Free /\ DOMAIN cmds = {} BY DEF Init
  <1>. QED BY <1>1, <1>2 DEF Kept, FinalLast, Waits, FinalCurrent, Awaits

LEMMA NextKept ==
    ASSUME Final \in Others, Sound, Tracked, Kept, [Next]_vars
    PROVE  Kept'
  <1>1. FinalLast' BY FinalStaysLast DEF Kept
  <1>2. ASSUME OnlyTheScan' PROVE Waits'
    <2>1. OnlyTheScan BY <1>2, NoWayBack, ScanWasAlone
    <2>. QED BY <1>2, <2>1, NextWaits DEF Kept
  <1>. QED BY <1>1, <1>2 DEF Kept

(* When all came to an end, what waited was reviewed.                      *)
LEMMA KeptIsReviewed ==
    ASSUME Final \in Others, Sound, Tracked, Kept, OnlyTheScan, Settled, Idled
    PROVE  found \subseteq tried
  <1>. USE FinalIsNoItem
  <1>1. ASSUME NEW v \in found, v \notin tried PROVE FALSE
    <2>1. Awaits(v) BY <1>1 DEF Kept, Waits
    <2>2. call[Final].at = "over" /\ cmds = <<>> /\ taking = Free BY DEF Settled
    <2>3. v \notin taking.items /\ taking.at = "items" BY <2>2 DEF Free, Idle
    <2>4. PICK j \in Jobs : <<j, v>> \in active BY <2>1, <2>2, <2>3 DEF Awaits
    <2>5. v \in Items BY DEF Sound, FindingsOK
    <2>6. Registering(j, v) \/ InQueue(j, v) \/ InFlight(j, v)
      BY <2>4, <2>5 DEF Tracked, Tracks, Where, OnlyTheScan
    <2>7. ~Registering(j, v)
      <3>1. call[v].at = "over" BY <2>5, ReviewAssumption DEF Settled
      <3>. QED BY <2>3, <3>1 DEF Registering
    <2>8. queue[j] = <<>> /\ flight[j] = {}
      BY DEF Tracked, Tracks, WorkerOK, Idled, WorkerIs, OnlyTheScan
    <2>. QED BY <2>6, <2>7, <2>8 DEF InQueue, InFlight
  <1>. QED BY <1>1

(* When the dispatches of a scan and of its end came to an end and no      *)
(* worker is left, every finding was reviewed: a finding's own dispatch    *)
(* may be refused as stale, or merged with another, but not all of them.   *)
(* It takes the end of the scan: an item whose revision a later dispatch   *)
(* has overtaken is dropped, and only the last dispatch takes it up again. *)
THEOREM NoneIsForgotten ==
    ASSUME Final \in Others
    PROVE  Spec => []NoneForgotten
  <1>1. Init => Kept BY InitKept
  <1>2. Sound /\ Tracked /\ Kept /\ [Next]_vars => Kept' BY NextKept
  <1>3. Sound /\ Tracked /\ Kept => NoneForgotten
    BY KeptIsReviewed DEF NoneForgotten, AllReviewed, OnlyTheScan
  <1>. QED BY <1>1, <1>2, <1>3, SoundInvariant, TrackedInvariant, PTL DEF Spec
=============================================================================
