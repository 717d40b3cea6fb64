------------------------- MODULE ScanExecutionProofs -------------------------
(***************************************************************************)
(* Safety of the scan execution, and that it implements OneExecution, for  *)
(* every number of requests, executions, connections and restarts.         *)
(***************************************************************************)
EXTENDS ScanExecution, SequenceTheorems, TLAPS

Req == [at : Steps, rev : Revs, via : 0..MaxConns]
Post == [at : PostSteps, rep : Report \cup {None}, waited : BOOLEAN, stopped : BOOLEAN]
Sights == {"", "active"} \cup Terminal
Doing == [cmd : Command, at : {"stopping", "preparing", "starting", "failing"}]

(* A finish has an outcome, and the Agent can connect again.               *)
Finishes(q) == \A i \in 1..Len(q) : q[i].kind = "finish" => q[i].outcome \in Outcomes
PostsFit ==
    \A w \in Posts : post[w].at \in {"finish", "loading", "writing"} =>
        post[w].rep \in Report /\ post[w].rep.outcome \in Outcomes
LinkFits == (conn = 0 => conns < MaxConns) /\ conn <= conns

ServerTyped == row \in Row /\ cached \in BOOLEAN /\ req \in [Handlers -> Req]
PostTyped == post \in [Posts -> Post] /\ PostsFit
LinkTyped ==
    /\ hello \in [1..MaxConns -> Hello] /\ saw \in [Readers -> Sights]
    /\ conn \in 0..MaxConns /\ conns \in 0..MaxConns /\ grace \subseteq 1..MaxConns
    /\ restarts \in 0..MaxRestarts /\ LinkFits
AgentTyped ==
    /\ doing = None \/ doing \in Doing
    /\ runs \subseteq Run /\ seen \in Revs /\ last \in Revs
QueuesTyped == cmds \in Seq(Command) /\ outbox \in Seq(Report) /\ Finishes(outbox)

Typed == ServerTyped /\ PostTyped /\ LinkTyped /\ AgentTyped /\ QueuesTyped

(* The typing that the proofs work with contains the type invariant.       *)
LEMMA TypedSuffices == Typed => TypeOK
BY DEF Typed, TypeOK, ServerTyped, PostTyped, LinkTyped, AgentTyped, QueuesTyped, Req, Post, Doing, Sights

-----------------------------------------------------------------------------
(* The invariant.  A start under way, as a command, in the worker or still *)
(* in its handler, is newer than what was seen to run, unless something    *)
(* newer was seen; and a recovery that will claim its own revision again   *)
(* finds that this revision has never been sent.                           *)

Recovers ==
    req[Recover].at \in {"load", "ask", "wait", "claim"} /\ req[Recover].rev = row.rev
Below(r) == r <= row.rev /\ (seen = 0 => last < r) /\ (Recovers => r < row.rev)

RunsFit ==
    /\ \A x \in runs : x.rev = last
    /\ seen \in {0, last} /\ last <= row.rev /\ (Recovers => last < row.rev)
CommandsFit == \A i \in 1..Len(cmds) : cmds[i].do # "stop" => Below(cmds[i].rev)
DoingFits == doing # None /\ doing.at \in {"preparing", "starting"} => Below(doing.cmd.rev)
Fits(h) ==
    /\ req[h].rev <= row.rev /\ req[h].via <= conns
    /\ req[h].at = "prepare" => /\ Recovers => req[h].rev < row.rev
                                /\ seen = 0 /\ conn # 0 /\ req[h].via = conn => last < req[h].rev
HandlersFit == \A h \in Handlers : Fits(h)

Exec == RunsFit /\ CommandsFit /\ DoingFits /\ HandlersFit

Inv == Typed /\ Exec

USE ScanAssumption DEF Revs

-----------------------------------------------------------------------------
(* What the assignments of the actions do.                                 *)

(* The handlers and the recovery are handlers.                             *)
LEMMA HandlersAre == Create \in Handlers /\ Recover \in Handlers /\ Create \notin Stops /\ Recover \notin Stops
BY DEF Handlers

(* The connections are numbered from 1.                                    *)
LEMMA Connections == ASSUME Typed, conn # 0 PROVE conn \in 1..MaxConns
BY DEF Typed, LinkTyped

(* A request that is idle or done.                                         *)
LEMMA NoRequest ==
    /\ Idle \in Req /\ Idle.at = "idle" /\ Idle.rev = 0 /\ Idle.via = 0
    /\ Done \in Req /\ Done.at = "done" /\ Done.rev = 0 /\ Done.via = 0
BY DEF Idle, Done, Req, Steps

(* One request moves.                                                      *)
LEMMA MovesEffect ==
    ASSUME req \in [Handlers -> Req], NEW h \in Handlers, NEW q \in Req, Moves(h, q)
    PROVE  req' \in [Handlers -> Req] /\ req'[h] = q /\ \A g \in Handlers \ {h} : req'[g] = req[g]
BY DEF Moves

(* A request goes on; when it is done it forgets what it had.              *)
LEMMA ToEffect ==
    ASSUME req \in [Handlers -> Req], NEW h \in Handlers, NEW s \in Steps
    PROVE  /\ To(h, s) \in Req /\ To(h, s).at = s
           /\ To(h, s).rev \in {0, req[h].rev} /\ To(h, s).via \in {0, req[h].via}
           /\ s # "done" => To(h, s).rev = req[h].rev /\ To(h, s).via = req[h].via
<1>1. CASE s = "done"
  BY <1>1, NoRequest DEF To
<1>2. CASE s # "done"
  <2>1. To(h, s) = [req[h] EXCEPT !.at = s] /\ req[h] \in Req
    BY <1>2 DEF To
  <2> QED BY <1>2, <2>1 DEF Req
<1> QED BY <1>1, <1>2

(* The row takes a status and a reason.                                    *)
LEMMA BecomesEffect ==
    ASSUME row \in Row, NEW s \in Active \cup Terminal, NEW y \in Whys, Becomes(s, y)
    PROVE  row' \in Row /\ row'.st = s /\ row'.why = y /\ row'.rev = row.rev /\ row'.conn = row.conn
BY DEF Becomes, Row

(* The parts of a row.                                                     *)
LEMMA RowParts ==
    ASSUME row \in Row
    PROVE  row.st \in Active \cup Terminal /\ row.why \in Whys /\ row.rev \in Revs /\ row.conn \in 0..MaxConns
BY DEF Row

(* A handler of reports gets another state,                                *)
LEMMA PostEffect ==
    ASSUME PostTyped, NEW w \in Posts, NEW p \in Post, post' = [post EXCEPT ![w] = p],
           p.at \in {"finish", "loading", "writing"} => p.rep \in Report /\ p.rep.outcome \in Outcomes
    PROVE  PostTyped' /\ post'[w] = p /\ \A v \in Posts \ {w} : post'[v] = post[v]
<1>1. post' \in [Posts -> Post] /\ post'[w] = p /\ \A v \in Posts \ {w} : post'[v] = post[v]
  BY DEF PostTyped
<1> QED BY <1>1 DEF PostTyped, PostsFit

(* or goes on with its report.                                             *)
LEMMA ServeEffect ==
    ASSUME PostTyped, NEW w \in Posts, NEW from, NEW to \in PostSteps, Serve(w, from, to),
           to \in {"finish", "loading", "writing"} => from \in {"finish", "loading", "writing"}
    PROVE  /\ PostTyped' /\ post[w].at = from /\ post'[w].at = to /\ post'[w].rep = post[w].rep
           /\ post'[w].waited = post[w].waited /\ post'[w].stopped = post[w].stopped
           /\ \A v \in Posts \ {w} : post'[v] = post[v]
<1> DEFINE p == [at |-> to, rep |-> post[w].rep, waited |-> post[w].waited, stopped |-> post[w].stopped]
<1>1. post[w] \in Post
  BY DEF PostTyped
<1>2. [post[w] EXCEPT !.at = to] = p
  BY <1>1 DEF Post
<1>3. p \in Post
  BY <1>1 DEF Post
<1>4. post' = [post EXCEPT ![w] = p] /\ post[w].at = from
  BY <1>2 DEF Serve
<1>5. p.at \in {"finish", "loading", "writing"} => p.rep \in Report /\ p.rep.outcome \in Outcomes
  BY <1>4 DEF PostTyped, PostsFit
<1> HIDE DEF p
<1>6. PostTyped' /\ post'[w] = p /\ \A v \in Posts \ {w} : post'[v] = post[v]
  BY <1>3, <1>4, <1>5, PostEffect
<1> QED BY <1>4, <1>6 DEF p

-----------------------------------------------------------------------------
(* The handlers of reports change what is shown, never an execution.       *)

ShownOnly ==
    /\ row' \in Row /\ row'.rev = row.rev /\ cached' \in BOOLEAN /\ PostTyped'
    /\ UNCHANGED <<req, linkVars, saw, doing, runs, seen, last, restarts>>
    /\ outbox' \in Seq(Report) /\ Finishes(outbox')
    /\ Settled => Settled'

(* A handler of reports of a scan whose stop is settled.                   *)
Sober(p) == p.at \notin {"reviving", "caching", "advancing"} /\ (p.at = "writing" => p.stopped)

(* A step of one such handler that leaves a stopped row alone.             *)
LEMMA Shown ==
    ASSUME Typed, NEW w \in Posts, PostTyped', \A v \in Posts \ {w} : post'[v] = post[v],
           row' \in Row, row'.rev = row.rev, cached' \in BOOLEAN, Serves,
           Settled => StoppedByUser' /\ ~cached' /\ Sober(post'[w])
    PROVE  ShownOnly
<1>1. /\ UNCHANGED <<req, linkVars, saw, doing, runs, seen, last, restarts>>
      /\ outbox' \in Seq(Report) /\ Finishes(outbox')
  BY DEF Serves, linkVars, agentVars, Typed, QueuesTyped, Finishes
<1>2. Settled => Settled'
  BY <1>1 DEF Settled, Sober, linkVars
<1> QED BY <1>1, <1>2 DEF ShownOnly

(* What a settled stop says of one handler of reports, and of the row.     *)
LEMMA SettledPost ==
    ASSUME Typed, Settled, NEW w \in Posts
    PROVE  Sober(post[w]) /\ ~cached /\ StoppedByUser /\ row.st = "cancelled" /\ row.why = "user" /\ ~IsActive /\ ~Interrupted
BY DEF Settled, Sober, StoppedByUser, IsActive, Active, Interrupted

(* The row stays stopped when it stays.                                    *)
LEMMA StoppedStays ==
    ASSUME Typed, UNCHANGED row
    PROVE  row' \in Row /\ row'.rev = row.rev /\ (Settled => StoppedByUser')
BY DEF Typed, ServerTyped, Settled, StoppedByUser

USE DEF PostSteps

(* A finish is checked,                                                    *)
LEMMA CheckFinishStep ==
    ASSUME Typed, NEW w \in Posts, CheckFinish(w)
    PROVE  ShownOnly
<1> DEFINE to == IF MatchesExecution(post[w].rep) THEN "loading" ELSE "reply"
<1>1. Serve(w, "finish", to) /\ to \in {"loading", "reply"} /\ UNCHANGED <<row, cached>> /\ Serves
  BY DEF CheckFinish
<1> HIDE DEF to
<1>2. PostTyped' /\ post'[w].at = to /\ \A v \in Posts \ {w} : post'[v] = post[v]
  BY <1>1, ServeEffect DEF Typed
<1>3. Settled => StoppedByUser' /\ ~cached' /\ Sober(post'[w])
  BY <1>1, <1>2, SettledPost, StoppedStays DEF Sober
<1>4. cached' \in BOOLEAN
  BY <1>1 DEF Typed, ServerTyped
<1> QED BY <1>1, <1>2, <1>3, <1>4, StoppedStays, Shown

(* it loads the row,                                                       *)
LEMMA LoadFinishStep ==
    ASSUME Typed, NEW w \in Posts, LoadFinish(w)
    PROVE  ShownOnly
<1> DEFINE p == [at |-> "writing", rep |-> post[w].rep, waited |-> post[w].waited, stopped |-> StoppedByUser]
<1>1. post[w] \in Post /\ post[w].rep \in Report /\ post[w].rep.outcome \in Outcomes
  BY DEF LoadFinish, Typed, PostTyped, PostsFit
<1>2. StoppedByUser \in BOOLEAN
  BY DEF StoppedByUser
<1>3. p \in Post
  BY <1>1, <1>2 DEF Post
<1>4. post' = [post EXCEPT ![w] = [post[w] EXCEPT !.at = "writing", !.stopped = StoppedByUser]]
  BY DEF LoadFinish
<1>5. [post[w] EXCEPT !.at = "writing", !.stopped = StoppedByUser] = p
  <2> DEFINE t == [post[w] EXCEPT !.at = "writing"]
  <2>1. t = [at |-> "writing", rep |-> post[w].rep, waited |-> post[w].waited, stopped |-> post[w].stopped]
    BY <1>1 DEF Post
  <2> HIDE DEF t
  <2>2. [t EXCEPT !.stopped = StoppedByUser] = p
    BY <2>1
  <2> QED BY <2>2 DEF t
<1>6. PostTyped' /\ post'[w] = p /\ \A v \in Posts \ {w} : post'[v] = post[v]
  <2> HIDE DEF p
  <2>1. p.rep \in Report /\ p.rep.outcome \in Outcomes
    BY <1>1 DEF p
  <2> QED BY <1>3, <1>4, <1>5, <2>1, PostEffect DEF Typed
<1>7. Settled => StoppedByUser' /\ ~cached' /\ Sober(post'[w])
  BY <1>6, SettledPost, StoppedStays DEF LoadFinish, Sober
<1>8. UNCHANGED <<row, cached>> /\ Serves
  BY DEF LoadFinish
<1>9. cached' \in BOOLEAN
  BY <1>8 DEF Typed, ServerTyped
<1> QED BY <1>6, <1>7, <1>8, <1>9, StoppedStays, Shown

(* writes what it decided then,                                            *)
LEMMA WriteFinishStep ==
    ASSUME Typed, NEW w \in Posts, WriteFinish(w)
    PROVE  ShownOnly
<1> DEFINE to == IF cached THEN "dropping" ELSE "reply"
           outcome == post[w].rep.outcome
<1>1. Serve(w, "writing", to) /\ to \in {"dropping", "reply"} /\ UNCHANGED cached /\ Serves
  BY DEF WriteFinish
<1>2. outcome \in Outcomes /\ row.why \in Whys
  BY <1>1, RowParts DEF Serve, Typed, PostTyped, PostsFit, ServerTyped
<1>3. \/ post[w].stopped /\ Becomes("cancelled", "user")
      \/ ~post[w].stopped /\ \E y \in Whys : Becomes(outcome, y)
  <2>1. CASE post[w].stopped
    BY <2>1 DEF WriteFinish
  <2>2. CASE ~post[w].stopped
    <3> DEFINE y == IF outcome = "error" THEN "failed" ELSE row.why
    <3>1. y \in Whys
      BY <1>2 DEF Whys
    <3>2. Becomes(outcome, y)
      BY <2>2 DEF WriteFinish
    <3> HIDE DEF y
    <3> QED BY <2>2, <3>1, <3>2
  <2> QED BY <2>1, <2>2
<1> HIDE DEF to, outcome
<1>4. PostTyped' /\ post'[w].at = to /\ \A v \in Posts \ {w} : post'[v] = post[v]
  BY <1>1, ServeEffect DEF Typed
<1>5. row' \in Row /\ row'.rev = row.rev
  BY <1>2, <1>3, BecomesEffect DEF Typed, ServerTyped, Outcomes, Active, Terminal, Whys
<1>6. Settled => StoppedByUser' /\ ~cached' /\ Sober(post'[w])
  <2>1. Settled => post[w].stopped
    BY <1>1, SettledPost DEF Sober, Serve
  <2>2. Settled => StoppedByUser'
    BY <1>3, <2>1, BecomesEffect DEF StoppedByUser, Typed, ServerTyped, Terminal, Whys
  <2> QED BY <1>1, <1>4, <2>2, SettledPost DEF Sober
<1>7. cached' \in BOOLEAN
  BY <1>1 DEF Typed, ServerTyped
<1> QED BY <1>1, <1>4, <1>5, <1>6, <1>7, Shown

(* and drops the scan from the cache.                                      *)
LEMMA DropFinishedStep ==
    ASSUME Typed, NEW w \in Posts, DropFinished(w)
    PROVE  ShownOnly
<1>1. Serve(w, "dropping", "reply") /\ cached' = FALSE /\ UNCHANGED row /\ Serves
  BY DEF DropFinished
<1>2. PostTyped' /\ post'[w].at = "reply" /\ \A v \in Posts \ {w} : post'[v] = post[v]
  BY <1>1, ServeEffect DEF Typed
<1>3. Settled => StoppedByUser' /\ ~cached' /\ Sober(post'[w])
  BY <1>1, <1>2, StoppedStays DEF Sober
<1> QED BY <1>1, <1>2, <1>3, StoppedStays, Shown

(* A start that failed fails a pending execution only.                     *)
LEMMA FailStartStep ==
    ASSUME Typed, NEW w \in Posts, FailStart(w)
    PROVE  ShownOnly
<1>1. Serve(w, "failure", "reply") /\ Serves
  BY DEF FailStart
<1>2. PostTyped' /\ post'[w].at = "reply" /\ \A v \in Posts \ {w} : post'[v] = post[v]
  BY <1>1, ServeEffect DEF Typed
<1>3. CASE FailsExecution(post[w].rep.rev)
  <2>1. Becomes("error", "failed") /\ cached' = FALSE /\ row.st = "pending"
    BY <1>3 DEF FailStart, FailsExecution
  <2>2. row' \in Row /\ row'.rev = row.rev
    BY <2>1, BecomesEffect DEF Typed, ServerTyped, Terminal, Whys
  <2>3. ~Settled
    BY <2>1 DEF Settled, StoppedByUser
  <2> QED BY <1>1, <1>2, <2>1, <2>2, <2>3, Shown
<1>4. CASE ~FailsExecution(post[w].rep.rev)
  <2>1. UNCHANGED <<row, cached>>
    BY <1>4 DEF FailStart
  <2>2. Settled => StoppedByUser' /\ ~cached' /\ Sober(post'[w])
    BY <1>2, <2>1, SettledPost, StoppedStays DEF Sober
  <2>3. cached' \in BOOLEAN
    BY <2>1 DEF Typed, ServerTyped
  <2> QED BY <1>1, <1>2, <2>1, <2>2, <2>3, StoppedStays, Shown
<1> QED BY <1>3, <1>4

(* A result finds the scan cached, active, or to be revived.               *)
LEMMA EnsureRunningStep ==
    ASSUME Typed, NEW w \in Posts, EnsureRunning(w)
    PROVE  ShownOnly
<1>1. PICK to \in {"reply", "advancing", "caching", "reviving"} :
         /\ Serve(w, "result", to)
         /\ to = "advancing" => cached
         /\ to = "caching" => IsActive
         /\ to = "reviving" => Interrupted
  <2>1. CASE cached /\ Ensured(w, "result")
    BY <2>1 DEF Ensured
  <2>2. CASE ~cached /\ IsActive /\ Serve(w, "result", "caching")
    BY <2>2
  <2>3. CASE ~cached /\ ~IsActive /\ Serve(w, "result", IF Interrupted THEN "reviving" ELSE "reply")
    BY <2>3
  <2> QED BY <2>1, <2>2, <2>3 DEF EnsureRunning
<1>2. UNCHANGED <<row, cached>> /\ Serves
  BY DEF EnsureRunning
<1>3. PostTyped' /\ post'[w].at = to /\ \A v \in Posts \ {w} : post'[v] = post[v]
  BY <1>1, ServeEffect DEF Typed
<1>4. Settled => StoppedByUser' /\ ~cached' /\ Sober(post'[w])
  BY <1>1, <1>2, <1>3, SettledPost, StoppedStays DEF Sober
<1>5. cached' \in BOOLEAN
  BY <1>2 DEF Typed, ServerTyped
<1> QED BY <1>2, <1>3, <1>4, <1>5, StoppedStays, Shown

(* What revives, caches or advances had read the scan before it stopped.   *)
LEMMA ReviveStep ==
    ASSUME Typed, NEW w \in Posts, Revive(w)
    PROVE  ShownOnly
<1>1. Serve(w, "reviving", "caching") /\ Becomes("running", "") /\ UNCHANGED cached /\ Serves
  BY DEF Revive
<1>2. PostTyped' /\ \A v \in Posts \ {w} : post'[v] = post[v]
  BY <1>1, ServeEffect DEF Typed
<1>3. row' \in Row /\ row'.rev = row.rev
  BY <1>1, BecomesEffect DEF Typed, ServerTyped, Active, Whys
<1>4. ~Settled
  BY <1>1, SettledPost DEF Sober, Serve
<1>5. cached' \in BOOLEAN
  BY <1>1 DEF Typed, ServerTyped
<1> QED BY <1>1, <1>2, <1>3, <1>4, <1>5, Shown

(* The scan is cached by a handler that found it active or revived it.     *)
LEMMA CacheStep ==
    ASSUME Typed, NEW w \in Posts, Cache(w)
    PROVE  ShownOnly
<1>1. PICK to \in {"reply", "advancing"} : Serve(w, "caching", to)
  BY DEF Cache, Ensured
<1>2. cached' = TRUE /\ UNCHANGED row /\ Serves
  BY DEF Cache
<1>3. PostTyped' /\ \A v \in Posts \ {w} : post'[v] = post[v]
  BY <1>1, ServeEffect DEF Typed
<1>4. ~Settled
  BY <1>1, SettledPost DEF Sober, Serve
<1> QED BY <1>2, <1>3, <1>4, StoppedStays, Shown

(* An event advances the status of a scan that was cached.                 *)
LEMMA AdvanceStep ==
    ASSUME Typed, NEW w \in Posts, Advance(w)
    PROVE  ShownOnly
<1>1. Serve(w, "advancing", "reply") /\ UNCHANGED cached /\ Serves /\ row' = [row EXCEPT !.st = "running"]
  BY DEF Advance
<1>2. PostTyped' /\ \A v \in Posts \ {w} : post'[v] = post[v]
  BY <1>1, ServeEffect DEF Typed
<1>3. row' \in Row /\ row'.rev = row.rev
  BY <1>1 DEF Typed, ServerTyped, Row, Active
<1>4. ~Settled
  BY <1>1, SettledPost DEF Sober, Serve
<1>5. cached' \in BOOLEAN
  BY <1>1 DEF Typed, ServerTyped
<1> QED BY <1>1, <1>2, <1>3, <1>4, <1>5, Shown

(* A handler of reports that has nothing to do.                            *)
LEMMA NoReport == IdlePost \in Post /\ IdlePost.at = "idle"
BY DEF IdlePost, Post

(* A handler of reports that has got one.                                  *)
LEMMA GotReport ==
    ASSUME NEW x \in Report, x.kind \in {"finish", "failure", "result"}, NEW w \in Posts,
           post' = [post EXCEPT ![w] = [IdlePost EXCEPT !.at = x.kind, !.rep = x, !.waited = TRUE]]
    PROVE  \E p \in Post : p.at = x.kind /\ p.rep = x /\ post' = [post EXCEPT ![w] = p]
<1>1. PICK p : p = [IdlePost EXCEPT !.at = x.kind, !.rep = x, !.waited = TRUE]
  OBVIOUS
<1>2. p \in Post
  BY <1>1, NoReport DEF Post
<1>3. p.at = x.kind /\ p.rep = x
  BY <1>1, NoReport DEF Post
<1> QED BY <1>1, <1>2, <1>3

(* A report arrives,                                                       *)
LEMMA DeliverStep ==
    ASSUME Typed, NEW w \in Posts, Deliver(w)
    PROVE  ShownOnly
<1> DEFINE x == Head(outbox)
<1>1. x \in Report /\ (x.kind = "finish" => x.outcome \in Outcomes)
  BY DEF Deliver, Typed, QueuesTyped, Finishes
<1>2. x.kind \in {"finish", "failure", "result"}
  BY <1>1 DEF Report
<1>3. post' = [post EXCEPT ![w] = [IdlePost EXCEPT !.at = x.kind, !.rep = x, !.waited = TRUE]]
  BY DEF Deliver
<1> HIDE DEF x
<1>6. PICK p \in Post : p.at = x.kind /\ p.rep = x /\ post' = [post EXCEPT ![w] = p]
  BY <1>1, <1>2, <1>3, GotReport
<1>7. PostTyped' /\ post'[w] = p /\ \A v \in Posts \ {w} : post'[v] = post[v]
  BY <1>1, <1>2, <1>6, PostEffect DEF Typed
<1>8. UNCHANGED <<row, cached>> /\ Serves
  BY DEF Deliver, Serves, linkVars, agentVars
<1>9. Settled => StoppedByUser' /\ ~cached' /\ Sober(post'[w])
  BY <1>2, <1>6, <1>7, <1>8, SettledPost, StoppedStays DEF Sober
<1>10. cached' \in BOOLEAN
  BY <1>8 DEF Typed, ServerTyped
<1> QED BY <1>7, <1>8, <1>9, <1>10, StoppedStays, Shown

(* the Agent stops waiting for its answer,                                 *)
LEMMA UnansweredStep ==
    ASSUME Typed, NEW w \in Posts, Unanswered(w)
    PROVE  ShownOnly
<1>1. post[w] \in Post
  BY DEF Typed, PostTyped
<1>2. PICK p : p = [post[w] EXCEPT !.waited = FALSE]
  OBVIOUS
<1>3. p \in Post /\ p.at = post[w].at /\ p.rep = post[w].rep /\ p.stopped = post[w].stopped
  BY <1>1, <1>2 DEF Post
<1>4. /\ post' = [post EXCEPT ![w] = p] /\ Sober(p) = Sober(post[w])
      /\ p.at \in {"finish", "loading", "writing"} => p.rep \in Report /\ p.rep.outcome \in Outcomes
  BY <1>2, <1>3 DEF Unanswered, Sober, Typed, PostTyped, PostsFit
<1>5. PostTyped' /\ post'[w] = p /\ \A v \in Posts \ {w} : post'[v] = post[v]
  BY <1>3, <1>4, PostEffect DEF Typed
<1>6. UNCHANGED <<row, cached>> /\ Serves
  BY DEF Unanswered, Serves, linkVars, agentVars
<1>7. Settled => StoppedByUser' /\ ~cached' /\ Sober(post'[w])
  BY <1>4, <1>5, <1>6, SettledPost, StoppedStays
<1>8. cached' \in BOOLEAN
  BY <1>6 DEF Typed, ServerTyped
<1> QED BY <1>5, <1>6, <1>7, <1>8, StoppedStays, Shown

(* or takes the answer.                                                    *)
LEMMA AnsweredStep ==
    ASSUME Typed, NEW w \in Posts, Answered(w)
    PROVE  ShownOnly
<1>2. PostTyped' /\ post'[w] = IdlePost /\ \A v \in Posts \ {w} : post'[v] = post[v]
  BY NoReport, PostEffect DEF Typed, Answered
<1>3. outbox' = outbox \/ (outbox # <<>> /\ outbox' = Tail(outbox))
  BY DEF Answered
<1>4. outbox' \in Seq(Report) /\ Finishes(outbox')
  <2>1. CASE outbox # <<>> /\ outbox' = Tail(outbox)
    <3>1. /\ outbox' \in Seq(Report) /\ Len(outbox') = Len(outbox) - 1 /\ Len(outbox) \in Nat
          /\ \A i \in 1..Len(outbox') : outbox'[i] = outbox[i+1] /\ i + 1 \in 1..Len(outbox)
      BY <2>1 DEF Typed, QueuesTyped
    <3> QED BY <3>1 DEF Typed, QueuesTyped, Finishes
  <2> QED BY <1>3, <2>1 DEF Typed, QueuesTyped, Finishes
<1>5. UNCHANGED <<row, cached, req, linkVars, saw, doing, runs, seen, last, restarts>>
  BY DEF Answered
<1>6. Settled => Settled'
  <2>1. Settled => StoppedByUser' /\ ~cached' /\ Sober(post'[w])
    BY NoReport, <1>2, <1>5, SettledPost, StoppedStays DEF Sober
  <2> QED BY <1>2, <1>5, <2>1 DEF Settled, Sober, linkVars
<1> QED BY <1>2, <1>4, <1>5, <1>6, StoppedStays DEF ShownOnly, Typed, ServerTyped

(* So it is with all of them.                                              *)
LEMMA HandleReportStep ==
    ASSUME Typed, NEW w \in Posts, HandleReport(w)
    PROVE  ShownOnly
BY DeliverStep, UnansweredStep, CheckFinishStep, LoadFinishStep, WriteFinishStep, DropFinishedStep,
   FailStartStep, EnsureRunningStep, ReviveStep, CacheStep, AdvanceStep, AnsweredStep DEF HandleReport

-----------------------------------------------------------------------------
(* What every step but a start keeps.                                      *)

Lasts == Settled /\ row'.rev = row.rev => Settled'
Calm == Typed' /\ Exec' /\ Lasts /\ last' = last /\ (runs = {} => runs' = {})

(* What is read of the scan, by handshakes, viewers and stops.             *)
Rewrites(k) == k.at \in {"write", "cache"}
ReadsFit ==
    /\ hello' \in [1..MaxConns -> Hello] /\ saw' \in [Readers -> Sights]
    /\ Settled => /\ \A c \in 1..MaxConns : ~Rewrites(hello'[c])
                  /\ \A x \in Readers : saw'[x] \in {"", "cancelled"}

Commands(q) == \A i \in 1..Len(q) : q[i].do # "stop" => Below(q[i].rev)
Worker(d) == d # None /\ d.at \in {"preparing", "starting"} => Below(d.cmd.rev)

(* Nothing more is read,                                                   *)
LEMMA ReadsStay == ASSUME Typed, UNCHANGED <<hello, saw>> PROVE ReadsFit
BY DEF Typed, LinkTyped, ReadsFit, Rewrites, Settled

(* one handshake goes on,                                                  *)
LEMMA HelloMoves ==
    ASSUME Typed, NEW c \in 1..MaxConns, NEW k \in Hello, hello' = [hello EXCEPT ![c] = k],
           UNCHANGED saw, Settled => ~Rewrites(k)
    PROVE  ReadsFit
<1>1. /\ hello' \in [1..MaxConns -> Hello] /\ saw' \in [Readers -> Sights]
      /\ \A d \in 1..MaxConns : hello'[d] = IF d = c THEN k ELSE hello[d]
  BY DEF Typed, LinkTyped
<1> QED BY <1>1 DEF ReadsFit, Rewrites, Settled

(* or a viewer or a stop does.                                             *)
LEMMA SawMoves ==
    ASSUME Typed, NEW x \in Readers, NEW y \in Sights, saw' = [saw EXCEPT ![x] = y],
           UNCHANGED hello, Settled => y \in {"", "cancelled"}
    PROVE  ReadsFit
<1>1. /\ hello' \in [1..MaxConns -> Hello] /\ saw' \in [Readers -> Sights]
      /\ \A z \in Readers : saw'[z] = IF z = x THEN y ELSE saw[z]
  BY DEF Typed, LinkTyped
<1> QED BY <1>1 DEF ReadsFit, Rewrites, Settled

(* A handshake that is over, and a connection that is open.                *)
LEMMA NoHandshake ==
    NoHello \in Hello /\ ~Rewrites(NoHello) /\ Open \in Hello /\ Open.at = "open" /\ ~Rewrites(Open)
<1>1. NoHello \in Hello /\ NoHello.at = "closed"
  BY DEF NoHello, Hello, Active
<1>2. Open \in Hello /\ Open.at = "open"
  BY <1>1 DEF Open, Hello
<1> QED BY <1>1, <1>2 DEF Rewrites

(* The revisions are numbers.                                              *)
LEMMA Numbers ==
    ASSUME Typed
    PROVE  /\ row \in Row /\ row.rev \in Nat /\ last \in Nat /\ seen \in Nat /\ conn \in Nat /\ conns \in Nat
           /\ \A h \in Handlers : req[h] \in Req /\ req[h].rev \in Nat /\ req[h].via \in Nat
           /\ \A i \in 1..Len(cmds) : cmds[i] \in Command /\ cmds[i].rev \in Nat
           /\ doing # None => doing \in Doing /\ doing.cmd \in Command /\ doing.cmd.rev \in Nat
<1>1. row.rev \in Nat /\ last \in Nat /\ seen \in Nat /\ conn \in Nat /\ conns \in Nat
  BY DEF Typed, ServerTyped, LinkTyped, AgentTyped, Row
<1>2. \A h \in Handlers : req[h] \in Req /\ req[h].rev \in Nat /\ req[h].via \in Nat
  BY DEF Typed, ServerTyped, Req
<1>3. \A i \in 1..Len(cmds) : cmds[i] \in Command /\ cmds[i].rev \in Nat
  <2>1. \A i \in 1..Len(cmds) : cmds[i] \in Command
    BY DEF Typed, QueuesTyped
  <2> QED BY <2>1 DEF Command
<1>4. doing # None => doing \in Doing /\ doing.cmd \in Command /\ doing.cmd.rev \in Nat
  BY DEF Typed, AgentTyped, Doing, Command
<1> QED BY <1>1, <1>2, <1>3, <1>4 DEF Typed, ServerTyped

(* Nothing starts and the revision of the row stays.                       *)
LEMMA ExecKept ==
    ASSUME Inv, row'.rev = row.rev, UNCHANGED <<seen, last>>, Recovers' => Recovers,
           \A x \in runs' : x.rev = last, Commands(cmds'), Worker(doing'),
           \A h \in Handlers :
               /\ req'[h].rev <= row.rev /\ req'[h].via <= conns'
               /\ req'[h].at = "prepare" =>
                    /\ Recovers => req'[h].rev < row.rev
                    /\ seen = 0 /\ conn' # 0 /\ req'[h].via = conn' => last < req'[h].rev
    PROVE  Exec'
<1>1. RunsFit'
  BY DEF RunsFit, Inv, Exec
<1>2. CommandsFit'
  BY DEF CommandsFit, Commands, Below
<1>3. DoingFits'
  BY DEF DoingFits, Worker, Below
<1>4. HandlersFit'
  BY DEF HandlersFit, Fits
<1> QED BY <1>1, <1>2, <1>3, <1>4 DEF Exec

(* The starts under way, when nothing touches them.                        *)
LEMMA StartsStay ==
    ASSUME Inv
    PROVE  /\ Commands(cmds) /\ Worker(doing) /\ \A x \in runs : x.rev = last
           /\ \A h \in Handlers : Fits(h)
BY DEF Inv, Exec, CommandsFit, DoingFits, Commands, Worker, RunsFit, HandlersFit

(* A command is sent.                                                      *)
LEMMA Sent ==
    ASSUME Inv, NEW c \in Command, cmds' = Append(cmds, c), c.do # "stop" => Below(c.rev)
    PROVE  cmds' \in Seq(Command) /\ Commands(cmds')
<1>1. cmds \in Seq(Command)
  BY DEF Inv, Typed, QueuesTyped
<1>2. /\ Append(cmds, c) \in Seq(Command) /\ Len(Append(cmds, c)) = Len(cmds) + 1 /\ Len(cmds) \in Nat
      /\ \A i \in 1..Len(cmds) : Append(cmds, c)[i] = cmds[i]
      /\ Append(cmds, c)[Len(cmds) + 1] = c
  BY <1>1
<1>3. \A i \in 1..(Len(cmds) + 1) : i \in 1..Len(cmds) \/ i = Len(cmds) + 1
  BY <1>2
<1> QED BY <1>2, <1>3, StartsStay DEF Commands

RecoverySteps == {"load", "ask", "wait", "claim"}

(* A request handler moves without preparing a start; what it sends is     *)
(* fit; what it writes leaves a settled stop alone.                        *)
LEMMA HandlerMoves ==
    ASSUME Inv, NEW h \in Handlers, NEW q \in Req, Moves(h, q),
           q.at # "prepare", q.rev <= row.rev, q.via <= conns,
           h = Recover /\ q.at \in RecoverySteps /\ q.rev = row.rev => Recovers,
           row' \in Row, row'.rev = row.rev, cached' \in BOOLEAN,
           ReadsFit, cmds' \in Seq(Command), Commands(cmds'),
           UNCHANGED <<post, conn, conns, grace, agentVars, restarts>>,
           Settled => StoppedByUser' /\ ~cached' /\ q.at # "lost"
    PROVE  Calm
<1>1. req' \in [Handlers -> Req] /\ req'[h] = q /\ \A g \in Handlers \ {h} : req'[g] = req[g]
  BY MovesEffect DEF Inv, Typed, ServerTyped
<1>2. Typed'
  <2>1. ServerTyped'
    BY <1>1 DEF ServerTyped
  <2>2. PostTyped' /\ LinkTyped' /\ AgentTyped' /\ QueuesTyped'
    BY DEF Inv, Typed, PostTyped, PostsFit, LinkTyped, LinkFits, AgentTyped, QueuesTyped, Finishes,
           agentVars, ReadsFit
  <2> QED BY <2>1, <2>2 DEF Typed
<1>3. Exec'
  <2>1. Recovers' => Recovers
    BY <1>1, HandlersAre DEF Recovers, RecoverySteps
  <2>2. UNCHANGED <<seen, last>> /\ Worker(doing') /\ \A x \in runs' : x.rev = last
    BY StartsStay DEF agentVars
  <2>3. ASSUME NEW g \in Handlers
        PROVE  /\ req'[g].rev <= row.rev /\ req'[g].via <= conns'
               /\ req'[g].at = "prepare" =>
                    /\ Recovers => req'[g].rev < row.rev
                    /\ seen = 0 /\ conn' # 0 /\ req'[g].via = conn' => last < req'[g].rev
    BY <1>1, StartsStay DEF Fits
  <2> QED BY <2>1, <2>2, <2>3, ExecKept
<1>4. Settled => Settled'
  BY <1>1 DEF Settled, ReadsFit, Rewrites
<1> QED BY <1>2, <1>3, <1>4 DEF Calm, Lasts, agentVars

(* What a handler carries fits when it moves on.                           *)
LEMMA Onward ==
    ASSUME Inv, NEW h \in Handlers, NEW s \in Steps
    PROVE  /\ To(h, s) \in Req /\ To(h, s).at = s /\ To(h, s).rev <= row.rev /\ To(h, s).via <= conns
           /\ req[h].at \in RecoverySteps /\ h = Recover /\ To(h, s).rev = row.rev /\ s # "done" => Recovers
<1>1. /\ To(h, s) \in Req /\ To(h, s).at = s
      /\ To(h, s).rev \in {0, req[h].rev} /\ To(h, s).via \in {0, req[h].via}
      /\ s # "done" => To(h, s).rev = req[h].rev
  BY ToEffect DEF Inv, Typed, ServerTyped
<1>2. req[h].rev <= row.rev /\ req[h].via <= conns /\ 0 <= row.rev /\ 0 <= conns
  BY StartsStay, Numbers DEF Fits, Inv
<1> QED BY <1>1, <1>2 DEF RecoverySteps, Recovers

(* A step of the server that changes what it shows of the scan.            *)
LEMMA ServerOnlyStep ==
    ASSUME Inv, row' \in Row, row'.rev = row.rev, cached' \in BOOLEAN, ReadsFit,
           grace' \subseteq 1..MaxConns, UNCHANGED <<req, post, conn, conns, cmds, agentVars, restarts>>,
           Settled => StoppedByUser' /\ ~cached'
    PROVE  Calm
<1>1. UNCHANGED <<doing, runs, seen, outbox, last>>
  BY DEF agentVars
<1>2. Typed'
  BY <1>1 DEF Inv, Typed, ServerTyped, PostTyped, PostsFit, LinkTyped, LinkFits, AgentTyped, QueuesTyped,
              Finishes, ReadsFit
<1>3. Exec'
  <2>1. Recovers' => Recovers
    BY DEF Recovers
  <2>2. Commands(cmds') /\ Worker(doing') /\ \A x \in runs' : x.rev = last
    BY <1>1, StartsStay
  <2>3. ASSUME NEW g \in Handlers
        PROVE  /\ req'[g].rev <= row.rev /\ req'[g].via <= conns'
               /\ req'[g].at = "prepare" =>
                    /\ Recovers => req'[g].rev < row.rev
                    /\ seen = 0 /\ conn' # 0 /\ req'[g].via = conn' => last < req'[g].rev
    BY StartsStay DEF Fits
  <2> QED BY <1>1, <2>1, <2>2, <2>3, ExecKept
<1>4. Settled => Settled'
  BY DEF Settled, ReadsFit, Rewrites
<1> QED BY <1>1, <1>2, <1>3, <1>4 DEF Calm, Lasts

(* The frame of a handler that touches neither queue nor handshake.        *)
LEMMA StaysFrame ==
    ASSUME Inv, Stays
    PROVE  /\ UNCHANGED <<post, conn, conns, grace, agentVars, restarts>> /\ ReadsFit
           /\ cmds' \in Seq(Command) /\ Commands(cmds')
<1>1. UNCHANGED <<hello, saw, cmds, post, conn, conns, grace, agentVars, restarts>>
  BY DEF Stays, linkVars
<1> QED BY <1>1, StartsStay, ReadsStay DEF Inv, Typed, QueuesTyped

-----------------------------------------------------------------------------
(* The request handlers and the recovery.                                  *)

USE DEF Steps, Active, Terminal, Whys, RecoverySteps

(* Inv with its parts at hand.                                             *)
LEMMA InvParts ==
    ASSUME Inv
    PROVE  /\ row \in Row /\ row.st \in Active \cup Terminal /\ row.why \in Whys
           /\ row.rev \in Nat /\ cached \in BOOLEAN /\ req \in [Handlers -> Req] /\ Typed
BY Numbers, RowParts DEF Inv, Typed, ServerTyped

(* What is always within the bounds of a handler.                          *)
LEMMA Bounds == ASSUME Inv PROVE 0 <= row.rev /\ row.rev <= row.rev /\ 0 <= conns /\ conn <= conns
<1>1. Typed
  BY DEF Inv
<1>2. conn <= conns
  BY <1>1 DEF Typed, LinkTyped, LinkFits
<1> QED BY <1>1, <1>2, Numbers

(* A settled stop is no other state of the row, and no handler holds it.   *)
LEMMA SettledRow ==
    ASSUME Settled
    PROVE  /\ StoppedByUser /\ ~IsActive /\ ~Recovering /\ ~cached /\ ~Interrupted
           /\ \A h \in Handlers : req[h].at \notin {"prepare", "lost"}
           /\ \A r : ~FailsExecution(r) /\ ~FailsRecovery(r)
BY DEF Settled, StoppedByUser, IsActive, Recovering, Interrupted, FailsExecution, FailsRecovery

(* A row and a cache that stay.                                            *)
LEMMA ShownStays ==
    ASSUME Inv, UNCHANGED row, cached' \in {cached, FALSE}
    PROVE  row' \in Row /\ row'.rev = row.rev /\ cached' \in BOOLEAN /\ (Settled => StoppedByUser' /\ ~cached')
<1>1. row' \in Row /\ row'.rev = row.rev /\ cached' \in BOOLEAN
  BY InvParts
<1>2. Settled => StoppedByUser' /\ ~cached'
  BY SettledRow DEF StoppedByUser
<1> QED BY <1>1, <1>2

(* The stop request reads the row,                                         *)
LEMMA LoadForStopStep ==
    ASSUME Inv, NEW h \in Handlers, LoadForStop(h)
    PROVE  Calm
<1>1. /\ UNCHANGED <<row, post, linkVars, agentVars, restarts>> /\ h \in Readers
      /\ cached' \in {cached, FALSE}
  BY DEF LoadForStop, Readers
<1>2. PICK q \in Req : Moves(h, q) /\ q.at \in {"write", "done"} /\ q.rev <= row.rev /\ q.via = 0
  <2>1. CASE Moves(h, [Idle EXCEPT !.at = "write", !.rev = row.rev])
    <3>1. PICK p : p = [Idle EXCEPT !.at = "write", !.rev = row.rev]
      OBVIOUS
    <3>2. p \in Req /\ p.at = "write" /\ p.rev = row.rev /\ p.via = 0
      BY <3>1, NoRequest, InvParts, RowParts DEF Req
    <3> QED BY <2>1, <3>1, <3>2, Bounds
  <2>2. CASE Moves(h, Done)
    BY <2>2, NoRequest, Bounds
  <2> QED BY <2>1, <2>2 DEF LoadForStop
<1>3. ReadsFit
  <2>1. UNCHANGED hello
    BY <1>1 DEF linkVars
  <2>2. CASE UNCHANGED saw
    BY <2>1, <2>2, ReadsStay, InvParts
  <2>3. CASE ~IsActive /\ \E st \in {"", row.st} : saw' = [saw EXCEPT ![h] = st]
    <3>1. PICK y \in {"", row.st} : saw' = [saw EXCEPT ![h] = y]
      BY <2>3
    <3>2. y \in Sights /\ (Settled => y \in {"", "cancelled"})
      BY <2>3, InvParts DEF IsActive, Sights, Settled, StoppedByUser
    <3> QED BY <1>1, <2>1, <3>1, <3>2, SawMoves, InvParts
  <2> QED BY <2>2, <2>3 DEF LoadForStop
<1>4. UNCHANGED <<cmds, conn, conns, grace>> /\ cmds' \in Seq(Command) /\ Commands(cmds') /\ q.via <= conns
  BY <1>1, <1>2, StartsStay, Bounds DEF linkVars, Inv, Typed, QueuesTyped
<1> QED BY <1>1, <1>2, <1>3, <1>4, ShownStays, HandlerMoves

(* and stores what the user wants.                                         *)
LEMMA WriteStopStep ==
    ASSUME Inv, NEW h \in Handlers, WriteStop(h)
    PROVE  Calm
<1>1. Moves(h, To(h, "ask")) /\ Becomes("cancelled", "user") /\ cached' = FALSE /\ Stays /\ h \in Stops
  BY DEF WriteStop, Goes
<1>2. row' \in Row /\ row'.rev = row.rev /\ StoppedByUser'
  BY <1>1, InvParts, BecomesEffect DEF StoppedByUser
<1>3. h # Recover
  BY <1>1, HandlersAre
<1> QED BY <1>1, <1>2, <1>3, Onward, StaysFrame, HandlerMoves

(* A stop of the reviews writes the status that it had read once more.     *)
LEMMA WriteBackStep ==
    ASSUME Inv, NEW h \in Handlers, WriteBack(h)
    PROVE  Calm
<1>1. /\ UNCHANGED <<cached, req, post, linkVars, agentVars, restarts>> /\ saw[h] \in Terminal
      /\ row' = [row EXCEPT !.st = saw[h]] /\ saw' = [saw EXCEPT ![h] = ""] /\ h \in Readers
  BY DEF WriteBack, Readers
<1>2. row' \in Row /\ row'.rev = row.rev /\ row'.st = saw[h] /\ row'.why = row.why
  BY <1>1, InvParts DEF Row
<1>3. Settled => StoppedByUser' /\ ~cached'
  BY <1>1, <1>2 DEF Settled, StoppedByUser
<1>4. UNCHANGED <<hello, conn, conns, cmds, grace>> /\ grace' \subseteq 1..MaxConns
  BY <1>1 DEF linkVars, Inv, Typed, LinkTyped
<1>5. ReadsFit
  BY <1>1, <1>4, SawMoves, InvParts DEF Sights
<1> QED BY <1>1, <1>2, <1>3, <1>4, <1>5, InvParts, ServerOnlyStep

(* A continue, or a recovery that still owns the row, goes on to ask.      *)
LEMMA LoadForContinueStep ==
    ASSUME Inv, NEW h \in Handlers, LoadForContinue(h)
    PROVE  Calm
<1>1. PICK q : q = [req[h] EXCEPT !.at = "ask", !.rev = row.rev]
  OBVIOUS
<1>2. q \in Req /\ q.at = "ask" /\ q.rev = row.rev /\ q.via = req[h].via
  BY <1>1, InvParts, RowParts DEF Req
<1>3. Moves(h, q) /\ UNCHANGED row /\ cached' \in {cached, FALSE} /\ Stays
  BY <1>1 DEF LoadForContinue
<1>4. h = Recover => Recovers
  BY HandlersAre DEF LoadForContinue, Recovers, Handlers, ScanAssumption
<1>5. q.via <= conns /\ q.rev <= row.rev
  <2>1. req[h].via <= conns
    BY StartsStay DEF Fits
  <2> QED BY <1>2, <2>1, Bounds
<1> QED BY <1>2, <1>3, <1>4, <1>5, ShownStays, StaysFrame, HandlerMoves

(* A recovery that no longer owns the row gives up.                        *)
LEMMA OvertakenStep ==
    ASSUME Inv, Overtaken
    PROVE  Calm
<1>1. Moves(Recover, To(Recover, "giveup")) /\ UNCHANGED <<row, cached>> /\ Stays
  BY DEF Overtaken, Goes
<1> QED BY <1>1, HandlersAre, Onward, ShownStays, StaysFrame, HandlerMoves

(* A handler that fails goes nowhere near a start.                         *)
LEMMA FailedIs == \A h : Failed(h) \in {"giveup", "done"}
BY DEF Failed

(* The Agent is asked to stop,                                             *)
LEMMA AskStep ==
    ASSUME Inv, NEW h \in Handlers, Ask(h)
    PROVE  Calm
<1>1. UNCHANGED <<row, cached, post, conn, conns, hello, grace, agentVars, saw, restarts>>
  BY DEF Ask
<1>2. CASE conn # 0
  <2>1. PICK q : q = [req[h] EXCEPT !.at = "wait", !.via = conn]
    OBVIOUS
  <2>2. q \in Req /\ q.at = "wait" /\ q.rev = req[h].rev /\ q.via = conn
    BY <2>1, InvParts DEF Req, Typed, LinkTyped
  <2>3. Moves(h, q) /\ req[h].at = "ask"
    BY <1>2, <2>1 DEF Ask
  <2>4. PICK c : c = [do |-> "stop", rev |-> req[h].rev, for |-> h] /\ cmds' = Append(cmds, c)
    BY <1>2 DEF Ask, Sends
  <2>5. c \in Command /\ c.do = "stop"
    BY <2>4, InvParts DEF Req, Command
  <2>6. cmds' \in Seq(Command) /\ Commands(cmds')
    BY <2>4, <2>5, Sent
  <2>7. q.rev <= row.rev /\ q.via <= conns
    BY <2>2, StartsStay DEF Fits, Inv, Typed, LinkTyped, LinkFits
  <2>8. h = Recover /\ q.rev = row.rev => Recovers
    BY <2>2, <2>3 DEF Recovers
  <2> QED BY <1>1, <2>2, <2>3, <2>6, <2>7, <2>8, ShownStays, ReadsStay, InvParts, HandlerMoves
<1>3. CASE conn = 0
  <2>1. Moves(h, To(h, Failed(h))) /\ UNCHANGED cmds
    BY <1>3 DEF Ask
  <2>2. cmds' \in Seq(Command) /\ Commands(cmds')
    BY <2>1, StartsStay DEF Inv, Typed, QueuesTyped
  <2> QED BY <1>1, <2>1, <2>2, FailedIs, Onward, ShownStays, ReadsStay, InvParts, HandlerMoves
<1> QED BY <1>2, <1>3

(* and does not answer.                                                    *)
LEMMA TimesOutStep ==
    ASSUME Inv, NEW h \in Handlers, TimesOut(h)
    PROVE  Calm
<1>1. Moves(h, To(h, Failed(h))) /\ UNCHANGED <<row, cached>> /\ Stays
  BY DEF TimesOut, Goes
<1> QED BY <1>1, FailedIs, Onward, ShownStays, StaysFrame, HandlerMoves

(* Preparing fails, after it claimed a revision that is then not started.  *)
LEMMA PrepareFailsStep ==
    ASSUME Inv, NEW h \in Handlers, PrepareFails(h)
    PROVE  Calm
<1>1. Moves(h, To(h, Failed(h))) /\ req[h].at = "prepare" /\ UNCHANGED cached /\ Stays
  BY DEF PrepareFails, Goes
<1>2. row' \in Row /\ row'.rev = row.rev
  BY InvParts, BecomesEffect DEF PrepareFails
<1>3. ~Settled
  BY <1>1, SettledRow
<1> QED BY <1>1, <1>2, <1>3, InvParts, FailedIs, Onward, StaysFrame, HandlerMoves

(* The Agent is gone: the scan fails, whatever it became.                  *)
LEMMA LostStep ==
    ASSUME Inv, NEW h \in Handlers, Lost(h)
    PROVE  Calm
<1>1. Moves(h, To(h, Failed(h))) /\ req[h].at = "lost" /\ Becomes("error", "failed") /\ cached' = FALSE /\ Stays
  BY DEF Lost, Goes
<1>2. row' \in Row /\ row'.rev = row.rev
  BY <1>1, InvParts, BecomesEffect
<1>3. ~Settled
  BY <1>1, SettledRow
<1> QED BY <1>1, <1>2, <1>3, InvParts, FailedIs, Onward, StaysFrame, HandlerMoves

(* A start is sent on the connection it was prepared for, or is lost.      *)
LEMMA DispatchesStep ==
    ASSUME Inv, NEW h \in Handlers, NEW do \in {"task", "resume"}, Dispatches(h, do), cached' \in BOOLEAN
    PROVE  Calm
<1>1. UNCHANGED <<row, post, conn, conns, hello, grace, agentVars, saw, restarts>> /\ req[h].at = "prepare"
  BY DEF Dispatches, Goes
<1>2. ~Settled
  BY <1>1, SettledRow
<1>3. row' \in Row /\ row'.rev = row.rev
  BY <1>1, InvParts
<1>4. CASE Reachable(h)
  <2>1. Moves(h, To(h, "done")) /\ conn # 0 /\ req[h].via = conn
    BY <1>4 DEF Dispatches, Goes, Reachable
  <2>2. PICK c : c = [do |-> do, rev |-> req[h].rev, for |-> None] /\ cmds' = Append(cmds, c)
    BY <1>4 DEF Dispatches, Sends
  <2>3. c \in Command /\ c.rev = req[h].rev
    BY <2>2, InvParts DEF Req, Command
  <2>4. Below(c.rev)
    BY <1>1, <2>1, <2>3, StartsStay DEF Fits, Below
  <2>5. cmds' \in Seq(Command) /\ Commands(cmds')
    BY <2>2, <2>3, <2>4, Sent
  <2> QED BY <1>1, <1>2, <1>3, <2>1, <2>5, Onward, ReadsStay, InvParts, HandlerMoves
<1>5. CASE ~Reachable(h)
  <2>1. Moves(h, To(h, "lost")) /\ UNCHANGED cmds
    BY <1>5 DEF Dispatches, Goes
  <2>2. cmds' \in Seq(Command) /\ Commands(cmds')
    BY <2>1, StartsStay DEF Inv, Typed, QueuesTyped
  <2> QED BY <1>1, <1>2, <1>3, <2>1, <2>2, Onward, ReadsStay, InvParts, HandlerMoves
<1> QED BY <1>4, <1>5

(* The first start is sent,                                                *)
LEMMA SendTaskStep == ASSUME Inv, SendTask PROVE Calm
BY DispatchesStep, HandlersAre, InvParts DEF SendTask

(* or that of a continue or a recovery.                                    *)
LEMMA SendResumeStep == ASSUME Inv, NEW h \in Handlers, SendResume(h) PROVE Calm
BY DispatchesStep DEF SendResume

(* A new revision is newer than every start, so a handler may prepare it,  *)
(* or the recovery hold it back.                                           *)
LEMMA NewRevision ==
    ASSUME Inv, NEW h \in Handlers, NEW q \in Req, Moves(h, q),
           row' \in Row, row'.rev = row.rev + 1, q.rev = row.rev + 1, q.via <= conns,
           h = Recover => q.at = "load", UNCHANGED cached, Stays
    PROVE  Calm
<1>1. req' \in [Handlers -> Req] /\ req'[h] = q /\ \A g \in Handlers \ {h} : req'[g] = req[g]
  BY MovesEffect, InvParts
<1>2. Typed'
  <2>1. ServerTyped'
    BY <1>1, InvParts DEF ServerTyped
  <2>2. PostTyped' /\ LinkTyped' /\ AgentTyped' /\ QueuesTyped'
    BY DEF Inv, Typed, PostTyped, PostsFit, LinkTyped, LinkFits, AgentTyped, QueuesTyped, Finishes,
           Stays, linkVars, agentVars
  <2> QED BY <2>1, <2>2 DEF Typed
<1>3. UNCHANGED <<conn, conns, cmds, doing, runs, seen, last>>
  BY DEF Stays, linkVars, agentVars
<1>4. /\ row.rev \in Nat /\ last \in Nat /\ last <= row.rev
      /\ \A g \in Handlers : req[g].rev \in Nat /\ req[g].rev <= row.rev /\ req[g].via <= conns
  BY Numbers, StartsStay DEF Inv, Exec, RunsFit, Fits
<1>5. Recovers' => h = Recover
  <2>1. ASSUME h # Recover PROVE req'[Recover].rev # row'.rev
    BY <1>1, <1>4, <2>1, HandlersAre
  <2> QED BY <2>1 DEF Recovers
<1>6. RunsFit'
  BY <1>3, <1>4 DEF Inv, Exec, RunsFit
<1>7. ASSUME NEW r \in Nat, Below(r)
      PROVE  r <= row'.rev /\ (seen' = 0 => last' < r) /\ (Recovers' => r < row'.rev)
  BY <1>3, <1>4, <1>7 DEF Below
<1>8. CommandsFit'
  BY <1>3, <1>7, StartsStay, Numbers DEF CommandsFit, Commands, Below, Inv
<1>9. DoingFits'
  BY <1>3, <1>7, StartsStay, Numbers DEF DoingFits, Worker, Below, Inv
<1>10. ASSUME NEW g \in Handlers
       PROVE  Fits(g)'
  <2>1. CASE g = h
    <3>1. req'[g].rev <= row'.rev /\ req'[g].via <= conns'
      BY <1>1, <1>3, <1>4, <2>1
    <3>2. last' < req'[g].rev
      BY <1>1, <1>3, <1>4, <2>1
    <3>3. req'[g].at = "prepare" => ~Recovers'
      BY <1>1, <1>5, <2>1
    <3> QED BY <3>1, <3>2, <3>3 DEF Fits
  <2>2. CASE g # h
    <3>1. req'[g] = req[g] /\ Fits(g)
      BY <1>1, <2>2, StartsStay
    <3>2. req[g].rev <= row'.rev /\ req[g].rev < row'.rev
      BY <1>4
    <3> QED BY <1>3, <3>1, <3>2 DEF Fits
  <2> QED BY <2>1, <2>2
<1>11. Exec'
  BY <1>6, <1>8, <1>9, <1>10 DEF Exec, HandlersFit
<1>12. row'.rev # row.rev
  BY <1>4
<1> QED BY <1>2, <1>3, <1>11, <1>12 DEF Calm, Lasts

(* The first revision,                                                     *)
LEMMA BeginStep ==
    ASSUME Inv, Begin
    PROVE  Calm
<1>1. PICK q : q = [req[Create] EXCEPT !.at = "prepare", !.rev = row.rev + 1]
  OBVIOUS
<1>2. row.rev + 1 \in Revs /\ req[Create] \in Req
  BY HandlersAre, InvParts DEF Begin
<1>3. q \in Req /\ q.rev = row.rev + 1 /\ q.via = req[Create].via
  BY <1>1, <1>2 DEF Req
<1>4. Moves(Create, q) /\ UNCHANGED cached /\ Stays
  BY <1>1 DEF Begin
<1>5. PICK v \in 0..MaxConns : row' = [row EXCEPT !.rev = row.rev + 1, !.conn = v]
  BY <1>2 DEF Begin, Req
<1>6. row' \in Row /\ row'.rev = row.rev + 1
  BY <1>2, <1>5, InvParts DEF Row
<1>7. q.via <= conns
  BY <1>3, StartsStay, HandlersAre DEF Fits
<1>8. Create # Recover
  OBVIOUS
<1> QED BY <1>3, <1>4, <1>6, <1>7, <1>8, HandlersAre, NewRevision

(* that of a continue, and the one that a recovery has held back.          *)
LEMMA ClaimStep ==
    ASSUME Inv, NEW h \in Handlers, Claim(h)
    PROVE  Calm
<1>1. req[h] \in Req /\ req[h].via \in 0..MaxConns /\ req[h].via <= conns /\ req[h].at = "claim"
  BY StartsStay, InvParts DEF Claim, Req, Fits
<1>2. UNCHANGED cached /\ Stays
  BY DEF Claim
<1>3. CASE Claimable(h)
  <2> DEFINE r == Claimed(h)
  <2>1. PICK q : q = [req[h] EXCEPT !.at = "prepare", !.rev = r]
    OBVIOUS
  <2>2. r \in Revs /\ row' = [st |-> "pending", why |-> "", rev |-> r, conn |-> req[h].via] /\ Moves(h, q)
    BY <1>3, <2>1 DEF Claim
  <2>3. h = Recover => Recovering /\ r = row.rev /\ req[Recover].rev = row.rev
    BY <1>3 DEF Claimable, Claimed
  <2>4. h # Recover => r = row.rev + 1
    BY DEF Claimed
  <2> HIDE DEF r
  <2>5. q \in Req /\ q.at = "prepare" /\ q.rev = r /\ q.via = req[h].via
    BY <1>1, <2>1, <2>2 DEF Req
  <2>6. row' \in Row /\ row'.rev = r
    BY <1>1, <2>2 DEF Row
  <2>7. CASE h # Recover
    BY <1>1, <1>2, <2>2, <2>4, <2>5, <2>6, <2>7, NewRevision
  <2>8. CASE h = Recover
    <3>1. req' \in [Handlers -> Req] /\ req'[h] = q /\ \A g \in Handlers \ {h} : req'[g] = req[g]
      BY <2>2, <2>5, MovesEffect, InvParts
    <3>2. Typed'
      <4>1. ServerTyped'
        BY <1>2, <2>6, <3>1, InvParts DEF ServerTyped
      <4>2. PostTyped' /\ LinkTyped' /\ AgentTyped' /\ QueuesTyped'
        BY <1>2 DEF Inv, Typed, PostTyped, PostsFit, LinkTyped, LinkFits, AgentTyped, QueuesTyped, Finishes,
                    Stays, linkVars, agentVars
      <4> QED BY <4>1, <4>2 DEF Typed
    <3>3. UNCHANGED <<conn, conns, cmds, doing, runs, seen, last>>
      BY <1>2 DEF Stays, linkVars, agentVars
    <3>4. Recovers /\ last < row.rev
      BY <1>1, <2>3, <2>8 DEF Recovers, Inv, Exec, RunsFit
    <3>5. ~Recovers'
      BY <2>5, <2>8, <3>1 DEF Recovers
    <3>6. RunsFit'
      BY <2>3, <2>6, <2>8, <3>3, <3>5 DEF Inv, Exec, RunsFit
    <3>7. CommandsFit' /\ DoingFits'
      BY <2>3, <2>6, <2>8, <3>3, <3>5, StartsStay DEF CommandsFit, Commands, DoingFits, Worker, Below
    <3>8. ASSUME NEW g \in Handlers PROVE Fits(g)'
      <4>1. CASE g = h
        <5>1. req'[g].rev <= row'.rev
          BY <2>3, <2>5, <2>6, <2>8, <3>1, <4>1, Bounds
        <5>2. req'[g].via <= conns' /\ last' < req'[g].rev
          BY <1>1, <2>3, <2>5, <2>8, <3>1, <3>3, <3>4, <4>1
        <5> QED BY <3>5, <5>1, <5>2 DEF Fits
      <4>2. CASE g # h
        BY <2>3, <2>6, <2>8, <3>1, <3>3, <3>5, <4>2, StartsStay DEF Fits
      <4> QED BY <4>1, <4>2
    <3>9. Exec'
      BY <3>6, <3>7, <3>8 DEF Exec, HandlersFit
    <3>10. ~Settled
      BY <2>3, <2>8, SettledRow
    <3> QED BY <3>2, <3>3, <3>9, <3>10 DEF Calm, Lasts
  <2> QED BY <2>7, <2>8
<1>4. CASE ~Claimable(h)
  <2>1. Moves(h, To(h, Failed(h))) /\ row' = [row EXCEPT !.conn = req[h].via]
    BY <1>4 DEF Claim
  <2>2. row' \in Row /\ row'.rev = row.rev /\ row'.st = row.st /\ row'.why = row.why
    BY <1>1, <2>1, InvParts DEF Row
  <2>3. Settled => StoppedByUser' /\ ~cached'
    BY <1>2, <2>2, SettledRow DEF StoppedByUser
  <2> QED BY <1>2, <2>1, <2>2, <2>3, InvParts, FailedIs, Onward, StaysFrame, HandlerMoves
<1> QED BY <1>3, <1>4

(* A recovery lists the scan, claims it for itself,                        *)
LEMMA ListInflightStep ==
    ASSUME Inv, ListInflight
    PROVE  Calm
<1>1. PICK q \in Req : Moves(Recover, q) /\ q.at \in {"reclaim", "done"} /\ q.rev <= row.rev /\ q.via <= conns
  <2>1. CASE Interrupted /\ row.rev \notin hello[conn].known
    <3>1. PICK q : q = [req[Recover] EXCEPT !.at = "reclaim", !.rev = row.rev]
      OBVIOUS
    <3>2. req[Recover] \in Req /\ row.rev \in Revs
      BY InvParts, HandlersAre, RowParts
    <3>3. q \in Req /\ q.at = "reclaim" /\ q.rev = row.rev /\ q.via = req[Recover].via
      BY <3>1, <3>2 DEF Req
    <3>4. Moves(Recover, q) /\ req[Recover].via <= conns
      BY <2>1, <3>1, StartsStay, HandlersAre DEF ListInflight, Fits
    <3> QED BY <3>3, <3>4, Bounds
  <2>2. CASE ~(Interrupted /\ row.rev \notin hello[conn].known)
    <3>1. Moves(Recover, Done)
      BY <2>2 DEF ListInflight
    <3> QED BY <3>1, NoRequest, Bounds
  <2> QED BY <2>1, <2>2
<1>2. /\ UNCHANGED <<row, cached, post, conn, conns, cmds, grace, agentVars, saw, restarts>>
      /\ hello' = [hello EXCEPT ![conn] = Open]
  BY DEF ListInflight
<1>3. ReadsFit
  <2>1. CASE conn = 0
    <3>1. hello' = hello
      BY <1>2, <2>1 DEF Inv, Typed, LinkTyped
    <3> QED BY <1>2, <3>1, ReadsStay, InvParts
  <2>2. CASE conn # 0
    BY <1>2, <2>2, Connections, NoHandshake, HelloMoves, InvParts
  <2> QED BY <2>1, <2>2
<1>4. cmds' \in Seq(Command) /\ Commands(cmds')
  BY <1>2, StartsStay DEF Inv, Typed, QueuesTyped
<1> QED BY <1>1, <1>2, <1>3, <1>4, HandlersAre, ShownStays, HandlerMoves

(* it takes a revision that nothing has been started with,                 *)
LEMMA ReclaimStep ==
    ASSUME Inv, Reclaim
    PROVE  Calm
<1>1. UNCHANGED cached /\ Stays
  BY DEF Reclaim
<1>2. CASE Interrupted /\ row.rev = req[Recover].rev
  <2>1. PICK q : q = [req[Recover] EXCEPT !.at = "load", !.rev = row.rev + 1]
    OBVIOUS
  <2>2. /\ row.rev + 1 \in Revs /\ Moves(Recover, q)
        /\ row' = [st |-> "cancelled", why |-> "recovering", rev |-> row.rev + 1, conn |-> req[Recover].via]
    BY <1>2, <2>1 DEF Reclaim
  <2>3. req[Recover] \in Req /\ req[Recover].via \in 0..MaxConns /\ req[Recover].via <= conns
    BY InvParts, StartsStay, HandlersAre DEF Req, Fits
  <2>4. q \in Req /\ q.at = "load" /\ q.rev = row.rev + 1 /\ q.via = req[Recover].via
    BY <2>1, <2>2, <2>3 DEF Req
  <2>5. row' \in Row /\ row'.rev = row.rev + 1
    BY <2>2, <2>3 DEF Row
  <2> QED BY <1>1, <2>2, <2>3, <2>4, <2>5, HandlersAre, NewRevision
<1>3. CASE ~(Interrupted /\ row.rev = req[Recover].rev)
  <2>1. Moves(Recover, Done) /\ UNCHANGED row
    BY <1>3 DEF Reclaim
  <2> QED BY <1>1, <2>1, NoRequest, Bounds, HandlersAre, ShownStays, StaysFrame, HandlerMoves
<1> QED BY <1>2, <1>3

(* and gives up.                                                           *)
LEMMA GiveUpRecoveryStep ==
    ASSUME Inv, GiveUpRecovery
    PROVE  Calm
<1>1. Moves(Recover, To(Recover, "done")) /\ Stays
  BY DEF GiveUpRecovery, Goes
<1>2. row' \in Row /\ row'.rev = row.rev /\ cached' \in BOOLEAN /\ (Settled => StoppedByUser' /\ ~cached')
  <2>1. CASE FailsRecovery(req[Recover].rev)
    <3>1. Becomes("error", "unrecovered") /\ cached' = FALSE
      BY <2>1 DEF GiveUpRecovery
    <3>2. ~Settled
      BY <2>1, SettledRow
    <3> QED BY <3>1, <3>2, BecomesEffect, InvParts
  <2>2. CASE ~FailsRecovery(req[Recover].rev)
    <3>1. UNCHANGED <<row, cached>>
      BY <2>2 DEF GiveUpRecovery
    <3> QED BY <3>1, ShownStays
  <2> QED BY <2>1, <2>2
<1> QED BY <1>1, <1>2, HandlersAre, Onward, StaysFrame, HandlerMoves

(* So it is with every request handler.                                    *)
LEMMA HandleStep ==
    ASSUME Inv, NEW h \in Handlers, Handle(h)
    PROVE  Calm
BY LoadForStopStep, WriteStopStep, WriteBackStep, LoadForContinueStep, AskStep, TimesOutStep, ClaimStep,
   PrepareFailsStep, SendResumeStep, LostStep DEF Handle

(* And with the handlers of reports.                                       *)
LEMMA ShownStep ==
    ASSUME Inv, ShownOnly
    PROVE  Calm
<1>1. /\ UNCHANGED <<req, conn, conns, cmds, hello, grace, saw, doing, runs, seen, last, restarts>>
      /\ row'.rev = row.rev
  BY DEF ShownOnly, linkVars
<1>2. Typed'
  BY <1>1 DEF ShownOnly, Inv, Typed, ServerTyped, LinkTyped, LinkFits, AgentTyped, QueuesTyped
<1>3. Exec'
  <2>1. Recovers' => Recovers
    BY <1>1 DEF Recovers
  <2>2. Commands(cmds') /\ Worker(doing') /\ \A x \in runs' : x.rev = last
    BY <1>1, StartsStay
  <2>3. ASSUME NEW g \in Handlers
        PROVE  /\ req'[g].rev <= row.rev /\ req'[g].via <= conns'
               /\ req'[g].at = "prepare" =>
                    /\ Recovers => req'[g].rev < row.rev
                    /\ seen = 0 /\ conn' # 0 /\ req'[g].via = conn' => last < req'[g].rev
    BY <1>1, StartsStay DEF Fits
  <2> QED BY <1>1, <2>1, <2>2, <2>3, ExecKept
<1> QED BY <1>1, <1>2, <1>3 DEF Calm, Lasts, ShownOnly

(* No step of the server starts anything.                                  *)
LEMMA ServerStep ==
    ASSUME Inv, Server
    PROVE  Calm
<1>1. ASSUME NEW w \in Posts, HandleReport(w) PROVE Calm
  BY <1>1, HandleReportStep, ShownStep, InvParts
<1> QED BY <1>1, BeginStep, SendTaskStep, OvertakenStep, ListInflightStep, ReclaimStep, GiveUpRecoveryStep,
           HandleStep DEF Server

-----------------------------------------------------------------------------
(* The Agent's command worker and its scan tasks.                          *)

(* The handlers when at most one of them has got its answer.               *)
AnswersOnly ==
    /\ req' \in [Handlers -> Req]
    /\ \A g \in Handlers : \/ req'[g] = req[g]
                           \/ /\ req'[g].at \in {"claim", "giveup", "done"}
                              /\ req'[g].rev <= row.rev /\ req'[g].via <= conns
    /\ Recovers' => Recovers

(* A step of the Agent that starts nothing.                                *)
LEMMA AgentStep ==
    ASSUME Inv, AgentOnly, AnswersOnly, UNCHANGED <<seen, last>>,
           doing' = None \/ doing' \in Doing, Worker(doing'),
           runs' \subseteq Run, \A x \in runs' : x.rev = last, runs = {} => runs' = {},
           cmds' \in Seq(Command), Commands(cmds'), outbox' \in Seq(Report), Finishes(outbox')
    PROVE  Calm
<1>1. UNCHANGED <<row, cached, post, conn, conns, hello, grace, saw, restarts>>
  BY DEF AgentOnly
<1>2. Typed'
  <2>1. ServerTyped' /\ PostTyped' /\ LinkTyped'
    BY <1>1 DEF Inv, Typed, ServerTyped, AnswersOnly, PostTyped, PostsFit, LinkTyped, LinkFits
  <2>2. AgentTyped' /\ QueuesTyped'
    BY DEF Inv, Typed, AgentTyped, QueuesTyped, Finishes
  <2> QED BY <2>1, <2>2 DEF Typed
<1>3. ASSUME NEW g \in Handlers
      PROVE  /\ req'[g].rev <= row.rev /\ req'[g].via <= conns'
             /\ req'[g].at = "prepare" =>
                  /\ Recovers => req'[g].rev < row.rev
                  /\ seen = 0 /\ conn' # 0 /\ req'[g].via = conn' => last < req'[g].rev
  <2>1. CASE req'[g] = req[g]
    BY <1>1, <2>1, StartsStay DEF Fits
  <2>2. CASE req'[g] # req[g]
    BY <1>1, <2>2 DEF AnswersOnly
  <2> QED BY <2>1, <2>2
<1>4. Recovers' => Recovers
  BY DEF AnswersOnly
<1>5. Exec'
  BY <1>1, <1>3, <1>4, ExecKept
<1>6. \A g \in Handlers : req[g].at \notin {"prepare", "lost"} => req'[g].at \notin {"prepare", "lost"}
  BY DEF AnswersOnly
<1>7. Settled => Settled'
  BY <1>1, <1>6 DEF Settled, StoppedByUser
<1> QED BY <1>2, <1>5, <1>7 DEF Calm, Lasts

(* Nothing is answered.                                                    *)
LEMMA NoAnswer == ASSUME Inv, AgentOnly, UNCHANGED req PROVE AnswersOnly
<1>1. UNCHANGED row
  BY DEF AgentOnly
<1> QED BY <1>1, InvParts DEF AnswersOnly, Recovers

(* The result of a stop is told to the handler that waits for it.          *)
LEMMA TellEffect ==
    ASSUME Inv, AgentOnly, NEW c \in Command, NEW quiet \in BOOLEAN, Tell(c, quiet)
    PROVE  AnswersOnly
<1> DEFINE h == c.for
           s == IF quiet /\ h \notin Stops THEN "claim" ELSE Failed(h)
<1>1. CASE h = None \/ req[h].at # "wait" \/ req[h].rev # c.rev \/ req[h].via # conn
  BY <1>1, NoAnswer DEF Tell
<1>2. CASE ~(h = None \/ req[h].at # "wait" \/ req[h].rev # c.rev \/ req[h].via # conn)
  <2>1. h \in Handlers
    BY <1>2 DEF Command
  <2>2. Moves(h, To(h, s)) /\ req[h].at = "wait"
    BY <1>2 DEF Tell
  <2>3. s \in {"claim", "giveup", "done"}
    BY FailedIs
  <2> HIDE DEF h, s
  <2>4. /\ To(h, s) \in Req /\ To(h, s).at = s /\ To(h, s).rev <= row.rev /\ To(h, s).via <= conns
        /\ h = Recover /\ To(h, s).rev = row.rev /\ s # "done" => Recovers
    BY <2>1, <2>2, <2>3, Onward
  <2>5. req' \in [Handlers -> Req] /\ req'[h] = To(h, s) /\ \A g \in Handlers \ {h} : req'[g] = req[g]
    BY <2>1, <2>2, <2>4, MovesEffect, InvParts
  <2>6. row' = row
    BY DEF AgentOnly
  <2>7. Recovers' => Recovers
    BY <2>3, <2>4, <2>5, <2>6, HandlersAre DEF Recovers
  <2> QED BY <2>3, <2>4, <2>5, <2>7 DEF AnswersOnly
<1> QED BY <1>1, <1>2

(* The worker takes a command.                                             *)
LEMMA TakeEffect ==
    ASSUME Inv, NEW do, Take(do)
    PROVE  /\ Head(cmds) \in Command /\ Head(cmds).do = do /\ (do # "stop" => Below(Head(cmds).rev))
           /\ cmds' \in Seq(Command) /\ Commands(cmds')
<1>1. cmds \in Seq(Command) /\ cmds # <<>> /\ cmds' = Tail(cmds) /\ Head(cmds).do = do
  BY DEF Take, Inv, Typed, QueuesTyped
<1>2. /\ Head(cmds) = cmds[1] /\ 1 \in 1..Len(cmds) /\ Head(cmds) \in Command
      /\ cmds' \in Seq(Command) /\ Len(cmds') = Len(cmds) - 1 /\ Len(cmds) \in Nat
      /\ \A i \in 1..Len(cmds') : cmds'[i] = cmds[i+1] /\ i + 1 \in 1..Len(cmds)
  BY <1>1
<1> QED BY <1>1, <1>2, StartsStay DEF Commands

(* Runs that are marked stay the runs they are.                            *)
LEMMA CancelledRuns ==
    ASSUME Typed, NEW quiet \in BOOLEAN
    PROVE  /\ Cancelling(quiet) \subseteq Run /\ (runs = {} => Cancelling(quiet) = {})
           /\ \A y \in Cancelling(quiet) : \E x \in runs : y.rev = x.rev
<1>1. ASSUME NEW y \in Cancelling(quiet)
      PROVE  y \in Run /\ \E x \in runs : y.rev = x.rev
  <2>1. PICK x \in runs : \/ y = [x EXCEPT !.cancelled = TRUE, !.quiet = quiet \/ @]
                          \/ y = x
    BY <1>1 DEF Cancelling
  <2>2. x \in Run
    BY DEF Typed, AgentTyped
  <2>3. CASE y = [x EXCEPT !.cancelled = TRUE, !.quiet = quiet \/ @]
    <3>1. PICK z : z = [x EXCEPT !.cancelled = TRUE]
      OBVIOUS
    <3>2. z \in Run /\ z.rev = x.rev
      BY <2>2, <3>1 DEF Run
    <3>3. y = [z EXCEPT !.quiet = quiet \/ z.quiet]
      BY <2>3, <3>1
    <3>4. PICK b \in BOOLEAN : b <=> (quiet \/ z.quiet)
      OBVIOUS
    <3>5. y = [z EXCEPT !.quiet = b]
      BY <3>2, <3>3, <3>4 DEF Run
    <3>6. y \in Run /\ y.rev = z.rev
      BY <3>2, <3>5 DEF Run
    <3> QED BY <3>2, <3>6
  <2>4. CASE y = x
    BY <2>2, <2>4
  <2> QED BY <2>1, <2>3, <2>4
<1>2. runs = {} => Cancelling(quiet) = {}
  BY DEF Cancelling
<1> QED BY <1>1, <1>2

(* Runs whose replacement failed report their end after all.               *)
LEMMA QuietedRuns ==
    ASSUME Typed, NEW S, S = {[x EXCEPT !.quiet = FALSE] : x \in runs}
    PROVE  S \subseteq Run /\ (runs = {} => S = {}) /\ \A y \in S : \E x \in runs : y.rev = x.rev
<1>1. ASSUME NEW y \in S
      PROVE  y \in Run /\ \E x \in runs : y.rev = x.rev
  <2>1. PICK x \in runs : y = [x EXCEPT !.quiet = FALSE]
    OBVIOUS
  <2>2. x \in Run
    BY DEF Typed, AgentTyped
  <2>3. y \in Run /\ y.rev = x.rev
    BY <2>1, <2>2 DEF Run
  <2> QED BY <2>3
<1>2. runs = {} => S = {}
  OBVIOUS
<1> QED BY <1>1, <1>2

(* A report is enqueued.                                                   *)
LEMMA EnqueuedFits ==
    ASSUME NEW q \in Seq(Report), Finishes(q), NEW x \in Report, x.kind = "finish" => x.outcome \in Outcomes
    PROVE  /\ Append(q, x) \in Seq(Report) /\ Finishes(Append(q, x))
           /\ Enqueued(q, x) \in Seq(Report) /\ Finishes(Enqueued(q, x))
<1> DEFINE same == {i \in DOMAIN q : q[i].kind = "finish"}
           e == [i \in DOMAIN q |-> IF i \in same THEN x ELSE q[i]]
<1>1. Append(q, x) \in Seq(Report) /\ Finishes(Append(q, x))
  <2>1. /\ Append(q, x) \in Seq(Report) /\ Len(Append(q, x)) = Len(q) + 1 /\ Len(q) \in Nat
        /\ \A i \in 1..Len(q) : Append(q, x)[i] = q[i]
        /\ Append(q, x)[Len(q) + 1] = x
    OBVIOUS
  <2>2. \A i \in 1..(Len(q) + 1) : i \in 1..Len(q) \/ i = Len(q) + 1
    BY <2>1
  <2> QED BY <2>1, <2>2 DEF Finishes
<1>2. e \in Seq(Report) /\ Finishes(e)
  <2>1. DOMAIN q = 1..Len(q) /\ Len(q) \in Nat /\ \A i \in 1..Len(q) : q[i] \in Report
    OBVIOUS
  <2>2. e \in [1..Len(q) -> Report]
    BY <2>1
  <2>3. e \in Seq(Report) /\ Len(e) = Len(q)
    BY <2>1, <2>2
  <2>4. \A i \in 1..Len(q) : e[i] = x \/ (e[i] = q[i] /\ q[i].kind # "finish")
    BY <2>1
  <2> QED BY <2>3, <2>4 DEF Finishes
<1>3. Enqueued(q, x) = e \/ Enqueued(q, x) = Append(q, x)
  BY DEF Enqueued
<1> QED BY <1>1, <1>2, <1>3

(* What stays when a step leaves it alone.                                 *)
LEMMA QueuesStay ==
    ASSUME Inv
    PROVE  /\ UNCHANGED cmds => cmds' \in Seq(Command) /\ Commands(cmds')
           /\ UNCHANGED outbox => outbox' \in Seq(Report) /\ Finishes(outbox')
BY StartsStay DEF Inv, Typed, QueuesTyped

(* The worker and the runs, when they are left alone.                      *)
LEMMA WorkerStays ==
    ASSUME Inv
    PROVE  /\ UNCHANGED doing => (doing' = None \/ doing' \in Doing) /\ Worker(doing')
           /\ doing' = None => Worker(doing')
           /\ UNCHANGED runs => runs' \subseteq Run /\ (\A x \in runs' : x.rev = last) /\ (runs = {} => runs' = {})
BY StartsStay DEF Inv, Typed, AgentTyped, Worker

(* Runs that come from runs.                                               *)
LEMMA RunsFrom ==
    ASSUME Inv, \A y \in runs' : \E x \in runs : y.rev = x.rev
    PROVE  \A x \in runs' : x.rev = last
BY StartsStay

(* The worker goes on with a command.                                      *)
LEMMA DoesEffect ==
    ASSUME NEW c \in Command, NEW s \in {"stopping", "preparing", "starting", "failing"}, Does(c, s),
           s \in {"preparing", "starting"} => Below(c.rev)
    PROVE  doing' \in Doing /\ Worker(doing')
<1>1. doing' = [cmd |-> c, at |-> s]
  BY DEF Does
<1> QED BY <1>1 DEF Doing, Worker

(* What the worker is doing.                                               *)
LEMMA Busy ==
    ASSUME Inv, doing # None
    PROVE  doing.cmd \in Command /\ (doing.at \in {"preparing", "starting"} => Below(doing.cmd.rev))
BY StartsStay, Numbers DEF Inv, Worker

(* The worker takes a stop,                                                *)
LEMMA TakeStopStep == ASSUME Inv, TakeStop PROVE Calm
<1> DEFINE c == Head(cmds)
<1>1. AgentOnly /\ UNCHANGED <<seen, outbox, last>> /\ Take("stop")
  BY DEF TakeStop
<1>2. c \in Command /\ cmds' \in Seq(Command) /\ Commands(cmds')
  BY <1>1, TakeEffect
<1>3. CASE Newer(c.rev)
  <2>1. Tell(c, FALSE) /\ UNCHANGED <<doing, runs>>
    BY <1>3 DEF TakeStop
  <2> HIDE DEF c
  <2>2. AnswersOnly
    BY <1>1, <1>2, <2>1, TellEffect
  <2> QED BY <1>1, <1>2, <2>1, <2>2, QueuesStay, WorkerStays, AgentStep
<1>4. CASE ~Newer(c.rev)
  <2>1. Does(c, "stopping") /\ runs' = Cancelling(FALSE) /\ UNCHANGED req
    BY <1>4 DEF TakeStop
  <2> HIDE DEF c
  <2>2. doing' \in Doing /\ Worker(doing')
    BY <1>2, <2>1, DoesEffect
  <2>3. runs' \subseteq Run /\ (\A x \in runs' : x.rev = last) /\ (runs = {} => runs' = {})
    BY <2>1, CancelledRuns, RunsFrom, InvParts
  <2>4. AnswersOnly
    BY <1>1, <2>1, NoAnswer
  <2> QED BY <1>1, <1>2, <2>2, <2>3, <2>4, QueuesStay, AgentStep
<1> QED BY <1>3, <1>4

(* and answers it.                                                         *)
LEMMA StoppedStep == ASSUME Inv, Stopped PROVE Calm
<1>1. AgentOnly /\ UNCHANGED <<cmds, runs, seen, outbox, last>> /\ doing' = None /\ doing # None
  BY DEF Stopped
<1>2. PICK quiet \in BOOLEAN : Tell(doing.cmd, quiet)
  <2>1. PICK quiet \in {FALSE, runs = {}} : Tell(doing.cmd, quiet)
    BY DEF Stopped
  <2>2. quiet \in BOOLEAN
    BY <2>1
  <2> QED BY <2>1, <2>2
<1>3. AnswersOnly
  BY <1>1, <1>2, Busy, TellEffect
<1> QED BY <1>1, <1>3, QueuesStay, WorkerStays, AgentStep

(* It takes a start,                                                       *)
LEMMA TakeStartStep == ASSUME Inv, TakeStart PROVE Calm
<1> DEFINE c == Head(cmds)
<1>1. AgentOnly /\ UNCHANGED <<req, seen, outbox, last>>
  BY DEF TakeStart
<1>2. PICK do \in {"task", "resume"} : Take(do)
  BY DEF TakeStart
<1>3. c \in Command /\ Below(c.rev) /\ cmds' \in Seq(Command) /\ Commands(cmds')
  BY <1>2, TakeEffect
<1>4. AnswersOnly
  BY <1>1, NoAnswer
<1>5. CASE UNCHANGED <<doing, runs>>
  BY <1>1, <1>3, <1>4, <1>5, QueuesStay, WorkerStays, AgentStep
<1>6. CASE Does(c, "preparing") /\ runs' = Cancelling(TRUE)
  <2> HIDE DEF c
  <2>1. doing' \in Doing /\ Worker(doing')
    BY <1>3, <1>6, DoesEffect
  <2>2. runs' \subseteq Run /\ (\A x \in runs' : x.rev = last) /\ (runs = {} => runs' = {})
    BY <1>6, CancelledRuns, RunsFrom, InvParts
  <2> QED BY <1>1, <1>3, <1>4, <2>1, <2>2, QueuesStay, AgentStep
<1>7. CASE Does(c, "starting") /\ UNCHANGED runs
  <2> HIDE DEF c
  <2>1. doing' \in Doing /\ Worker(doing')
    BY <1>3, <1>7, DoesEffect
  <2> QED BY <1>1, <1>3, <1>4, <1>7, <2>1, QueuesStay, WorkerStays, AgentStep
<1> QED BY <1>5, <1>6, <1>7 DEF TakeStart

(* has waited for the old run,                                             *)
LEMMA PreparedStep == ASSUME Inv, Prepared PROVE Calm
<1>1. AgentOnly /\ UNCHANGED <<req, cmds, seen, outbox, last>> /\ doing # None /\ doing.at = "preparing"
  BY DEF Prepared
<1>2. doing.cmd \in Command /\ Below(doing.cmd.rev)
  BY <1>1, Busy
<1>3. AnswersOnly
  BY <1>1, NoAnswer
<1>4. CASE Does(doing.cmd, "starting") /\ UNCHANGED runs
  <2>1. doing' \in Doing /\ Worker(doing')
    BY <1>2, <1>4, DoesEffect
  <2> QED BY <1>1, <1>3, <1>4, <2>1, QueuesStay, WorkerStays, AgentStep
<1>5. CASE Does(doing.cmd, "failing") /\ runs' = {[x EXCEPT !.quiet = FALSE] : x \in runs}
  <2>1. doing' \in Doing /\ Worker(doing')
    BY <1>2, <1>5, DoesEffect
  <2>2. runs' \subseteq Run /\ (\A x \in runs' : x.rev = last) /\ (runs = {} => runs' = {})
    BY <1>5, QuietedRuns, RunsFrom, InvParts
  <2> QED BY <1>1, <1>3, <2>1, <2>2, QueuesStay, AgentStep
<1> QED BY <1>4, <1>5 DEF Prepared

(* cannot fetch the manifest,                                              *)
LEMMA CannotStartStep == ASSUME Inv, CannotStart PROVE Calm
<1>1. /\ AgentOnly /\ UNCHANGED <<req, cmds, runs, seen, outbox, last>> /\ doing # None
      /\ Does(doing.cmd, "failing")
  BY DEF CannotStart
<1>2. doing' \in Doing /\ Worker(doing')
  BY <1>1, Busy, DoesEffect
<1> QED BY <1>1, <1>2, NoAnswer, QueuesStay, WorkerStays, AgentStep

(* and reports that it failed.                                             *)
LEMMA ReportFailureStep == ASSUME Inv, ReportFailure PROVE Calm
<1> DEFINE x == [kind |-> "failure", rev |-> doing.cmd.rev, outcome |-> None]
<1>1. /\ AgentOnly /\ UNCHANGED <<req, cmds, runs, seen, last>> /\ doing # None /\ doing' = None
      /\ outbox' = Enqueued(outbox, x)
  BY DEF ReportFailure
<1>2. x \in Report /\ x.kind = "failure"
  BY <1>1, Busy DEF Command, Report
<1> HIDE DEF x
<1>3. outbox' \in Seq(Report) /\ Finishes(outbox')
  BY <1>1, <1>2, EnqueuedFits DEF Inv, Typed, QueuesTyped
<1> QED BY <1>1, <1>3, NoAnswer, QueuesStay, WorkerStays, AgentStep

(* The steps of a scan task.                                               *)
LEMMA RunStep ==
    ASSUME Inv, RunSteps, runs' \subseteq Run, \A y \in runs' : \E x \in runs : y.rev = x.rev,
           outbox' \in Seq(Report), Finishes(outbox')
    PROVE  Calm
<1>1. AgentOnly /\ UNCHANGED <<req, cmds, doing, seen, last>>
  BY DEF RunSteps
<1>2. (\A x \in runs' : x.rev = last) /\ (runs = {} => runs' = {})
  BY RunsFrom
<1> QED BY <1>1, <1>2, NoAnswer, QueuesStay, WorkerStays, AgentStep

(* A scan task reports a result,                                           *)
LEMMA RunReportsStep == ASSUME Inv, NEW x \in runs, RunReports(x) PROVE Calm
<1> DEFINE m == [kind |-> "result", rev |-> x.rev, outcome |-> None]
<1>1. RunSteps /\ UNCHANGED runs /\ outbox' = Append(outbox, m)
  BY DEF RunReports
<1>2. x \in Run /\ runs \subseteq Run
  BY DEF Inv, Typed, AgentTyped
<1>3. m \in Report /\ m.kind = "result"
  BY <1>2 DEF Run, Report
<1> HIDE DEF m
<1>4. outbox' \in Seq(Report) /\ Finishes(outbox')
  BY <1>1, <1>3, EnqueuedFits DEF Inv, Typed, QueuesTyped
<1> QED BY <1>1, <1>2, <1>4, RunStep

(* its outcome, or nothing when it is replaced,                            *)
LEMMA RunEndsStep == ASSUME Inv, NEW x \in runs, RunEnds(x) PROVE Calm
<1>1. RunSteps
  BY DEF RunEnds
<1>2. x \in Run /\ runs \subseteq Run
  BY DEF Inv, Typed, AgentTyped
<1>3. CASE x.quiet
  <2>1. runs' = runs \ {x} /\ UNCHANGED outbox
    BY <1>3 DEF RunEnds
  <2> QED BY <1>1, <1>2, <2>1, QueuesStay, RunStep
<1>4. CASE ~x.quiet
  <2>1. PICK o \in Outcomes : outbox' = Enqueued(outbox, [kind |-> "finish", rev |-> x.rev, outcome |-> o])
    BY <1>4 DEF RunEnds, Outcomes
  <2>2. PICK m : m = [kind |-> "finish", rev |-> x.rev, outcome |-> o]
    OBVIOUS
  <2>3. m \in Report /\ m.outcome \in Outcomes
    BY <1>2, <2>2 DEF Run, Report
  <2>4. outbox' \in Seq(Report) /\ Finishes(outbox')
    BY <2>1, <2>2, <2>3, EnqueuedFits DEF Inv, Typed, QueuesTyped
  <2>5. PICK y : y = [x EXCEPT !.reporting = TRUE]
    OBVIOUS
  <2>6. y \in Run /\ y.rev = x.rev
    BY <1>2, <2>5 DEF Run
  <2>7. runs' = (runs \ {x}) \cup {y}
    BY <1>4, <2>5 DEF RunEnds
  <2> QED BY <1>1, <1>2, <2>4, <2>6, <2>7, RunStep
<1> QED BY <1>3, <1>4

(* and is gone.                                                            *)
LEMMA RunGoneStep == ASSUME Inv, NEW x \in runs, RunGone(x) PROVE Calm
<1>1. RunSteps /\ runs' = runs \ {x} /\ UNCHANGED outbox
  BY DEF RunGone
<1>2. runs \subseteq Run
  BY DEF Inv, Typed, AgentTyped
<1> QED BY <1>1, <1>2, QueuesStay, RunStep

-----------------------------------------------------------------------------
(* The start of an execution: nothing runs, and it is newer than all that  *)
(* have run.                                                               *)

Begins(r) == runs = {} /\ last < r /\ last' = r /\ \E x : runs' = {x} /\ x.rev = r

(* Only what is newer than all that were seen, and than the last, starts.  *)
LEMMA StartStep ==
    ASSUME Inv, Start
    PROVE  Calm \/ (Typed' /\ Exec' /\ Lasts /\ \E r \in Revs : Begins(r))
<1> DEFINE r == doing.cmd.rev
<1>1. AgentOnly /\ UNCHANGED <<req, cmds, outbox>> /\ doing # None /\ doing.at = "starting" /\ doing' = None
  BY DEF Start
<1>2. CASE Obsolete(r) \/ runs # {}
  <2>1. UNCHANGED <<runs, seen, last>>
    BY <1>2 DEF Start
  <2> QED BY <1>1, <2>1, NoAnswer, QueuesStay, WorkerStays, AgentStep
<1>3. CASE ~(Obsolete(r) \/ runs # {})
  <2> DEFINE x == [rev |-> r, cancelled |-> FALSE, quiet |-> FALSE, reporting |-> FALSE]
  <2>1. runs' = {x} /\ seen' = r /\ last' = r /\ runs = {}
    BY <1>3 DEF Start
  <2>2. r \in Revs /\ r \in Nat /\ Below(r)
    BY <1>1, Busy DEF Command
  <2>3. x \in Run /\ x.rev = r
    BY <2>2 DEF Run
  <2>4. ~(seen > 0 /\ r <= seen)
    BY <1>3 DEF Obsolete
  <2> HIDE DEF r, x
  <2>5. seen \in {0, last} /\ seen \in Nat /\ last \in Nat /\ row.rev \in Nat
    BY Numbers DEF Inv, Exec, RunsFit
  <2>6. last < r /\ r > 0
    BY <2>2, <2>4, <2>5 DEF Below
  <2>7. UNCHANGED <<row, cached, post, conn, conns, hello, grace, saw, restarts>>
    BY <1>1 DEF AgentOnly
  <2>8. Typed'
    <3>1. ServerTyped' /\ PostTyped' /\ LinkTyped'
      BY <1>1, <2>7 DEF Inv, Typed, ServerTyped, PostTyped, PostsFit, LinkTyped, LinkFits
    <3>2. AgentTyped' /\ QueuesTyped'
      BY <1>1, <2>1, <2>2, <2>3 DEF Inv, Typed, AgentTyped, QueuesTyped, Finishes
    <3> QED BY <3>1, <3>2 DEF Typed
  <2>9. Recovers' = Recovers
    BY <1>1, <2>7 DEF Recovers
  <2>10. RunsFit'
    BY <2>1, <2>2, <2>3, <2>7, <2>9 DEF RunsFit, Below
  <2>11. CommandsFit' /\ DoingFits'
    BY <1>1, <2>1, <2>6, <2>7, <2>9, StartsStay DEF CommandsFit, Commands, DoingFits, Below
  <2>12. HandlersFit'
    BY <1>1, <2>1, <2>6, <2>7, <2>9, StartsStay DEF HandlersFit, Fits
  <2>13. Lasts
    BY <1>1, <2>7 DEF Lasts, Settled, StoppedByUser
  <2>14. Begins(r)
    BY <2>1, <2>3, <2>6 DEF Begins
  <2> QED BY <2>2, <2>8, <2>10, <2>11, <2>12, <2>13, <2>14 DEF Exec
<1> QED BY <1>2, <1>3

(* A step of the Agent starts one execution or none.                       *)
LEMMA WorkStep ==
    ASSUME Inv, Work
    PROVE  Calm \/ (Typed' /\ Exec' /\ Lasts /\ \E r \in Revs : Begins(r))
<1>1. ASSUME NEW x \in runs, RunEnds(x) \/ RunGone(x) \/ RunReports(x) PROVE Calm
  BY <1>1, RunEndsStep, RunGoneStep, RunReportsStep
<1> QED BY <1>1, TakeStopStep, StoppedStep, TakeStartStep, PreparedStep, StartStep, CannotStartStep,
           ReportFailureStep DEF Work

-----------------------------------------------------------------------------
(* Connections, the grace period, restarts.                                *)

(* A connection is gone, and with it what was sent on it; perhaps also     *)
(* what either process remembers.                                          *)
LEMMA BrokenStep ==
    ASSUME Inv, conn' = 0, ReadsFit, UNCHANGED <<row, conns, outbox, last>>, conns < MaxConns,
           cached' \in {cached, FALSE}, req' \in [Handlers -> Req], req'[Recover] = Idle,
           \A g \in Handlers : req'[g] = req[g] \/ req'[g] = Idle \/ req'[g] = Done,
           PostTyped', \A w \in Posts : Sober(post[w]) => Sober(post'[w]),
           grace' \subseteq 1..MaxConns, restarts' \in 0..MaxRestarts, cmds' = <<>>, doing' = None,
           runs' \subseteq Run, \A y \in runs' : \E x \in runs : y.rev = x.rev, seen' \in {0, seen}
    PROVE  Calm
<1>2. (\A x \in runs' : x.rev = last) /\ (runs = {} => runs' = {})
  BY RunsFrom
<1>3. row' \in Row /\ row'.rev = row.rev /\ cached' \in BOOLEAN /\ (Settled => StoppedByUser' /\ ~cached')
  BY ShownStays
<1>4. Typed'
  <2>1. ServerTyped'
    BY <1>3 DEF ServerTyped
  <2>2. conns \in 0..MaxConns /\ 0 \in 0..MaxConns /\ 0 <= conns
    BY Bounds DEF Inv, Typed, LinkTyped
  <2>3. LinkTyped'
    BY <2>2 DEF LinkTyped, LinkFits, ReadsFit
  <2>4. 0 \in Revs /\ seen \in Revs /\ last \in Revs
    BY DEF Inv, Typed, AgentTyped
  <2>5. AgentTyped'
    BY <2>4 DEF AgentTyped
  <2>6. QueuesTyped'
    BY DEF Inv, Typed, QueuesTyped, Finishes
  <2> QED BY <2>1, <2>3, <2>5, <2>6 DEF Typed
<1>5. ~Recovers'
  BY NoRequest DEF Recovers
<1>6. RunsFit'
  BY <1>2, <1>5 DEF Inv, Exec, RunsFit
<1>7. CommandsFit' /\ DoingFits'
  BY DEF CommandsFit, DoingFits
<1>8. ASSUME NEW g \in Handlers PROVE Fits(g)'
  <2>1. req'[g].rev <= row.rev /\ req'[g].via <= conns
    BY StartsStay, NoRequest, Bounds DEF Fits
  <2> QED BY <1>5, <2>1 DEF Fits
<1>9. Exec'
  BY <1>6, <1>7, <1>8 DEF Exec, HandlersFit
<1>10. Settled => Settled'
  <2>1. \A g \in Handlers : req[g].at \notin {"prepare", "lost"} => req'[g].at \notin {"prepare", "lost"}
    BY NoRequest
  <2> QED BY <1>3, <2>1 DEF Settled, Sober, ReadsFit, Rewrites
<1> QED BY <1>2, <1>4, <1>9, <1>10 DEF Calm, Lasts

(* The command worker goes with its connection.                            *)
LEMMA WorkerGoneEffect ==
    ASSUME Inv, WorkerGone(TRUE)
    PROVE  /\ cmds' = <<>> /\ doing' = None /\ runs' \subseteq Run
           /\ \A y \in runs' : \E x \in runs : y.rev = x.rev
<1>1. cmds' = <<>> /\ doing' = None /\ (runs' = runs \/ runs' = {[x EXCEPT !.quiet = FALSE] : x \in runs})
  BY DEF WorkerGone
<1>2. runs \subseteq Run
  BY DEF Inv, Typed, AgentTyped
<1>3. CASE runs' = runs
  BY <1>1, <1>2, <1>3
<1>4. CASE runs' = {[x EXCEPT !.quiet = FALSE] : x \in runs}
  BY <1>1, <1>4, QuietedRuns, InvParts
<1> QED BY <1>1, <1>3, <1>4

(* The connection ends at both ends.                                       *)
LEMMA BreaksEffect ==
    ASSUME Inv, Breaks, UNCHANGED saw
    PROVE  /\ conn' = 0 /\ ReadsFit /\ conns < MaxConns /\ grace' \subseteq 1..MaxConns
           /\ req' \in [Handlers -> Req] /\ req'[Recover] = Idle
           /\ \A g \in Handlers : req'[g] = req[g] \/ req'[g] = Idle \/ req'[g] = Done
<1>1. Moves(Recover, Idle) /\ conn' = 0 /\ conns < MaxConns /\ conn \in 1..MaxConns
  BY Connections, InvParts DEF Breaks, Moves
<1>2. /\ req' \in [Handlers -> Req] /\ req'[Recover] = Idle
      /\ \A g \in Handlers \ {Recover} : req'[g] = req[g]
  BY <1>1, NoRequest, HandlersAre, MovesEffect, InvParts
<1>3. ReadsFit /\ grace' \subseteq 1..MaxConns
  <2>1. grace \subseteq 1..MaxConns
    BY DEF Inv, Typed, LinkTyped
  <2>2. CASE Closes(conn)
    BY <1>1, <2>1, <2>2, NoHandshake, HelloMoves, InvParts DEF Closes
  <2>3. CASE UNCHANGED <<hello, grace>>
    BY <2>1, <2>3, ReadsStay, InvParts
  <2> QED BY <2>2, <2>3 DEF Breaks
<1> QED BY <1>1, <1>2, <1>3

(* The network drops it,                                                   *)
LEMMA DisconnectStep == ASSUME Inv, Disconnect PROVE Calm
<1>1. /\ Breaks /\ WorkerGone(TRUE)
      /\ UNCHANGED <<row, cached, post, conns, seen, outbox, last, saw, restarts>>
  BY DEF Disconnect
<1>2. PostTyped' /\ restarts' \in 0..MaxRestarts
  BY <1>1 DEF Inv, Typed, PostTyped, PostsFit, LinkTyped
<1> QED BY <1>1, <1>2, BreaksEffect, WorkerGoneEffect, BrokenStep

(* Restarts are counted.                                                   *)
LEMMA RestartsEffect == ASSUME Inv, Restarts PROVE restarts' \in 0..MaxRestarts
BY DEF Restarts, Inv, Typed, LinkTyped

(* the Agent restarts and forgets what it has seen,                        *)
LEMMA AgentRestartsStep == ASSUME Inv, AgentRestarts PROVE Calm
<1>1. /\ Breaks /\ Restarts
      /\ cmds' = <<>> /\ doing' = None /\ runs' = {} /\ seen' = 0
      /\ post' = [w \in Posts |-> [post[w] EXCEPT !.waited = FALSE]]
      /\ UNCHANGED <<row, cached, conns, outbox, last, saw>>
  BY DEF AgentRestarts
<1>2. ASSUME NEW w \in Posts
      PROVE  post'[w] \in Post /\ post'[w].at = post[w].at /\ post'[w].rep = post[w].rep
             /\ post'[w].stopped = post[w].stopped
  <2>1. post[w] \in Post /\ post'[w] = [post[w] EXCEPT !.waited = FALSE]
    BY <1>1 DEF Inv, Typed, PostTyped
  <2>2. PICK p : p = [post[w] EXCEPT !.waited = FALSE]
    OBVIOUS
  <2>3. p \in Post /\ p.at = post[w].at /\ p.rep = post[w].rep /\ p.stopped = post[w].stopped
    BY <2>1, <2>2 DEF Post
  <2> QED BY <2>1, <2>2, <2>3
<1>3. PostTyped'
  <2>1. post' = [w \in Posts |-> post'[w]]
    BY <1>1
  <2>2. post' \in [Posts -> Post]
    BY <1>2, <2>1
  <2> QED BY <1>2, <2>2 DEF Inv, Typed, PostTyped, PostsFit
<1>4. \A w \in Posts : Sober(post[w]) => Sober(post'[w])
  BY <1>2 DEF Sober
<1>5. runs' \subseteq Run /\ \A y \in runs' : \E x \in runs : y.rev = x.rev
  BY <1>1
<1> QED BY <1>1, <1>3, <1>4, <1>5, BreaksEffect, RestartsEffect, BrokenStep

(* or the server does.                                                     *)
LEMMA ServerRestartsStep == ASSUME Inv, ServerRestarts PROVE Calm
<1>1. /\ conns < MaxConns /\ Restarts /\ conn' = 0 /\ grace' = {} /\ cached' = FALSE
      /\ hello' = [c \in 1..MaxConns |-> NoHello] /\ saw' = [x \in Readers |-> ""]
      /\ req' = [h \in Handlers |-> IF h = Recover \/ req[h].at = "idle" THEN Idle ELSE Done]
      /\ post' = [w \in Posts |-> IdlePost] /\ WorkerGone(TRUE)
      /\ UNCHANGED <<row, conns, seen, outbox, last>>
  BY DEF ServerRestarts
<1>2. /\ req' \in [Handlers -> Req] /\ req'[Recover] = Idle
      /\ \A g \in Handlers : req'[g] = req[g] \/ req'[g] = Idle \/ req'[g] = Done
  BY <1>1, NoRequest, HandlersAre
<1>3. PostTyped' /\ \A w \in Posts : Sober(post'[w])
  BY <1>1, NoReport DEF PostTyped, PostsFit, Sober
<1>4. ReadsFit
  BY <1>1, NoHandshake DEF ReadsFit, Sights
<1> QED BY <1>1, <1>2, <1>3, <1>4, RestartsEffect, WorkerGoneEffect, BrokenStep

(* The Agent connects: whatever was prepared is for an older connection.   *)
LEMMA ConnectStep == ASSUME Inv, Connect PROVE Calm
<1> DEFINE active == IF Entry # None /\ ~Entry.cancelled THEN {Entry.rev} ELSE {}
           announced == {outbox[i].rev : i \in {j \in DOMAIN outbox : outbox[j].kind # "result"}}
           known == active \cup announced
           stop == runs # {}
<1>1. /\ conn = 0 /\ conn' = conns + 1 /\ conns' = conns + 1
      /\ UNCHANGED <<row, cached, req, post, grace, cmds, doing, runs, seen, outbox, last, saw, restarts>>
  BY DEF Connect, agentVars
<1>2. active \subseteq Revs
  <2>1. CASE runs = {}
    BY <2>1 DEF Entry
  <2>2. CASE runs # {}
    <3>1. \E x \in runs : \A y \in runs : y.rev <= x.rev
      <4>1. \A x \in runs : x.rev = last /\ last <= last
        BY StartsStay, Numbers DEF Inv
      <4> QED BY <2>2, <4>1
    <3>2. Entry \in runs
      BY <2>2, <3>1 DEF Entry
    <3>3. Entry \in Run
      BY <3>2 DEF Inv, Typed, AgentTyped
    <3> QED BY <3>3 DEF Run
  <2> QED BY <2>1, <2>2
<1>3. announced \subseteq Revs
  <2>1. \A i \in DOMAIN outbox : outbox[i] \in Report
    BY DEF Inv, Typed, QueuesTyped
  <2> QED BY <2>1 DEF Report
<1>4. PICK k : /\ k = [NoHello EXCEPT !.at = "load", !.active = active, !.known = known, !.stop = stop]
               /\ hello' = [hello EXCEPT ![conns + 1] = k]
  BY DEF Connect
<1>5. active \in SUBSET Revs /\ known \in SUBSET Revs /\ stop \in BOOLEAN
  BY <1>2, <1>3
<1> HIDE DEF active, known, stop
<1>6. k \in Hello /\ k.at = "load"
  <2>1. PICK h : h = [NoHello EXCEPT !.at = "load", !.active = active]
    OBVIOUS
  <2>2. h \in Hello /\ h.at = "load"
    BY <1>5, <2>1, NoHandshake DEF Hello
  <2>3. k = [h EXCEPT !.known = known, !.stop = stop]
    BY <1>4, <2>1
  <2> QED BY <1>5, <2>2, <2>3 DEF Hello
<1>7. conns \in Nat /\ conns < MaxConns /\ conns + 1 \in 1..MaxConns
  BY <1>1, Numbers DEF Inv, Typed, LinkTyped, LinkFits
<1>12. ReadsFit
  BY <1>1, <1>4, <1>6, <1>7, HelloMoves, InvParts DEF Rewrites
<1>8. Typed'
  <2>1. LinkTyped'
    <3>1. hello' \in [1..MaxConns -> Hello] /\ saw' \in [Readers -> Sights]
      BY <1>12 DEF ReadsFit
    <3>2. grace' \subseteq 1..MaxConns /\ restarts' \in 0..MaxRestarts
      BY <1>1 DEF Inv, Typed, LinkTyped
    <3> QED BY <1>1, <1>7, <3>1, <3>2 DEF LinkTyped, LinkFits
  <2> QED BY <1>1, <2>1 DEF Inv, Typed, ServerTyped, PostTyped, PostsFit, AgentTyped, QueuesTyped, Finishes
<1>9. ASSUME NEW g \in Handlers
      PROVE  /\ req'[g].rev <= row.rev /\ req'[g].via <= conns'
             /\ req'[g].at = "prepare" =>
                  /\ Recovers => req'[g].rev < row.rev
                  /\ seen = 0 /\ conn' # 0 /\ req'[g].via = conn' => last < req'[g].rev
  <2>1. req[g].via <= conns /\ req[g].via \in Nat /\ Fits(g)
    BY StartsStay, Numbers DEF Inv, Fits
  <2>2. req[g].via <= conns + 1 /\ req[g].via # conns + 1
    BY <1>7, <2>1
  <2> QED BY <1>1, <2>1, <2>2 DEF Fits
<1>10. Exec'
  <2>1. Recovers' => Recovers
    BY <1>1 DEF Recovers
  <2>2. Commands(cmds') /\ Worker(doing') /\ \A x \in runs' : x.rev = last
    BY <1>1, StartsStay
  <2> QED BY <1>1, <1>9, <2>1, <2>2, ExecKept
<1>11. Settled => Settled'
  BY <1>1, <1>12 DEF Settled, StoppedByUser, ReadsFit, Rewrites
<1> QED BY <1>1, <1>8, <1>10, <1>11 DEF Calm, Lasts

(* A handshake reads the row,                                              *)
LEMMA LoadReattachedStep == ASSUME Inv, NEW c \in 1..MaxConns, LoadReattached(c) PROVE Calm
<1> DEFINE k == hello[c]
           to == IF row.rev \in k.active /\ Interrupted THEN "write" ELSE "welcome"
           st == IF IsActive THEN row.st ELSE "running"
           stop == k.stop /\ StoppedByUser
<1>1. UNCHANGED <<row, cached, req, post, conn, conns, cmds, grace, agentVars, saw, restarts>>
  BY DEF LoadReattached, ShakeStays
<1>2. PICK h : h = [k EXCEPT !.at = to, !.st = st]
  OBVIOUS
<1>3. k \in Hello /\ to \in {"write", "welcome"} /\ st \in Active /\ row.rev \in Revs
  BY RowParts, InvParts DEF Inv, Typed, LinkTyped, IsActive
<1>4. Settled => to = "welcome"
  BY SettledRow
<1>5. PICK b \in BOOLEAN : b <=> stop
  OBVIOUS
<1>6. hello' = [hello EXCEPT ![c] = [h EXCEPT !.stop = k.stop /\ StoppedByUser, !.rev = row.rev]]
  BY <1>2 DEF LoadReattached
<1> HIDE DEF k, to, st
<1>7. h \in Hello /\ h.at = to
  BY <1>2, <1>3 DEF Hello
<1>8. (k.stop /\ StoppedByUser) = b
  BY <1>3, <1>5 DEF Hello
<1>9. PICK n : n = [h EXCEPT !.stop = b, !.rev = row.rev] /\ hello' = [hello EXCEPT ![c] = n]
  BY <1>6, <1>8
<1>10. n \in Hello /\ n.at = to
  BY <1>3, <1>7, <1>9 DEF Hello
<1>11. ReadsFit /\ grace' \subseteq 1..MaxConns
  BY <1>1, <1>4, <1>9, <1>10, HelloMoves, InvParts DEF Rewrites, Inv, Typed, LinkTyped
<1> QED BY <1>1, <1>11, ShownStays, ServerOnlyStep

(* A handshake takes its next step.                                        *)
LEMMA ShakesEffect ==
    ASSUME Inv, NEW c \in 1..MaxConns, NEW from, NEW to \in {"write", "cache", "welcome"},
           Shakes(c, from, to), ShakeStays, Rewrites(hello[c])
    PROVE  /\ UNCHANGED <<req, post, conn, conns, cmds, agentVars, restarts>>
           /\ ReadsFit /\ grace' \subseteq 1..MaxConns /\ ~Settled
<1>1. UNCHANGED <<req, post, conn, conns, cmds, grace, agentVars, saw, restarts>>
  BY DEF ShakeStays
<1>2. PICK k : k = [hello[c] EXCEPT !.at = to]
  OBVIOUS
<1>3. k \in Hello /\ hello' = [hello EXCEPT ![c] = k]
  <2>1. hello[c] \in Hello
    BY DEF Inv, Typed, LinkTyped
  <2>2. k \in Hello
    BY <1>2, <2>1 DEF Hello
  <2> QED BY <1>2, <2>2 DEF Shakes
<1>4. ~Settled
  BY DEF Settled, Rewrites
<1> QED BY <1>1, <1>3, <1>4, HelloMoves, InvParts DEF Inv, Typed, LinkTyped

(* writes it back,                                                         *)
LEMMA WriteReattachedStep == ASSUME Inv, NEW c \in 1..MaxConns, WriteReattached(c) PROVE Calm
<1>1. /\ Shakes(c, "write", "cache") /\ ShakeStays /\ UNCHANGED cached /\ Rewrites(hello[c])
      /\ row' = [row EXCEPT !.st = hello[c].st, !.why = "", !.conn = c]
  BY DEF WriteReattached, Shakes, Rewrites
<1>2. hello[c].st \in Active /\ c \in 0..MaxConns
  BY DEF Inv, Typed, LinkTyped, Hello
<1>3. row' \in Row /\ row'.rev = row.rev
  BY <1>1, <1>2, InvParts DEF Row
<1> QED BY <1>1, <1>3, ShakesEffect, InvParts, ServerOnlyStep

(* caches what it had loaded,                                              *)
LEMMA CacheReattachedStep == ASSUME Inv, NEW c \in 1..MaxConns, CacheReattached(c) PROVE Calm
<1>1. /\ Shakes(c, "cache", "welcome") /\ ShakeStays /\ cached' = TRUE /\ UNCHANGED row
      /\ Rewrites(hello[c])
  BY DEF CacheReattached, Shakes, Rewrites
<1> QED BY <1>1, ShakesEffect, InvParts, ServerOnlyStep

(* and may find that nobody is left to be welcomed.                        *)
LEMMA HangUpStep == ASSUME Inv, NEW c \in 1..MaxConns, HangUp(c) PROVE Calm
<1>1. /\ UNCHANGED <<row, cached, req, post, conn, conns, cmds, agentVars, saw, restarts>>
      /\ hello' = [hello EXCEPT ![c] = NoHello] /\ grace' = grace \cup {c}
  BY DEF HangUp, Closes
<1>2. ReadsFit /\ grace' \subseteq 1..MaxConns
  BY <1>1, NoHandshake, HelloMoves, InvParts DEF Inv, Typed, LinkTyped
<1> QED BY <1>1, <1>2, ShownStays, ServerOnlyStep

(* The grace of a lost connection ends.                                    *)
LEMMA GraceEndsStep == ASSUME Inv, NEW c \in grace, GraceEnds(c) PROVE Calm
<1>1. /\ UNCHANGED <<req, post, conn, conns, cmds, hello, agentVars, saw, restarts>>
      /\ grace' = grace \ {c} /\ cached' \in {cached, FALSE}
      /\ row' = row \/ (IsActive /\ Becomes("cancelled", "disconnect"))
  BY DEF GraceEnds
<1>2. row' \in Row /\ row'.rev = row.rev /\ cached' \in BOOLEAN /\ (Settled => StoppedByUser' /\ ~cached')
  <2>1. CASE row' = row
    BY <1>1, <2>1, ShownStays
  <2>2. CASE IsActive /\ Becomes("cancelled", "disconnect")
    BY <1>1, <2>2, SettledRow, BecomesEffect, InvParts
  <2> QED BY <1>1, <2>1, <2>2
<1>3. ReadsFit /\ grace' \subseteq 1..MaxConns
  BY <1>1, ReadsStay, InvParts DEF Inv, Typed, LinkTyped
<1> QED BY <1>1, <1>2, <1>3, ServerOnlyStep

(* A page reads the scan,                                                  *)
LEMMA ReadScanStep == ASSUME Inv, NEW v \in Viewers, ReadScan(v) PROVE Calm
<1>1. /\ UNCHANGED <<row, cached, req, post, conn, conns, cmds, grace, hello, agentVars, restarts>>
      /\ saw' = [saw EXCEPT ![v] = "active"] /\ ~Settled
  BY SettledRow DEF ReadScan, linkVars
<1>2. ReadsFit /\ grace' \subseteq 1..MaxConns
  BY <1>1, SawMoves, InvParts DEF Readers, Sights, Inv, Typed, LinkTyped
<1> QED BY <1>1, <1>2, ShownStays, ServerOnlyStep

(* What finds the Agent of a scan gone, and goes by what was read of it.   *)
LEMMA CancelsOfflineEffect ==
    ASSUME Inv, CancelsOffline
    PROVE  row' \in Row /\ row'.rev = row.rev /\ cached' \in BOOLEAN
<1>1. CASE conn = 0
  BY <1>1, BecomesEffect, InvParts DEF CancelsOffline
<1>2. CASE conn # 0
  BY <1>2, InvParts DEF CancelsOffline
<1> QED BY <1>1, <1>2

(* and later finds its Agent gone;                                         *)
LEMMA ReconcileStep == ASSUME Inv, NEW v \in Viewers, Reconcile(v) PROVE Calm
<1>1. /\ UNCHANGED <<req, post, conn, conns, cmds, grace, hello, agentVars, restarts>>
      /\ CancelsOffline /\ saw' = [saw EXCEPT ![v] = ""] /\ v \in Readers
  BY DEF Reconcile, linkVars, Readers
<1>2. ~Settled
  BY <1>1 DEF Reconcile, Settled
<1>3. ReadsFit /\ grace' \subseteq 1..MaxConns
  BY <1>1, SawMoves, InvParts DEF Sights, Inv, Typed, LinkTyped
<1> QED BY <1>1, <1>2, <1>3, CancelsOfflineEffect, ServerOnlyStep

(* a cached scan is never a settled one.                                   *)
LEMMA ReconcileCachedStep == ASSUME Inv, ReconcileCached PROVE Calm
<1>1. /\ UNCHANGED <<req, post, conn, conns, cmds, grace, hello, agentVars, saw, restarts>>
      /\ CancelsOffline /\ cached
  BY DEF ReconcileCached, linkVars
<1>2. ~Settled
  BY <1>1 DEF Settled
<1>3. ReadsFit /\ grace' \subseteq 1..MaxConns
  BY <1>1, ReadsStay, InvParts DEF Inv, Typed, LinkTyped
<1> QED BY <1>1, <1>2, <1>3, CancelsOfflineEffect, ServerOnlyStep

(* The welcome stops what was stopped meanwhile, and begins the recovery.  *)
LEMMA WelcomeStep == ASSUME Inv, Welcome PROVE Calm
<1> DEFINE k == hello[conn]
<1>1. /\ UNCHANGED <<row, cached, post, conn, conns, grace, agentVars, saw, restarts>>
      /\ hello' = [hello EXCEPT ![conn] = [Open EXCEPT !.known = k.known]] /\ conn \in 1..MaxConns
  BY Connections, InvParts DEF Welcome
<1>2. k \in Hello /\ k.known \in SUBSET Revs /\ k.rev \in Revs /\ conn \in 0..MaxConns
  BY <1>1 DEF Inv, Typed, LinkTyped, Hello
<1>3. ReadsFit
  <2>1. PICK n : n = [Open EXCEPT !.known = k.known]
    OBVIOUS
  <2>2. n \in Hello /\ n.at = "open"
    BY <1>2, <2>1, NoHandshake DEF Hello
  <2> QED BY <1>1, <2>1, <2>2, HelloMoves, InvParts DEF Rewrites
<1>4. PICK q : q = [Idle EXCEPT !.at = "list", !.via = conn]
  OBVIOUS
<1>5. q \in Req /\ q.at = "list" /\ q.rev = 0 /\ q.via = conn
  BY <1>2, <1>4, NoRequest DEF Req
<1>6. Moves(Recover, q)
  BY <1>4 DEF Welcome, Moves
<1>7. cmds' \in Seq(Command) /\ Commands(cmds')
  <2> DEFINE c == [do |-> "stop", rev |-> k.rev, for |-> None]
  <2>1. c \in Command /\ c.do = "stop"
    BY <1>2 DEF Command
  <2>2. cmds' = <<c>> \/ cmds' = <<>>
    BY DEF Welcome
  <2> HIDE DEF c
  <2>3. CASE cmds' = <<c>>
    BY <2>1, <2>3 DEF Commands
  <2>4. CASE cmds' = <<>>
    BY <2>4 DEF Commands
  <2> QED BY <2>2, <2>3, <2>4
<1> QED BY <1>1, <1>3, <1>5, <1>6, <1>7, Bounds, HandlersAre, ShownStays, HandlerMoves

(* No handshake starts anything,                                           *)
LEMMA HandshakeStep == ASSUME Inv, Handshake PROVE Calm
BY ConnectStep, WelcomeStep, LoadReattachedStep, WriteReattachedStep, CacheReattachedStep, HangUpStep
   DEF Handshake

(* and no connection, restart, loss or page does.                          *)
LEMMA LinkStep == ASSUME Inv, Link PROVE Calm
<1>1. ASSUME NEW c \in grace, GraceEnds(c) PROVE Calm
  BY <1>1, GraceEndsStep
<1>2. ASSUME NEW v \in Viewers, ReadScan(v) \/ Reconcile(v) PROVE Calm
  BY <1>2, ReadScanStep, ReconcileStep
<1> QED BY <1>1, <1>2, DisconnectStep, HandshakeStep, ReconcileCachedStep, AgentRestartsStep,
           ServerRestartsStep DEF Link

-----------------------------------------------------------------------------
(* The invariant, and what follows from it.                                *)

(* The invariant holds at first,                                           *)
LEMMA InitInv == Init => Inv
<1> SUFFICES ASSUME Init PROVE Inv
  OBVIOUS
<1>1. 1 \in 0..MaxConns /\ 0 \in 0..MaxConns /\ 0 \in Revs /\ 0 \in 0..MaxRestarts
  OBVIOUS
<1>2. row = [st |-> "pending", why |-> "", rev |-> 0, conn |-> 1] /\ cached = TRUE
  BY DEF Init, InitFor
<1>3. ASSUME NEW h \in Handlers
      PROVE  req[h] \in Req /\ req[h].rev = 0 /\ req[h].via \in {0, 1} /\ req[h].at \in {"begin", "idle", "done"}
  <2>1. CASE h = Create
    <3>1. req[h] = [at |-> "begin", rev |-> 0, via |-> 1]
      BY <2>1 DEF Init, InitFor
    <3> QED BY <1>1, <3>1 DEF Req
  <2>2. CASE h # Create
    <3>1. req[h] \in {Idle, Done}
      BY <2>2 DEF Init, InitFor
    <3> QED BY <3>1, NoRequest
  <2> QED BY <2>1, <2>2
<1>4. ServerTyped
  <2>1. req = [h \in Handlers |-> req[h]]
    BY DEF Init, InitFor
  <2>2. req \in [Handlers -> Req]
    BY <1>3, <2>1
  <2> QED BY <1>1, <1>2, <2>2 DEF ServerTyped, Row
<1>5. /\ conn = 1 /\ conns = 1 /\ cmds = <<>> /\ grace = {} /\ saw = [x \in Readers |-> ""]
       /\ hello = [c \in 1..MaxConns |-> IF c = 1 THEN Open ELSE NoHello]
       /\ doing = None /\ runs = {} /\ seen = 0 /\ outbox = <<>> /\ last = 0 /\ restarts = 0
  BY DEF Init, InitFor
<1>6. PostTyped
  BY NoReport DEF Init, InitFor, PostTyped, PostsFit
<1>7. LinkTyped
  <2>1. hello \in [1..MaxConns -> Hello]
    BY <1>5, NoHandshake
  <2>2. saw \in [Readers -> Sights]
    BY <1>5 DEF Sights
  <2>3. conn = 1 /\ conns = 1 /\ grace = {} /\ restarts = 0
    BY <1>5
  <2> QED BY <1>1, <2>1, <2>2, <2>3 DEF LinkTyped, LinkFits
<1>8. AgentTyped /\ QueuesTyped
  <2>1. cmds = <<>> /\ doing = None /\ runs = {} /\ seen = 0 /\ outbox = <<>> /\ last = 0
    BY <1>5
  <2> QED BY <1>1, <2>1 DEF AgentTyped, QueuesTyped, Finishes
<1>9. ~Recovers
  BY <1>3, HandlersAre DEF Recovers
<1>10. RunsFit /\ CommandsFit /\ DoingFits
  <2>1. row.rev = 0
    BY <1>2
  <2>2. RunsFit
    <3>1. runs = {} /\ seen = 0 /\ last = 0
      BY <1>5
    <3> QED BY <1>9, <2>1, <3>1 DEF RunsFit
  <2>3. Len(cmds) = 0
    BY <1>5
  <2>4. CommandsFit
    BY <2>3 DEF CommandsFit
  <2>5. DoingFits
    BY <1>5 DEF DoingFits
  <2> QED BY <2>2, <2>4, <2>5
<1>11. HandlersFit
  <2>1. conns = 1 /\ row.rev = 0
    BY <1>2, <1>5
  <2> QED BY <1>3, <2>1 DEF HandlersFit, Fits
<1> QED BY <1>4, <1>6, <1>7, <1>8, <1>10, <1>11 DEF Inv, Typed, Exec

(* Nothing at all.                                                         *)
LEMMA Stutter == ASSUME Inv, UNCHANGED vars PROVE Calm
<1>1. /\ UNCHANGED <<row, cached, req, post, conn, conns, cmds, hello, grace, agentVars, saw, restarts>>
  BY DEF vars, linkVars
<1>2. grace' \subseteq 1..MaxConns
  BY <1>1 DEF Inv, Typed, LinkTyped
<1> QED BY <1>1, <1>2, ReadsStay, InvParts, ShownStays, ServerOnlyStep

(* every step is calm or starts one execution,                             *)
LEMMA EveryStep ==
    ASSUME Inv, [Next]_vars
    PROVE  Calm \/ (Typed' /\ Exec' /\ Lasts /\ \E r \in Revs : Begins(r))
BY Stutter, ServerStep, WorkStep, LinkStep DEF Next

(* and so keeps it, and a settled stop.                                    *)
LEMMA NextInv == Inv /\ [Next]_vars => Inv' /\ Lasts
BY EveryStep DEF Inv, Calm

(* The typing and the invariant about starts hold in every behaviour.      *)
THEOREM InvHolds == Spec => []Inv
<1>1. Inv /\ [Next]_vars => Inv'
  BY NextInv
<1> QED BY <1>1, InitInv, PTL DEF Spec

(* Rows, handlers, commands, reports and runs keep their types.            *)
THEOREM TypeCorrect == Spec => []TypeOK
<1>1. Inv => TypeOK
  BY TypedSuffices DEF Inv
<1> QED BY <1>1, InvHolds, PTL

(* A stop that no handler, page or handshake which has read the scan can   *)
(* still overwrite lasts until a newer execution is claimed, whatever      *)
(* connects, breaks, restarts or comes late.                               *)
THEOREM StopsLast == Spec => StopLasts
<1>1. Inv /\ [Next]_vars => [Settled /\ row'.rev = row.rev => Settled']_vars
  BY NextInv DEF Lasts
<1> QED BY <1>1, InvHolds, PTL DEF Spec, StopLasts

-----------------------------------------------------------------------------
(* The refinement.                                                         *)

Live == {x.rev : x \in runs}

(* Every step is a start, an end or nothing to the abstract executions.    *)
LEMMA StepMaps == Inv /\ [Next]_vars => [Execution!Next]_<<Live, last>>
<1> SUFFICES ASSUME Inv, [Next]_vars PROVE Execution!Next \/ UNCHANGED <<Live, last>>
  BY DEF Live
<1>1. CASE Calm
  <2>1. (\A x \in runs : x.rev = last) /\ (\A x \in runs' : x.rev = last) /\ last' = last
    BY <1>1 DEF Calm, Inv, Exec, RunsFit
  <2>2. runs = {} => runs' = {}
    BY <1>1 DEF Calm
  <2>3. Live = (IF runs = {} THEN {} ELSE {last}) /\ Live' = (IF runs' = {} THEN {} ELSE {last})
    BY <2>1 DEF Live
  <2>4. CASE runs # {} /\ runs' = {}
    <3>1. Live # {} /\ Live' = {}
      BY <2>3, <2>4
    <3> QED BY <2>1, <3>1 DEF Execution!Next, Execution!Ends, Live
  <2>5. CASE ~(runs # {} /\ runs' = {})
    BY <2>1, <2>2, <2>3, <2>5
  <2> QED BY <2>4, <2>5
<1>2. ASSUME NEW r \in Revs, Begins(r)
      PROVE  Execution!Next
  <2>1. PICK x : runs' = {x} /\ x.rev = r
    BY <1>2 DEF Begins
  <2>2. Live = {} /\ Live' = {r} /\ last < r /\ last' = r
    BY <1>2, <2>1 DEF Begins, Live
  <2>3. r > last
    BY <2>2, Numbers DEF Inv
  <2>4. Execution!Start(r)
    BY <2>2, <2>3 DEF Execution!Start, Live
  <2> QED BY <2>2, <2>4 DEF Execution!Next, Live
<1> QED BY <1>1, <1>2, EveryStep

(* The Agent runs at most one execution of the scan at a time and each     *)
(* revision at most once, in rising order, whatever requests, commands and *)
(* reports are late, repeated or lost, and whichever side restarts.        *)
THEOREM OneExecutionAtATime == Spec => ImplementsOneExecution
<1>1. Init => Execution!Init
  BY DEF Init, InitFor, Execution!Init
<1>2. Inv /\ [Next]_vars => [Execution!Next]_<<Live, last>>
  BY StepMaps
<1> QED BY <1>1, <1>2, InvHolds, PTL DEF Spec, ImplementsOneExecution, Execution!Spec, Live

=============================================================================
