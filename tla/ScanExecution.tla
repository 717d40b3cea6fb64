---------------------------- MODULE ScanExecution ----------------------------
(***************************************************************************)
(* One scan between the server and its Agent: create, stop, continue, the  *)
(* Agent's commands and reports, disconnects, recovery and restarts.       *)
(*                                                                         *)
(* Every execution has a control revision, stored in the scan's row; the   *)
(* server's handlers read, await and write, so they are one action per     *)
(* step between awaits.  The Agent's command worker is serial.             *)
(*                                                                         *)
(* Abstracted: the Agent session of an execution (one per revision);       *)
(* analyzing and auditing are both "running"; candidates, stages and       *)
(* checkpoints; reviews and validations; PostgreSQL mode.  A connection    *)
(* breaks at both ends in one step, and what was sent on it is lost, but a *)
(* handshake goes on to its end before the server notices.  Adjacent       *)
(* writes of one handler to the row are one step; an event is a report     *)
(* handled like a result.                                                  *)
(***************************************************************************)
EXTENDS Naturals, Sequences, FiniteSets

CONSTANTS
    Stops,        \* user requests to stop the scan
    Continues,    \* user requests to continue it
    Create, Recover,  \* the create request; the recovery of the newest connection
    Posts,        \* requests in which the server can be handling reports
    Viewers,      \* requests that show the scan
    None,
    MaxRev,       \* bound: executions
    MaxConns,     \* bound: connections
    MaxResults,   \* bound: intermediate results an execution reports
    MaxRestarts   \* bound: restarts of the Agent process or the server

Handlers == Stops \cup Continues \cup {Create, Recover}

ASSUME ScanAssumption ==
    /\ Create # Recover /\ {Create, Recover} \cap (Stops \cup Continues) = {}
    /\ Stops \cap Continues = {}
    /\ MaxRev \in Nat \ {0} /\ MaxConns \in Nat \ {0}
    /\ MaxResults \in Nat /\ MaxRestarts \in Nat

VARIABLES
    row,      \* the scan's row: status, error_message, execution_revision, agent_id
    cached,   \* whether _running_scans holds the scan
    req,      \* the request handlers: where each is, its revision, its connection
    post,     \* the report handlers
    saw,      \* what a viewer or a stop has read and goes by: active, or how it ended
    hello,    \* the handler of each connection: how far its handshake is
    grace,    \* connections whose disconnect grace runs
    conn,     \* the connection the Agent has, 0 when none
    conns,    \* connections so far
    cmds,     \* commands under way or in the Agent's queue
    doing,    \* what the Agent's command worker does
    runs,     \* scan tasks of the Agent process
    seen,     \* TaskManager._execution_revisions
    outbox,   \* reports the Agent has to deliver
    last,     \* history: the newest revision ever started on the Agent
    restarts

linkVars    == <<conn, conns, cmds, hello, grace>>
agentVars   == <<doing, runs, seen, outbox, last>>
vars == <<row, cached, req, post, saw, linkVars, agentVars, restarts>>

Revs == 0..MaxRev
Active == {"pending", "running"}
Terminal == {"complete", "error", "cancelled"}
Whys == {"", "user", "disconnect", "recovering", "unrecovered", "failed"}
Row == [st : Active \cup Terminal, why : Whys, rev : Revs, conn : 0..MaxConns]
Steps == {"idle", "begin", "list", "reclaim", "load", "write", "ask", "wait", "claim",
          "prepare", "lost", "giveup", "done"}
Command == [do : {"task", "stop", "resume"}, rev : Revs, for : Handlers \cup {None}]
PostSteps == {"idle", "finish", "loading", "writing", "dropping", "failure", "result",
              "reviving", "caching", "advancing", "reply"}
Outcomes == {"complete", "error", "cancelled"}
Report == [kind : {"finish", "failure", "result"}, rev : Revs,
           outcome : Outcomes \cup {None}]
Hello == [at : {"load", "write", "cache", "welcome", "open", "closed"}, active : SUBSET Revs,
          known : SUBSET Revs, st : Active, stop : BOOLEAN, rev : Revs]
Run == [rev : Revs, cancelled : BOOLEAN, quiet : BOOLEAN, reporting : BOOLEAN]

Idle == [at |-> "idle", rev |-> 0, via |-> 0]
Done == [Idle EXCEPT !.at = "done"]
IdlePost == [at |-> "idle", rep |-> None, waited |-> FALSE, stopped |-> FALSE]
NoHello == [at |-> "closed", active |-> {}, known |-> {}, st |-> "running", stop |-> FALSE,
            rev |-> 0]
Open == [NoHello EXCEPT !.at = "open"]
Readers == Viewers \cup Stops

(* The create request has stored the row and cached the scan; asked holds  *)
(* the requests that users will make, and used counts against MaxConns.    *)
InitFor(asked, used) ==
    /\ row = [st |-> "pending", why |-> "", rev |-> 0, conn |-> 1] /\ cached = TRUE
    /\ req = [h \in Handlers |-> IF h = Create THEN [at |-> "begin", rev |-> 0, via |-> 1]
                          ELSE IF h \in asked \cup {Recover} THEN Idle ELSE Done]
    /\ post = [w \in Posts |-> IdlePost]
    /\ conn = 1 /\ conns = used /\ cmds = <<>> /\ grace = {}
    /\ hello = [c \in 1..MaxConns |-> IF c = 1 THEN Open ELSE NoHello]
    /\ saw = [x \in Readers |-> ""]
    /\ doing = None /\ runs = {} /\ seen = 0 /\ outbox = <<>> /\ last = 0
    /\ restarts = 0

Init == InitFor(Stops \cup Continues, 1)

-----------------------------------------------------------------------------
(* The row's conditional updates (store/sqlite.py).                        *)

IsActive == row.st \in Active
StoppedByUser == row.st = "cancelled" /\ row.why = "user"
Recovering == row.st = "cancelled" /\ row.why = "recovering"
(* _is_infrastructure_interruption, list_agent_inflight_executions         *)
ForgetsRecovery == IsActive \/ (row.st = "cancelled" /\ row.why = "disconnect")  \* faulty variant
Interrupted ==
    \/ IsActive
    \/ row.st = "cancelled" /\ row.why \in {"disconnect", "recovering"}
    \/ row.st = "error" /\ row.why = "unrecovered"

Swapped(st, why) == row' = [row EXCEPT !.st = why, !.why = st]   \* faulty variant
Becomes(st, why) == row' = [row EXCEPT !.st = st, !.why = why]

(* fail_scan_execution; fail_scan_recovery                                 *)
FailsExecution(r) == row.st = "pending" /\ row.rev = r
FailsRecovery(r) == row.rev = r /\ (row.st \in {"pending", "error"} \/ Recovering)

-----------------------------------------------------------------------------
(* Handlers on the server.                                                 *)

To(h, step) == IF step = "done" THEN Done ELSE [req[h] EXCEPT !.at = step]
Moves(h, to) == req' = [req EXCEPT ![h] = to]
Goes(h, from, to) == req[h].at = from /\ Moves(h, To(h, to))
Stays == UNCHANGED <<post, linkVars, agentVars, saw, restarts>>

Sends(h, do) ==
    cmds' = Append(cmds, [do |-> do, rev |-> req[h].rev,
                          for |-> IF do = "stop" THEN h ELSE None])
Reachable(h) == conn # 0 /\ req[h].via = conn

(* create_scan: begin_scan_execution, then the task command                *)
Begin ==
    /\ req[Create].at = "begin" /\ row.rev + 1 \in Revs
    /\ row' = [row EXCEPT !.rev = @ + 1, !.conn = req[Create].via]
    /\ Moves(Create, [req[Create] EXCEPT !.at = "prepare", !.rev = row.rev + 1])
    /\ UNCHANGED cached /\ Stays

Dispatches(h, do) ==
    /\ IF Reachable(h) THEN Goes(h, "prepare", "done") /\ Sends(h, do)
                       ELSE Goes(h, "prepare", "lost") /\ UNCHANGED cmds
    /\ UNCHANGED <<row, post, conn, conns, hello, grace, agentVars, saw, restarts>>

SendTask == Dispatches(Create, "task") /\ UNCHANGED cached

(* stop_scan: load, persist the user's intent, then tell the Agent.  If    *)
(* the scan has ended and only its reviews are stopped, the status that    *)
(* was loaded is written once more.                                        *)
LoadForStop(h) ==
    /\ h \in Stops /\ req[h].at = "idle"
    /\ \/ /\ IsActive /\ Moves(h, [Idle EXCEPT !.at = "write", !.rev = row.rev])
          /\ UNCHANGED <<cached, saw>>
       \/ /\ ~IsActive /\ Moves(h, Done) /\ cached' = FALSE
          /\ \E st \in {"", row.st} : saw' = [saw EXCEPT ![h] = st]
    /\ UNCHANGED <<row, post, linkVars, agentVars, restarts>>

WriteBack(h) ==
    /\ h \in Stops /\ saw[h] \in Terminal
    /\ row' = [row EXCEPT !.st = saw[h]] /\ saw' = [saw EXCEPT ![h] = ""]
    /\ UNCHANGED <<cached, req, post, linkVars, agentVars, restarts>>

WriteStop(h) ==
    /\ h \in Stops /\ Goes(h, "write", "ask")
    /\ Becomes("cancelled", "user") /\ cached' = FALSE
    /\ Stays

(* _continue_scan up to the stop request.  A recovery checks that it still *)
(* owns the row; the others need a terminal row.                           *)
LoadForContinue(h) ==
    /\ \/ h \in Continues /\ req[h].at = "idle" /\ row.st \in Terminal
       \/ h = Recover /\ req[h].at = "load" /\ Recovering /\ row.rev = req[h].rev
    /\ Moves(h, [req[h] EXCEPT !.at = "ask", !.rev = row.rev])
    /\ cached' = FALSE
    /\ UNCHANGED row /\ Stays

Overtaken ==
    /\ ~(Recovering /\ row.rev = req[Recover].rev)
    /\ Goes(Recover, "load", "giveup")
    /\ UNCHANGED <<row, cached>> /\ Stays

Failed(h) == IF h = Recover THEN "giveup" ELSE "done"

(* request_agent_scan_stop                                                 *)
Ask(h) ==
    /\ req[h].at = "ask"
    /\ IF conn # 0
       THEN Moves(h, [req[h] EXCEPT !.at = "wait", !.via = conn]) /\ Sends(h, "stop")
       ELSE Moves(h, To(h, Failed(h))) /\ UNCHANGED cmds
    /\ UNCHANGED <<row, cached, post, conn, conns, hello, grace, agentVars, saw, restarts>>

TimesOut(h) ==
    /\ Goes(h, "wait", Failed(h))
    /\ UNCHANGED <<row, cached>> /\ Stays

(* claim_scan_for_resume: a recovery keeps the revision it has claimed     *)
Claimable(h) ==
    row.rev = req[h].rev /\ IF h = Recover THEN Recovering ELSE row.st \in Terminal
Claimed(h) == IF h = Recover THEN row.rev ELSE row.rev + 1

Claim(h) ==
    /\ req[h].at = "claim"
    /\ IF Claimable(h)
       THEN /\ Claimed(h) \in Revs
            /\ row' = [st |-> "pending", why |-> "", rev |-> Claimed(h), conn |-> req[h].via]
            /\ Moves(h, [req[h] EXCEPT !.at = "prepare", !.rev = Claimed(h)])
       ELSE /\ row' = [row EXCEPT !.conn = req[h].via]   \* update_scan_agent
            /\ Moves(h, To(h, Failed(h)))
    /\ UNCHANGED cached /\ Stays

(* Preparing the manifest or the checkpoints fails.                        *)
PrepareFails(h) ==
    /\ h # Create /\ Goes(h, "prepare", Failed(h))
    /\ IF FailsExecution(req[h].rev) THEN Becomes("error", "failed") ELSE UNCHANGED row
    /\ UNCHANGED cached /\ Stays

SendResume(h) == h # Create /\ Dispatches(h, "resume") /\ cached' = TRUE

(* "Agent not connected", written without a condition                      *)
Lost(h) ==
    /\ Goes(h, "lost", Failed(h))
    /\ Becomes("error", "failed") /\ cached' = FALSE
    /\ Stays

(* _recover_missing_agent_work after the welcome                           *)
ListInflight ==
    /\ req[Recover].at = "list"
    /\ Moves(Recover, IF Interrupted /\ row.rev \notin hello[conn].known
                      THEN [req[Recover] EXCEPT !.at = "reclaim", !.rev = row.rev] ELSE Done)
    /\ hello' = [hello EXCEPT ![conn] = Open]
    /\ UNCHANGED <<row, cached, post, conn, conns, cmds, grace, agentVars, saw, restarts>>

(* claim_scan_for_agent_recovery                                           *)
Reclaim ==
    /\ req[Recover].at = "reclaim"
    /\ IF Interrupted /\ row.rev = req[Recover].rev
       THEN /\ row.rev + 1 \in Revs
            /\ row' = [st |-> "cancelled", why |-> "recovering", rev |-> row.rev + 1,
                       conn |-> req[Recover].via]
            /\ Moves(Recover, [req[Recover] EXCEPT !.at = "load", !.rev = row.rev + 1])
       ELSE Moves(Recover, Done) /\ UNCHANGED row
    /\ UNCHANGED cached /\ Stays

(* recovery_failed: fail_scan_recovery                                     *)
GiveUpRecovery ==
    /\ Goes(Recover, "giveup", "done")
    /\ IF FailsRecovery(req[Recover].rev)
       THEN Becomes("error", "unrecovered") /\ cached' = FALSE
       ELSE UNCHANGED <<row, cached>>
    /\ Stays

-----------------------------------------------------------------------------
(* Reports: the Agent's outbox and the server's handlers.                  *)

(* finish replaces a pending finish in place                               *)
Enqueued(q, x) ==
    LET same == {i \in DOMAIN q : q[i].kind = "finish"}
    IN  IF x.kind = "finish" /\ same # {}
        THEN [i \in DOMAIN q |-> IF i \in same THEN x ELSE q[i]]
        ELSE Append(q, x)

Deliver(w) ==
    /\ post[w].at = "idle" /\ outbox # <<>>
    /\ \A v \in Posts : ~post[v].waited
    /\ post' = [post EXCEPT ![w] = [IdlePost EXCEPT
                  !.at = Head(outbox).kind, !.rep = Head(outbox), !.waited = TRUE]]
    /\ UNCHANGED <<row, cached, req, linkVars, agentVars, saw, restarts>>

(* The Agent stops waiting; it will deliver the report again.              *)
Unanswered(w) ==
    /\ post[w].waited
    /\ post' = [post EXCEPT ![w].waited = FALSE]
    /\ UNCHANGED <<row, cached, req, linkVars, agentVars, saw, restarts>>

Serve(w, from, to) == post[w].at = from /\ post' = [post EXCEPT ![w].at = to]
Serves == UNCHANGED <<req, linkVars, agentVars, saw, restarts>>

(* agent_finish_scan: execution_matches, load, ..., write, ..., drop cache *)
MatchesExecution(x) == x.rev = row.rev

CheckFinish(w) ==
    /\ Serve(w, "finish", IF MatchesExecution(post[w].rep) THEN "loading" ELSE "reply")
    /\ UNCHANGED <<row, cached>> /\ Serves

ForgetsStop(w) ==   \* faulty variant
    Serve(w, "loading", "writing") /\ UNCHANGED <<row, cached>> /\ Serves
LoadFinish(w) ==
    /\ post[w].at = "loading"
    /\ post' = [post EXCEPT ![w].at = "writing", ![w].stopped = StoppedByUser]
    /\ UNCHANGED <<row, cached>> /\ Serves

WriteFinish(w) ==
    /\ Serve(w, "writing", IF cached THEN "dropping" ELSE "reply")
    /\ LET outcome == post[w].rep.outcome IN
       IF post[w].stopped THEN Becomes("cancelled", "user")
       ELSE Becomes(outcome, IF outcome = "error" THEN "failed" ELSE row.why)
    /\ UNCHANGED cached /\ Serves

DropFinished(w) ==
    /\ Serve(w, "dropping", "reply")
    /\ cached' = FALSE
    /\ UNCHANGED row /\ Serves

(* agent_scan_execution_failed                                             *)
FailStart(w) ==
    /\ Serve(w, "failure", "reply")
    /\ IF FailsExecution(post[w].rep.rev)
       THEN Becomes("error", "failed") /\ cached' = FALSE
       ELSE UNCHANGED <<row, cached>>
    /\ Serves

(* A result or an event: _ensure_running_scan; an event may also advance   *)
(* the status of the cached scan, then written to the row.                 *)
Ensured(w, from) == \E to \in {"reply", "advancing"} : Serve(w, from, to)

EnsureRunning(w) ==
    /\ \/ cached /\ Ensured(w, "result")
       \/ ~cached /\ IsActive /\ Serve(w, "result", "caching")
       \/ ~cached /\ ~IsActive /\ Serve(w, "result", IF Interrupted THEN "reviving" ELSE "reply")
    /\ UNCHANGED <<row, cached>> /\ Serves

Revive(w) ==
    /\ Serve(w, "reviving", "caching")
    /\ Becomes("running", "")
    /\ UNCHANGED cached /\ Serves

Cache(w) ==
    /\ Ensured(w, "caching")
    /\ cached' = TRUE
    /\ UNCHANGED row /\ Serves

Advance(w) ==
    /\ Serve(w, "advancing", "reply")
    /\ row' = [row EXCEPT !.st = "running"]
    /\ UNCHANGED cached /\ Serves

(* The Agent acknowledges the row it has sent, unless it was replaced.     *)
Answered(w) ==
    /\ post[w].at = "reply"
    /\ post' = [post EXCEPT ![w] = IdlePost]
    /\ outbox' = IF post[w].waited /\ outbox # <<>> /\ Head(outbox) = post[w].rep
                 THEN Tail(outbox) ELSE outbox
    /\ UNCHANGED <<row, cached, req, linkVars, doing, runs, seen, last, saw, restarts>>

-----------------------------------------------------------------------------
(* The Agent's command worker and scan tasks.                              *)

AgentOnly == UNCHANGED <<row, cached, post, conn, conns, hello, grace, saw, restarts>>

Entry == IF runs = {} THEN None ELSE CHOOSE x \in runs : \A y \in runs : y.rev <= x.rev
NeverObsolete(r) == FALSE   \* faulty variant
Obsolete(r) == seen > 0 /\ r <= seen
Newer(r) == \E x \in runs : x.rev > r
Cancelling(quiet) ==
    {IF x = Entry THEN [x EXCEPT !.cancelled = TRUE, !.quiet = quiet \/ @] ELSE x : x \in runs}

(* The stop result reaches the handler that waits for it.                  *)
Tell(c, quiet) ==
    LET h == c.for IN
    IF h = None \/ req[h].at # "wait" \/ req[h].rev # c.rev \/ req[h].via # conn THEN UNCHANGED req
    ELSE Moves(h, To(h, IF quiet /\ h \notin Stops THEN "claim" ELSE Failed(h)))

Welcomed == conn # 0 /\ hello[conn].at = "open"
Take(do) == Welcomed /\ doing = None /\ cmds # <<>> /\ Head(cmds).do = do /\ cmds' = Tail(cmds)
Does(c, step) == doing' = [cmd |-> c, at |-> step]

TakeStop ==
    /\ Take("stop")
    /\ LET c == Head(cmds) IN
       IF Newer(c.rev) THEN Tell(c, FALSE) /\ UNCHANGED <<doing, runs>>
       ELSE Does(c, "stopping") /\ runs' = Cancelling(FALSE) /\ UNCHANGED req
    /\ UNCHANGED <<seen, outbox, last>> /\ AgentOnly

(* handle_stop waits at most 5 + 2 s                                       *)
Stopped ==
    /\ doing # None /\ doing.at = "stopping"
    /\ \E quiet \in {FALSE, runs = {}} : Tell(doing.cmd, quiet)
    /\ doing' = None
    /\ UNCHANGED <<cmds, runs, seen, outbox, last>> /\ AgentOnly

TakeStart ==
    /\ \E do \in {"task", "resume"} : Take(do)
    /\ LET c == Head(cmds) IN
       \/ Obsolete(c.rev) /\ UNCHANGED <<doing, runs>>
       \/ /\ ~Obsolete(c.rev) /\ c.do = "resume" /\ runs # {}
          /\ Does(c, "preparing") /\ runs' = Cancelling(TRUE)
       \/ /\ ~Obsolete(c.rev) /\ (c.do = "task" \/ runs = {})
          /\ Does(c, "starting") /\ UNCHANGED runs
    /\ UNCHANGED <<req, seen, outbox, last>> /\ AgentOnly

(* prepare_scan_resume waits at most 8 s for the old run                   *)
Prepared ==
    /\ doing # None /\ doing.at = "preparing"
    /\ \/ runs = {} /\ Does(doing.cmd, "starting") /\ UNCHANGED runs
       \/ /\ runs # {} /\ Does(doing.cmd, "failing")
          /\ runs' = {[x EXCEPT !.quiet = FALSE] : x \in runs}
    /\ UNCHANGED <<req, cmds, seen, outbox, last>> /\ AgentOnly

(* handle_task, handle_resume                                              *)
Start ==
    /\ doing # None /\ doing.at = "starting"
    /\ LET r == doing.cmd.rev IN
       IF Obsolete(r) \/ runs # {} THEN UNCHANGED <<runs, seen, last>>
       ELSE /\ runs' = runs \cup {[rev |-> r, cancelled |-> FALSE, quiet |-> FALSE,
                                   reporting |-> FALSE]}
            /\ seen' = r
            /\ last' = r
    /\ doing' = None
    /\ UNCHANGED <<req, cmds, outbox>> /\ AgentOnly

(* The manifest cannot be fetched.                                         *)
CannotStart ==
    /\ doing # None /\ doing.at = "starting" /\ doing.cmd.do = "resume"
    /\ Does(doing.cmd, "failing")
    /\ UNCHANGED <<req, cmds, runs, seen, outbox, last>> /\ AgentOnly

ReportFailure ==
    /\ doing # None /\ doing.at = "failing"
    /\ outbox' = Enqueued(outbox, [kind |-> "failure", rev |-> doing.cmd.rev,
                                   outcome |-> None])
    /\ doing' = None
    /\ UNCHANGED <<req, cmds, runs, seen, last>> /\ AgentOnly

RunSteps == UNCHANGED <<req, cmds, doing, seen, last>> /\ AgentOnly

ResultsOf(r) == {i \in DOMAIN outbox : outbox[i].kind = "result" /\ outbox[i].rev = r}
RunReports(x) ==
    /\ x \in runs /\ ~x.reporting
    /\ Cardinality(ResultsOf(x.rev)) < MaxResults
    /\ outbox' = Append(outbox, [kind |-> "result", rev |-> x.rev, outcome |-> None])
    /\ UNCHANGED runs /\ RunSteps

(* run_scan ends and reports its outcome, unless it is being replaced.     *)
RunEnds(x) ==
    /\ x \in runs /\ ~x.reporting
    /\ IF x.quiet THEN runs' = runs \ {x} /\ UNCHANGED outbox
       ELSE /\ runs' = (runs \ {x}) \cup {[x EXCEPT !.reporting = TRUE]}
            /\ \E o \in IF x.cancelled THEN Outcomes ELSE {"complete", "error"} :
                 outbox' = Enqueued(outbox, [kind |-> "finish", rev |-> x.rev,
                                             outcome |-> o])
    /\ RunSteps

RunGone(x) ==
    /\ x \in runs /\ x.reporting
    /\ runs' = runs \ {x}
    /\ UNCHANGED outbox /\ RunSteps

-----------------------------------------------------------------------------
(* Connections, the grace period, restarts.                                *)

WorkerGone(quietOff) ==
    /\ cmds' = <<>> /\ doing' = None
    /\ runs' = IF quietOff /\ doing # None /\ doing.at = "preparing"
               THEN {[x EXCEPT !.quiet = FALSE] : x \in runs} ELSE runs

(* The handler of an open connection notices at once; one that is still in *)
(* its handshake finishes it first.                                        *)
Closes(c) == hello' = [hello EXCEPT ![c] = NoHello] /\ grace' = grace \cup {c}
Breaks ==
    /\ conn # 0 /\ conns < MaxConns
    /\ conn' = 0
    /\ req' = [req EXCEPT ![Recover] = Idle]
    /\ IF Welcomed THEN Closes(conn) ELSE UNCHANGED <<hello, grace>>

Disconnect ==
    /\ Breaks /\ WorkerGone(TRUE)
    /\ UNCHANGED <<row, cached, post, conns, seen, outbox, last, saw, restarts>>

Connect ==
    /\ conn = 0 /\ conns < MaxConns
    /\ conn' = conns + 1 /\ conns' = conns + 1
    /\ LET active == IF Entry # None /\ ~Entry.cancelled THEN {Entry.rev} ELSE {}
           announced == {outbox[i].rev : i \in {j \in DOMAIN outbox : outbox[j].kind # "result"}}
       IN  hello' = [hello EXCEPT ![conns + 1] =
                       [NoHello EXCEPT !.at = "load", !.active = active,
                                       !.known = active \cup announced, !.stop = runs # {}]]
    /\ UNCHANGED <<row, cached, req, post, grace, cmds, agentVars, saw, restarts>>

(* _reattach_active_agent_scans: load ...                                  *)
Shakes(c, from, to) == hello[c].at = from /\ hello' = [hello EXCEPT ![c].at = to]
ShakeStays == UNCHANGED <<req, post, conn, conns, cmds, grace, agentVars, saw, restarts>>

LoadReattached(c) ==
    /\ hello[c].at = "load"
    /\ hello' = [hello EXCEPT ![c] = [hello[c] EXCEPT
                   !.at = IF row.rev \in hello[c].active /\ Interrupted THEN "write" ELSE "welcome",
                   !.st = IF IsActive THEN row.st ELSE "running",
                   !.stop = hello[c].stop /\ StoppedByUser,
                   !.rev = row.rev]]
    /\ UNCHANGED <<row, cached>> /\ ShakeStays

(* ... write back ...                                                      *)
WriteReattached(c) ==
    /\ Shakes(c, "write", "cache")
    /\ row' = [row EXCEPT !.st = hello[c].st, !.why = "", !.conn = c]
    /\ UNCHANGED cached /\ ShakeStays

(* ... and cache what was loaded, whether or not the socket still lives.   *)
CacheReattached(c) ==
    /\ Shakes(c, "cache", "welcome")
    /\ cached' = TRUE
    /\ UNCHANGED row /\ ShakeStays

(* The Agent drops a connection on which anything precedes the welcome.    *)
Welcome ==
    /\ conn # 0 /\ hello[conn].at = "welcome" /\ cmds = <<>>
    /\ hello' = [hello EXCEPT ![conn] = [Open EXCEPT !.known = hello[conn].known]]
    /\ cmds' = IF hello[conn].stop
               THEN <<[do |-> "stop", rev |-> hello[conn].rev, for |-> None]>> ELSE <<>>
    /\ req' = [req EXCEPT ![Recover] = [Idle EXCEPT !.at = "list", !.via = conn]]
    /\ UNCHANGED <<row, cached, post, conn, conns, grace, agentVars, saw, restarts>>

(* Nobody is left to be welcomed.                                          *)
HangUp(c) ==
    /\ hello[c].at = "welcome" /\ c # conn
    /\ Closes(c)
    /\ UNCHANGED <<row, cached, req, post, conn, conns, cmds, agentVars, saw, restarts>>

(* _delayed_cancel                                                         *)
GraceEnds(c) ==
    /\ c \in grace
    /\ grace' = grace \ {c}
    /\ IF row.conn = c
       THEN /\ cached' = FALSE
            /\ IF IsActive THEN Becomes("cancelled", "disconnect") ELSE UNCHANGED row
       ELSE UNCHANGED <<row, cached>>
    /\ UNCHANGED <<req, post, conn, conns, cmds, hello, agentVars, saw, restarts>>

(* A page shows the scan: its row is read, and some awaits later           *)
(* _cancel_scan_if_agent_offline goes by the status that was read.         *)
ReadScan(v) ==
    /\ v \in Viewers /\ saw[v] = "" /\ IsActive
    /\ saw' = [saw EXCEPT ![v] = "active"]
    /\ UNCHANGED <<row, cached, req, post, linkVars, agentVars, restarts>>

CancelsOffline ==
    IF conn = 0 THEN Becomes("cancelled", "disconnect") /\ cached' = FALSE
                ELSE UNCHANGED <<row, cached>>

Reconcile(v) ==
    /\ v \in Viewers /\ saw[v] = "active"
    /\ CancelsOffline /\ saw' = [saw EXCEPT ![v] = ""]
    /\ UNCHANGED <<req, post, linkVars, agentVars, restarts>>

(* A cached scan is read and cancelled without an await in between; it is  *)
(* active as long as it is cached, whatever its row has become.            *)
ReconcileCached ==
    /\ conn = 0 /\ cached /\ CancelsOffline
    /\ UNCHANGED <<req, post, linkVars, agentVars, saw, restarts>>

Restarts == restarts < MaxRestarts /\ restarts' = restarts + 1

AgentRestarts ==
    /\ Breaks /\ Restarts
    /\ cmds' = <<>> /\ doing' = None /\ runs' = {} /\ seen' = 0
    /\ post' = [w \in Posts |-> [post[w] EXCEPT !.waited = FALSE]]
    /\ UNCHANGED <<row, cached, conns, outbox, last, saw>>

ServerRestarts ==
    /\ conn # 0 /\ conns < MaxConns /\ Restarts
    /\ conn' = 0 /\ grace' = {} /\ cached' = FALSE
    /\ hello' = [c \in 1..MaxConns |-> NoHello] /\ saw' = [x \in Readers |-> ""]
    /\ req' = [h \in Handlers |-> IF h = Recover \/ req[h].at = "idle" THEN Idle ELSE Done]
    /\ post' = [w \in Posts |-> IdlePost]
    /\ WorkerGone(TRUE)
    /\ UNCHANGED <<row, conns, seen, outbox, last>>

-----------------------------------------------------------------------------
Handle(h) ==
    \/ LoadForStop(h) \/ WriteStop(h) \/ WriteBack(h) \/ LoadForContinue(h) \/ Ask(h) \/ TimesOut(h)
    \/ Claim(h) \/ PrepareFails(h) \/ SendResume(h) \/ Lost(h)

HandleReport(w) ==
    \/ Deliver(w) \/ Unanswered(w)
    \/ CheckFinish(w) \/ LoadFinish(w) \/ WriteFinish(w) \/ DropFinished(w)
    \/ FailStart(w) \/ EnsureRunning(w) \/ Revive(w) \/ Cache(w) \/ Advance(w) \/ Answered(w)

Work ==
    \/ TakeStop \/ Stopped \/ TakeStart \/ Prepared \/ Start \/ CannotStart \/ ReportFailure
    \/ \E x \in runs : RunEnds(x) \/ RunGone(x) \/ RunReports(x)

Server ==
    \/ Begin \/ SendTask \/ Overtaken \/ ListInflight \/ Reclaim \/ GiveUpRecovery
    \/ \E h \in Handlers : Handle(h)
    \/ \E w \in Posts : HandleReport(w)

Handshake ==
    \/ Connect \/ Welcome
    \/ \E c \in 1..MaxConns :
         LoadReattached(c) \/ WriteReattached(c) \/ CacheReattached(c) \/ HangUp(c)

Link ==
    \/ Disconnect \/ Handshake \/ AgentRestarts \/ ServerRestarts \/ ReconcileCached
    \/ \E c \in grace : GraceEnds(c)
    \/ \E v \in Viewers : ReadScan(v) \/ Reconcile(v)

Next == Server \/ Work \/ Link

Spec == Init /\ [][Next]_vars

(* Every request is served, the Agent reconnects and its worker goes on.   *)
Recovery == Overtaken \/ ListInflight \/ Reclaim \/ GiveUpRecovery \/ Handle(Recover)
FairSpec ==
    /\ Spec
    /\ WF_vars(Handshake) /\ WF_vars(Recovery)

-----------------------------------------------------------------------------
(* Properties.                                                             *)

(* The row, the handlers, the commands and the reports have their types.   *)
TypeOK ==
    /\ row \in Row /\ cached \in BOOLEAN
    /\ req \in [Handlers -> [at : Steps, rev : Revs, via : 0..MaxConns]]
    /\ post \in [Posts -> [at : PostSteps, rep : Report \cup {None},
                           waited : BOOLEAN, stopped : BOOLEAN]]
    /\ hello \in [1..MaxConns -> Hello]
    /\ saw \in [Readers -> {"", "active"} \cup Terminal]
    /\ doing = None \/ doing \in [cmd : Command,
                                 at : {"stopping", "preparing", "starting", "failing"}]
    /\ conn \in 0..MaxConns /\ conns \in 0..MaxConns /\ grace \subseteq 1..MaxConns
    /\ cmds \in Seq(Command) /\ outbox \in Seq(Report)
    /\ runs \subseteq Run /\ seen \in Revs /\ last \in Revs /\ restarts \in 0..MaxRestarts

(* Everything that was sent has arrived and every handler has returned.    *)
Quiet ==
    /\ Welcomed /\ cmds = <<>> /\ doing = None /\ outbox = <<>> /\ grace = {}
    /\ \A h \in Handlers : req[h].at \in {"idle", "done"}
    /\ \A w \in Posts : post[w].at = "idle"

(* Expected, but not so after a finish that met a reattachment: when       *)
(* everything has arrived, a scan shown as running runs on the Agent.      *)
RunningIsRun == Quiet /\ IsActive => \E x \in runs : x.rev = row.rev

(* A manual stop lasts until a newer execution is claimed.                 *)
StopSticks == [][StoppedByUser /\ row'.rev = row.rev => StoppedByUser']_vars

(* A stop that nothing which had read the scan earlier can overwrite.      *)
Settled ==
    /\ StoppedByUser /\ ~cached
    /\ \A c \in 1..MaxConns : hello[c].at \notin {"write", "cache"}
    /\ \A x \in Readers : saw[x] \in {"", "cancelled"}
    /\ \A h \in Handlers : req[h].at \notin {"prepare", "lost"}
    /\ \A w \in Posts : /\ post[w].at \notin {"reviving", "caching", "advancing"}
                        /\ post[w].at = "writing" => post[w].stopped

(* Once they have returned, nothing but a new execution takes a stop back. *)
StopLasts == [][Settled /\ row'.rev = row.rev => Settled']_vars

(* A recovery that has claimed the scan becomes an execution or fails,     *)
(* unless a command broke the handshake of the last connection.            *)
RecoverySettles ==
    Recovering /\ req[Create].at # "begin" /\ row.rev = req[Recover].rev
        ~> (~Recovering \/ (conn # 0 /\ hello[conn].at = "welcome" /\ cmds # <<>>))

(* The Agent runs at most one execution of the scan at a time and each     *)
(* revision at most once, in increasing order, across restarts too.        *)
Execution == INSTANCE OneExecution WITH live <- {x.rev : x \in runs}
ImplementsOneExecution == Execution!Spec

=============================================================================
