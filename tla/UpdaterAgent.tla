----------------------------- MODULE UpdaterAgent -----------------------------
(***************************************************************************)
(* cmd/updater: sessions, the step and the deployment that run, and the    *)
(* results kept until the supervisor has answered (agent.go, job.go,       *)
(* deploy.go).                                                             *)
(***************************************************************************)
EXTENDS DeployState

Connecting == uconn # 0 \/ dialing # 0

Emitted(m) == IF uconn # 0 /\ ~cut THEN Append(up, m) ELSE up

RunsOf(q) == {q[i].run : i \in DOMAIN q}
DepsOf(q) == {q[i].dep : i \in DOMAIN q}

(* Mutants of the operators below.                                         *)
OnlyTask == IF task = NoTask THEN <<>> ELSE <<task.dep>>
OnlyEnded == [i \in DOMAIN dends |-> dends[i].dep]
NotUndone(t) == IF t.list = "deploy" /\ t.res = "ok" THEN t.dep ELSE installed

-----------------------------------------------------------------------------
(* The goroutines of flush.  Results are answered one at a time; after the *)
(* last step result the deployment results are copied.                     *)
SpawnFlush ==
  IF uconn = 0 THEN UNCHANGED flush
  ELSE \E f \in Flushers :
         flush[f] = Idle /\ flush' = [flush EXCEPT ![f] = [st |-> "start", todo |-> <<>>]]

(* What a goroutine sends next; results go out as soon as they are copied. *)
Settled(st, todo) ==
  LET s == IF st = "ends" /\ todo = <<>> THEN [st |-> "deps", todo |-> dends]
           ELSE [st |-> st, todo |-> todo]
  IN IF s.todo = <<>> THEN Idle ELSE s

Sends(f, s) ==
  /\ flush' = [flush EXCEPT ![f] = s]
  /\ up' = IF s = Idle \/ cut THEN up
           ELSE Append(up, [k |-> s.st, e |-> Head(s.todo), f |-> f])

FlushStart(f) ==
  /\ flush[f].st = "start"
  /\ Sends(f, Settled("ends", ends))
  /\ UNCHANGED <<dbVars, superVars, req, down, cut, last, uconn, dialing, job, killed,
                 task, ends, dends, installed, manifest, history, count>>

Without(q, e) ==
  LET hit == {i \in DOMAIN q : q[i] = e} IN
  IF hit = {} THEN q
  ELSE LET i == CHOOSE i \in hit : \A k \in hit : i <= k
       IN SubSeq(q, 1, i - 1) \o SubSeq(q, i + 1, Len(q))

FlushOn(f) ==
  LET isEnd == flush[f].st = "endAcked"
      e == Head(flush[f].todo)
  IN /\ ends' = IF isEnd THEN Without(ends, e) ELSE ends
     /\ dends' = IF isEnd THEN dends ELSE Without(dends, e)
     /\ Sends(f, Settled(IF isEnd THEN "ends" ELSE "deps", Tail(flush[f].todo)))

(* A call waits 10 s for its answer.  If that comes later, which is a      *)
(* window, the goroutine is gone: the result stays, and what is behind it  *)
(* is not sent before the next result or the next connection.              *)
FlushGaveUp(f) ==
  /\ "tardy" \in Windows
  /\ Sends(f, Idle) /\ UNCHANGED <<ends, dends>>

FlushNext(f) ==
  /\ flush[f].st \in {"endAcked", "depAcked"}
  /\ FlushOn(f) \/ FlushGaveUp(f)
  /\ UNCHANGED <<dbVars, superVars, req, down, cut, last, uconn, dialing, job, killed,
                 task, installed, manifest, history, count>>

-----------------------------------------------------------------------------
(* session: HELLO carries what runs and what has not been answered.        *)
Running ==
  (IF job = NoRun THEN <<>> ELSE <<job>>) \o [i \in DOMAIN ends |-> ends[i].run]

Deploying ==
  (IF task = NoTask THEN <<>> ELSE <<task.dep>>)
    \o [i \in DOMAIN dends |-> dends[i].dep]

(* updLinks.add refuses a second connection, which changes nothing; the    *)
(* row of the instance is written with the version HELLO carries.          *)
Dial ==
  /\ ~Connecting /\ link = 0 /\ last < MaxConn
  /\ "snap" \in Windows \/ task.pc # "begin"
  /\ last' = last + 1 /\ cut' = FALSE /\ up' = <<>> /\ down' = {}
  /\ dialing' = last + 1
  /\ link' = last + 1 /\ mark' = NoMark /\ hello' = "added"
  /\ told' = [runs |-> Running, deps |-> Deploying]
  /\ listed' = installed
  /\ UNCHANGED <<deps, rows, opened, req, uconn, job, killed, task, ends,
                 dends, flush, installed, manifest, history, count>>

Connected ==
  /\ dialing # 0 /\ ~cut /\ hello = "done"
  /\ uconn' = dialing /\ dialing' = 0
  /\ \E g \in Flushers :
       flush' = [f \in Flushers |-> IF f = g THEN [st |-> "start", todo |-> <<>>] ELSE Idle]
  /\ UNCHANGED <<dbVars, superVars, req, netVars, job, killed, task, ends, dends,
                 installed, manifest, history, count>>

UpdaterNotices ==
  /\ cut /\ Connecting
  /\ uconn' = 0 /\ dialing' = 0 /\ down' = {}
  /\ flush' = [f \in Flushers |-> Idle]
  /\ UNCHANGED <<dbVars, superVars, req, up, cut, last, job, killed, task, ends,
                 dends, installed, manifest, history, count>>

(* A restart forgets everything but state.json and the backups.            *)
UpdaterRestarts ==
  /\ count.reset < MaxReset /\ last < MaxConn /\ MayCut
  /\ count' = [count EXCEPT !.reset = @ + 1]
  /\ uconn' = 0 /\ dialing' = 0 /\ job' = NoRun /\ killed' = FALSE
  /\ task' = NoTask /\ ends' = <<>> /\ dends' = <<>>
  /\ flush' = [f \in Flushers |-> Idle]
  /\ cut' = TRUE /\ down' = {} /\ after' = 0
  /\ forgot' = [runs |-> forgot.runs \cup RunsOf(ends),
                deps |-> forgot.deps \cup DepsOf(dends)
                           \cup (IF task = NoTask THEN {} ELSE {task.dep})]
  /\ UNCHANGED <<dbVars, superVars, req, up, last, installed, manifest, did, reached>>

-----------------------------------------------------------------------------
(* runDeploy and runList.                                                  *)
ListKind(t) == IF t.list = "deploy" /\ t.phase = "list" THEN "deploy" ELSE "rollback"

RollsBack(t, res) ==
  res = "fail" /\ t.phase = "list" /\ t.back # <<>> /\ ~t.stopped

Over(t, res) ==
  CASE RollsBack(t, res) ->
         [t EXCEPT !.phase = "back", !.todo = t.back, !.res = res, !.pc = "check"]
    [] t.phase = "back" -> [t EXCEPT !.rb = res, !.pc = "over"]
    [] OTHER -> [t EXCEPT !.res = res, !.pc = "over"]

ListEnds(res) ==
  /\ task' = Over(task, res)
  /\ reached' = [reached EXCEPT ![task.dep][ListKind(task)] = res]

(* Stopped is read before the next step, not when it begins.               *)
Stops == task.stopped

StepCheck ==
  /\ task.pc = "check"
  /\ IF task.todo = <<>> THEN ListEnds("ok") /\ up' = up
     ELSE IF Stops THEN ListEnds("cancel") /\ up' = up
     ELSE /\ "snap" \in Windows \/ dialing = 0
          /\ task' = [task EXCEPT !.pc = "begin"]
          /\ up' = Emitted([k |-> "start", dep |-> task.dep, run |-> Head(task.todo)])
          /\ UNCHANGED reached
  /\ UNCHANGED <<dbVars, superVars, req, down, cut, last, uconn, dialing, job,
                 killed, ends, dends, flush, installed, manifest, did, after, forgot,
                 count>>

StepBegin ==
  /\ task.pc = "begin"
  /\ job' = Head(task.todo) /\ killed' = FALSE
  /\ task' = [task EXCEPT !.pc = "run"]
  /\ after' = IF task.stopped THEN after + 1 ELSE after
  /\ UNCHANGED <<dbVars, superVars, req, netVars, uconn, dialing, ends, dends, flush,
                 installed, manifest, did, reached, forgot, count>>

(* The result of a run is kept and a flush begun.                          *)
Ends(r, res) ==
  /\ did' = [did EXCEPT ![r] = res]
  /\ ends' = Append(ends, [run |-> r, res |-> res])
  /\ SpawnFlush

(* newJob fails: the log cannot be opened.                                 *)
StepFails ==
  /\ task.pc = "begin"
  /\ Ends(Head(task.todo), "fail")
  /\ ListEnds("fail")
  /\ UNCHANGED <<dbVars, superVars, req, netVars, uconn, dialing, job, killed,
                 dends, installed, manifest, after, forgot, count>>

(* A cancelled step that ends well all the same is ok.                     *)
JobResults == IF killed THEN {"ok", "cancel"} ELSE {"ok", "fail"}

(* The first step of the deploy list is the backup: it removes the one the *)
(* deployment had and writes its manifest last.                            *)
BackedUp(r, res) ==
  IF ListOf(r) = "deploy" /\ Head(task.todo) = StepRun(task.dep, 1)
  THEN [manifest EXCEPT ![task.dep] = IF res = "ok" THEN installed ELSE NoBackup]
  ELSE manifest

JobEnds(res) ==
  /\ job # NoRun /\ res \in JobResults
  /\ Ends(job, res)
  /\ job' = NoRun /\ killed' = FALSE
  /\ IF DepOf(job) = 0 THEN UNCHANGED <<task, reached, manifest>>
     ELSE /\ manifest' = BackedUp(job, res)
          /\ IF res = "ok"
             THEN /\ task' = [task EXCEPT !.todo = Tail(@), !.pc = "check"]
                  /\ UNCHANGED reached
             ELSE ListEnds(res)
  /\ UNCHANGED <<dbVars, superVars, req, netVars, uconn, dialing, dends, installed,
                 after, forgot, count>>

InstalledAfter(t) ==
  IF t.list = "deploy" /\ t.res = "ok" THEN t.dep
  ELSE IF ((t.list = "rollback" /\ t.res = "ok") \/ t.rb = "ok")
            /\ manifest[t.dep] # NoBackup
       THEN manifest[t.dep]
  ELSE installed

FinishDeploy ==
  /\ task.pc = "over" /\ NoSlowRun
  /\ installed' = InstalledAfter(task)
  /\ dends' = Append(dends, [dep |-> task.dep, list |-> task.list, res |-> task.res,
                             rb |-> task.rb, inst |-> installed'])
  /\ task' = NoTask /\ SpawnFlush /\ after' = 0
  /\ UNCHANGED <<dbVars, superVars, req, netVars, uconn, dialing, job, killed, ends,
                 manifest, did, reached, forgot, count>>

-----------------------------------------------------------------------------
(* Requests and events of the supervisor.  An answer is lost with the      *)
(* connection.                                                             *)
Taken(m) == IF cut THEN req ELSE [req EXCEPT ![m.by] = NoReq]
Refused(m) == IF cut THEN req ELSE [req EXCEPT ![m.by].st = "refused"]

AgentIdle == job = NoRun /\ task = NoTask

OnRun(m) ==
  /\ m \in down /\ m.k = "run" /\ Connecting
  /\ down' = down \ {m}
  /\ IF AgentIdle
     THEN \/ job' = m.run /\ killed' = FALSE /\ req' = Taken(m)
          \/ req' = Refused(m) /\ UNCHANGED <<job, killed>>
     ELSE req' = Refused(m) /\ UNCHANGED <<job, killed>>
  /\ UNCHANGED <<dbVars, superVars, up, cut, last, uconn, dialing, task, ends, dends,
                 flush, installed, manifest, history, count>>

OnDeploy(m) ==
  /\ m \in down /\ m.k = "deploy" /\ Connecting
  /\ down' = down \ {m}
  /\ IF AgentIdle
     THEN /\ task' = [dep |-> m.dep, list |-> m.list, todo |-> m.steps,
                      back |-> m.back, stopped |-> FALSE, pc |-> "check",
                      phase |-> "list", res |-> "none", rb |-> "none"]
          /\ reached' = [reached EXCEPT ![m.dep][m.list] = "none"]
          /\ req' = Taken(m)
     ELSE req' = Refused(m) /\ UNCHANGED <<task, reached>>
  /\ UNCHANGED <<dbVars, superVars, up, cut, last, uconn, dialing, job, killed, ends,
                 dends, flush, installed, manifest, did, after, forgot, count>>

OnCancel(m) ==
  /\ m \in down /\ m.k = "cancel" /\ Connecting
  /\ down' = down \ {m}
  /\ LET hits == m.dep # 0 /\ task # NoTask /\ task.dep = m.dep IN
     /\ task' = IF hits THEN [task EXCEPT !.stopped = TRUE] ELSE task
     /\ killed' = (killed \/ (job # NoRun
                              /\ IF m.dep # 0 THEN hits ELSE job = m.run))
  /\ UNCHANGED <<dbVars, superVars, req, up, cut, last, uconn, dialing, job, ends,
                 dends, flush, installed, manifest, history, count>>

AgentNext ==
  \/ Dial \/ Connected \/ UpdaterNotices \/ UpdaterRestarts
  \/ StepCheck \/ StepBegin \/ StepFails \/ FinishDeploy
  \/ \E res \in Ended : JobEnds(res)
  \/ \E f \in Flushers : FlushStart(f) \/ FlushNext(f)
  \/ \E m \in down : OnRun(m) \/ OnDeploy(m) \/ OnCancel(m)
=============================================================================
