-------------------------- MODULE SupervisorDeploys ---------------------------
(***************************************************************************)
(* cmd/supervisor/router: updHello and the end of a connection             *)
(* (updaterConn.go), runs (updaterRun.go) and deployments                  *)
(* (updaterDeploy.go).                                                     *)
(***************************************************************************)
EXTENDS DeployState

(* Mutants of the operators below.                                         *)
AnyDeployment(d) == deps[d].res \in Ended /\ deps[d].back # "running"
KeepMark(d) == mark
TheMarked(r, res) ==
  IF mark.run # NoRun THEN FinishStepRun(rows, mark.run, res) ELSE rows

-----------------------------------------------------------------------------
(* updHello.  The link is in the list before what the updater told is      *)
(* compared with the rows.  Of the runs adopted the last one told is       *)
(* marked: a result not answered yet comes after the run that goes on.     *)
Lost(keep) == LostDeployments(deps, Range(keep))

(* updRunSet.adopt                                                         *)
Adopted(r) == r \in opened \/ rows[r] \in {"running", "wait"}

LastIn(q, rs) ==
  {q[i] : i \in {k \in DOMAIN q : q[k] \in rs /\ \A j \in DOMAIN q : j > k => q[j] \notin rs}}

Hello ==
  /\ hello = "added"
  /\ LET kept == CancelLostStepRuns(rows, Range(told.runs))
         gone == {r \in RunIds : kept[r] # rows[r]}
         mine == {r \in Range(told.runs) : Adopted(r)}
         on == [r \in RunIds |-> IF r \in mine \ opened
                                 THEN StartStepRun(kept, r)[r] ELSE kept[r]]
     IN /\ rows' = SkipWaitRunsOf(on, Lost(told.deps))
        /\ opened' = (opened \ gone) \cup mine
        /\ \E r \in IF mine = {} THEN {mark.run} ELSE LastIn(told.runs, mine) :
             mark' = [run |-> r,
                      dep |-> IF told.deps = <<>> THEN mark.dep ELSE Head(told.deps)]
  /\ deps' = CancelLostDeployments(deps, Range(told.deps))
  /\ hello' = "done"
  /\ told' = [runs |-> <<>>, deps |-> <<>>]
  /\ UNCHANGED <<listed, link, req, netVars, agentVars, history, count>>

(* Serve has returned.  The link leaves the list only if HELLO was through. *)
Removed == hello = "done"

ServeEnds ==
  /\ link # 0 /\ cut /\ hello # "leaked"
  /\ IF Removed THEN link' = 0 /\ hello' = "no" /\ mark' = NoMark
     ELSE hello' = "leaked" /\ UNCHANGED <<link, mark>>
  /\ up' = <<>>
  /\ UNCHANGED <<dbVars, told, opened, req, down, cut, last, agentVars, history, count>>

-----------------------------------------------------------------------------
(* Events and ordered requests, in the order they were received.           *)
Received(k) == link # 0 /\ hello = "done" /\ up # <<>> /\ Head(up).k = k

(* conn.dispatchReq answers unless the connection is down.                 *)
Acked(m, st) ==
  IF cut \/ flush[m.f] = Idle THEN flush ELSE [flush EXCEPT ![m.f].st = st]

(* updStepStart                                                            *)
OnStepStart ==
  /\ Received("start")
  /\ up' = Tail(up)
  /\ LET r == Head(up).run IN
     IF rows[r] = "wait"
     THEN /\ rows' = StartStepRun(rows, r)
          /\ deps' = IF ListOf(r) = "rollback"
                     THEN SetRollbackResult(deps, DepOf(r), "running") ELSE deps
          /\ opened' = opened \cup {r}
          /\ mark' = [mark EXCEPT !.run = r]
     ELSE UNCHANGED <<rows, deps, opened, mark>>
  /\ UNCHANGED <<listed, link, hello, told, req, down, cut, last, agentVars, history,
                 count>>

RunUnmarked(r) == IF mark.run = r THEN [mark EXCEPT !.run = NoRun] ELSE mark
DepUnmarked(d) == IF mark.dep = d THEN [mark EXCEPT !.dep = 0] ELSE mark

(* updRunSet.finish: the result is recorded once.                          *)
Unfinished(r) == rows[r] \in {"running", "wait"}

Finished(r, res) == IF Unfinished(r) THEN FinishStepRun(rows, r, res) ELSE rows

OnEnd ==
  /\ Received("ends")
  /\ LET m == Head(up) IN
     /\ mark' = RunUnmarked(m.e.run)
     /\ rows' = Finished(m.e.run, m.e.res)
     /\ flush' = Acked(m, "endAcked")
  /\ up' = Tail(up)
  /\ UNCHANGED <<deps, listed, link, hello, told, opened, req, down, cut, last, uconn,
                 dialing, job, killed, task, ends, dends, installed, manifest,
                 history, count>>

(* updDeployEnd                                                            *)
Skipped(d, list) == SkipWaitRuns(rows, d, list)

OnDeployEnd ==
  /\ Received("deps")
  /\ LET m == Head(up)
         e == m.e
     IN /\ flush' = Acked(m, "depAcked")
        /\ mark' = DepUnmarked(e.dep)
        /\ listed' = e.inst
        /\ IF e.list = "rollback"
           THEN /\ deps' = SetRollbackResult(deps, e.dep, e.res)
                /\ rows' = Skipped(e.dep, "rollback")
           ELSE LET done == FinishDeployment(deps, e.dep, e.res)
                    left == Skipped(e.dep, "deploy")
                IN IF e.rb # "none"
                   THEN /\ deps' = SetRollbackResult(done, e.dep, e.rb)
                        /\ rows' = SkipWaitRuns(left, e.dep, "rollback")
                   ELSE deps' = done /\ rows' = DeleteWaitRuns(left, e.dep, "rollback")
  /\ up' = Tail(up)
  /\ UNCHANGED <<link, hello, told, opened, req, down, cut, last, uconn, dialing,
                 job, killed, task, ends, dends, installed, manifest, history, count>>

-----------------------------------------------------------------------------
(* HTTP requests.  Online and free is looked at first; a link that has     *)
(* been removed since is no longer marked, and the call on it fails.       *)
Online == link # 0 /\ ("hello" \in Windows \/ hello = "done")
LooksFree == ~Busy
Alive(u) == req[u].conn = link

Asked(u, r) == req' = [req EXCEPT ![u] = r]
Done(u) == req' = [req EXCEPT ![u] = NoReq]

Created(d) == deps[d].res # "none"
             \/ \E u \in Users : req[u] # NoReq /\ req[u].kind = "deploy" /\ req[u].id = d

(* The deployment is named by the id its row will have.                    *)
AskDeploy(u, d) ==
  /\ req[u] = NoReq /\ Online /\ LooksFree
  /\ ~Created(d)
  /\ Asked(u, [st |-> "asked", kind |-> "deploy", id |-> d, conn |-> link])
  /\ UNCHANGED <<dbVars, superVars, netVars, agentVars, history, count>>

(* startDeploy: CreateDeployment, then the deploying mark is taken.        *)
TakeDeploy(u) ==
  /\ req[u].st = "asked" /\ req[u].kind = "deploy"
  /\ \A e \in 1 .. req[u].id - 1 : deps[e].res # "none"
  /\ LET d == req[u].id
         free == ~Alive(u) \/ mark.dep = 0
     IN /\ deps' = IF free THEN CreateDeployment(deps, d)
                   ELSE FinishDeployment(CreateDeployment(deps, d), d, "cancel")
        /\ mark' = IF Alive(u) /\ free THEN [mark EXCEPT !.dep = d] ELSE mark
        /\ IF free THEN Asked(u, [req[u] EXCEPT !.st = "marked"]) ELSE Done(u)
  /\ UNCHANGED <<rows, listed, link, hello, told, opened, netVars, agentVars, history,
                 count>>

(* abortDeploy                                                             *)
Aborted(u, list, t) ==
  LET d == req[u].id IN
  /\ deps' = IF list = "deploy" THEN FinishDeployment(deps, d, "fail")
             ELSE SetRollbackResult(deps, d, "fail")
  /\ rows' = SkipWaitRunsOf(t, {d})
  /\ mark' = IF Alive(u) THEN DepUnmarked(d) ELSE mark
  /\ Done(u)

Callable(u) == Alive(u) /\ ~cut

(* A result still to be answered, sent twice, or kept by a flush that gave *)
(* up, when the next run or deployment is sent is a window.                *)
NoDuplicate ==
  \/ "dup" \in Windows
  \/ /\ \A f \in Flushers : flush[f] = Idle
     /\ "tardy" \in Windows => ends = <<>> /\ dends = <<>>

(* So is a rollback sent while the request that deployed, whose connection *)
(* is gone, has not returned: its abort skips the steps of the rollback.   *)
NoOutlived(d) ==
  "outlive" \in Windows
    \/ \A u \in Users : req[u] # NoReq /\ req[u].kind = "deploy" => req[u].id # d

SendDeploy(u) ==
  /\ req[u].st = "marked" /\ NoDuplicate
  /\ \E auto \in AutoBuilds :
       LET d == req[u].id
           back == IF auto THEN BackRuns(d, 0) ELSE <<>>
           made == CreateWaitStepRuns(rows, DeployRuns(d) \o back)
       IN IF Alive(u) /\ mark.run # NoRun
          THEN Aborted(u, "deploy", rows) /\ down' = down
          ELSE IF ~Callable(u) THEN Aborted(u, "deploy", made) /\ down' = down
          ELSE /\ rows' = made
               /\ down' = down \cup {[k |-> "deploy", by |-> u, dep |-> d,
                                      list |-> "deploy", steps |-> DeployRuns(d),
                                      back |-> back]}
               /\ Asked(u, [req[u] EXCEPT !.st = "sent"])
               /\ UNCHANGED <<deps, mark>>
  /\ UNCHANGED <<listed, link, hello, told, opened, up, cut, last, agentVars, history,
                 count>>

(* updRollback: only the newest deployment that has not been rolled back.  *)
MayRollback(d) ==
  /\ deps[d].res \in Ended /\ deps[d].back \notin {"running", "ok"}
  /\ LatestLiveDeploymentID(deps) = d

AskRollback(u, d) ==
  /\ req[u] = NoReq /\ count.try[d] < MaxTry /\ MayRollback(d)
  /\ \A v \in Users : req[v] # NoReq => req[v].kind # "rollback"
  /\ Asked(u, [st |-> "asked", kind |-> "rollback", id |-> d, conn |-> 0])
  /\ UNCHANGED <<dbVars, superVars, netVars, agentVars, history, count>>

RefuseRollback(u) ==
  /\ req[u].st = "asked" /\ req[u].kind = "rollback"
  /\ ~Online \/ Busy \/ ("stale" \notin Windows /\ ~MayRollback(req[u].id))
  /\ Done(u)
  /\ UNCHANGED <<dbVars, superVars, netVars, agentVars, history, count>>

SendRollback(u) ==
  /\ req[u].st = "asked" /\ req[u].kind = "rollback" /\ count.try[req[u].id] < MaxTry
  /\ Online /\ ~Busy
  /\ "stale" \in Windows \/ MayRollback(req[u].id)
  /\ NoDuplicate /\ NoOutlived(req[u].id)
  /\ LET d == req[u].id
         k == count.try[d] + 1
         made == CreateWaitStepRuns(DeleteWaitRuns(rows, d, "rollback"), BackRuns(d, k))
         m == [k |-> "deploy", by |-> u, dep |-> d, list |-> "rollback",
               steps |-> BackRuns(d, k), back |-> <<>>]
     IN /\ count' = [count EXCEPT !.try[d] = k]
        /\ deps' = SetRollbackResult(deps, d, "running") /\ rows' = made
        /\ mark' = [mark EXCEPT !.dep = d]
        /\ Asked(u, [req[u] EXCEPT !.st = IF cut THEN "refused" ELSE "sent",
                                   !.conn = link])
        /\ down' = IF cut THEN down ELSE down \cup {m}
  /\ UNCHANGED <<listed, link, hello, told, opened, up, cut, last, agentVars, history>>

(* updStartRun: the record, a look at the deploying mark, the running mark *)
(* and the call.                                                           *)
AskRun(u) ==
  /\ req[u] = NoReq /\ Online /\ LooksFree /\ count.single < MaxSingle
  /\ count' = [count EXCEPT !.single = @ + 1]
  /\ LET r == SingleRun(count.single + 1) IN
     /\ rows' = CreateStepRun(rows, r)
     /\ Asked(u, [st |-> "made", kind |-> "run", id |-> r, conn |-> link])
  /\ UNCHANGED <<deps, listed, superVars, netVars, agentVars, history>>

RunTaken(u) ==
  rows' = FinishStepRun(rows, req[u].id, "cancel") /\ Done(u)

LookRun(u) ==
  /\ req[u].st = "made"
  /\ IF Alive(u) /\ mark.dep # 0 THEN RunTaken(u)
     ELSE Asked(u, [req[u] EXCEPT !.st = "looked"]) /\ UNCHANGED rows
  /\ UNCHANGED <<deps, listed, superVars, netVars, agentVars, history, count>>

SendRun(u) ==
  /\ req[u].st = "looked" /\ NoDuplicate
  /\ LET r == req[u].id IN
     IF Alive(u) /\ mark.run # NoRun
     THEN RunTaken(u) /\ UNCHANGED <<mark, opened, down>>
     ELSE /\ opened' = opened \cup {r}
          /\ IF ~Callable(u)
             THEN rows' = Finished(r, "fail") /\ Done(u) /\ UNCHANGED <<mark, down>>
             ELSE /\ mark' = [mark EXCEPT !.run = r]
                  /\ Asked(u, [req[u] EXCEPT !.st = "sent"])
                  /\ down' = down \cup {[k |-> "run", by |-> u, run |-> r]}
                  /\ UNCHANGED rows
  /\ UNCHANGED <<deps, listed, link, hello, told, up, cut, last, agentVars, history,
                 count>>

(* The call was refused, or its connection is gone.                        *)
CallFails(u) == req[u].st = "refused" \/ (req[u].st = "sent" /\ (~Alive(u) \/ hello = "leaked"))

CallReturns(u) ==
  /\ CallFails(u)
  /\ IF req[u].kind = "run"
     THEN /\ rows' = Finished(req[u].id, "fail")
          /\ mark' = IF Alive(u) THEN RunUnmarked(req[u].id) ELSE mark
          /\ Done(u) /\ UNCHANGED deps
     ELSE Aborted(u, req[u].kind, rows)
  /\ UNCHANGED <<listed, link, hello, told, opened, netVars, agentVars, history, count>>

(* updDeployCancel and updRunCancel                                        *)
CancelDeploy(d) ==
  /\ count.cancel < MaxCancel /\ Online /\ ~cut
  /\ "running" \in {deps[d].res, deps[d].back} /\ mark.dep = d
  /\ count' = [count EXCEPT !.cancel = @ + 1]
  /\ down' = down \cup {[k |-> "cancel", dep |-> d, run |-> mark.run]}
  /\ UNCHANGED <<dbVars, superVars, req, up, cut, last, agentVars, history>>

CancelRun(r) ==
  /\ count.cancel < MaxCancel /\ Online /\ ~cut
  /\ rows[r] = "running"
  /\ count' = [count EXCEPT !.cancel = @ + 1]
  /\ down' = down \cup {[k |-> "cancel", dep |-> 0, run |-> r]}
  /\ UNCHANGED <<dbVars, superVars, req, up, cut, last, agentVars, history>>

(* A rollback recorded as running that a restart keeps from being sent, of *)
(* a deployment whose end the updater still has to tell, is a window.      *)
NoOrphan ==
  "orphan" \in Windows \/ dends = <<>>
    \/ \A u \in Users : req[u] # NoReq => req[u].kind # "rollback"

SupervisorRestarts ==
  /\ count.boot < MaxBoot /\ last < MaxConn /\ NoOrphan
  /\ count' = [count EXCEPT !.boot = @ + 1]
  /\ link' = 0 /\ hello' = "no" /\ mark' = NoMark /\ opened' = {}
  /\ told' = [runs |-> <<>>, deps |-> <<>>]
  /\ req' = [u \in Users |-> NoReq]
  /\ cut' = TRUE /\ up' = <<>>
  /\ UNCHANGED <<dbVars, down, last, agentVars, history>>

SupervisorNext ==
  \/ Hello \/ ServeEnds \/ SupervisorRestarts
  \/ OnStepStart \/ OnEnd \/ OnDeployEnd
  \/ \E u \in Users :
       \/ AskRun(u) \/ LookRun(u) \/ SendRun(u) \/ TakeDeploy(u) \/ SendDeploy(u)
       \/ RefuseRollback(u) \/ SendRollback(u) \/ CallReturns(u)
       \/ \E d \in DepIds : AskDeploy(u, d) \/ AskRollback(u, d)
  \/ \E d \in DepIds : CancelDeploy(d)
  \/ \E r \in RunIds : CancelRun(r)
=============================================================================
