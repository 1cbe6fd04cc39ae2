------------------------------- MODULE Deploys -------------------------------
(***************************************************************************)
(* An updater and the supervisor together: what the supervisor records of  *)
(* a deployment, and what really happened on the machine.                  *)
(***************************************************************************)
EXTENDS UpdaterAgent, SupervisorDeploys

(* The connection breaks; the supervisor still reads what had arrived.     *)
Cut ==
  /\ link # 0 /\ ~cut /\ last < MaxConn /\ MayCut
  /\ cut' = TRUE
  /\ \E n \in 0 .. Len(up) : up' = SubSeq(up, 1, n)
  /\ \E kept \in SUBSET down : down' = kept
  /\ UNCHANGED <<dbVars, superVars, req, last, agentVars, history, count>>

Next == AgentNext \/ SupervisorNext \/ Cut

Spec == Init /\ [][Next]_vars

(* Goroutines that can run do run, a step ends (a script has a timeout, a  *)
(* console is closed), and an updater dials again.  Nothing is assumed of  *)
(* requests, breaks and restarts.                                          *)
Fairness ==
  /\ WF_vars(Dial) /\ WF_vars(Connected) /\ WF_vars(UpdaterNotices)
  /\ WF_vars(StepCheck) /\ WF_vars(StepBegin \/ StepFails) /\ WF_vars(FinishDeploy)
  /\ WF_vars(\E res \in Ended : JobEnds(res))
  /\ \A f \in Flushers : WF_vars(FlushStart(f)) /\ WF_vars(FlushNext(f))
  /\ WF_vars(\E m \in down : OnRun(m) \/ OnDeploy(m) \/ OnCancel(m))
  /\ WF_vars(Hello) /\ WF_vars(ServeEnds)
  /\ WF_vars(OnStepStart) /\ WF_vars(OnEnd) /\ WF_vars(OnDeployEnd)
  /\ \A u \in Users :
       /\ WF_vars(LookRun(u)) /\ WF_vars(SendRun(u)) /\ WF_vars(TakeDeploy(u)) /\ WF_vars(SendDeploy(u))
       /\ WF_vars(RefuseRollback(u)) /\ WF_vars(SendRollback(u))
       /\ WF_vars(CallReturns(u))

FairSpec == Spec /\ Fairness

-----------------------------------------------------------------------------
TypeOK ==
  /\ deps \in [DepIds -> [res : DepResults, back : DepResults]]
  /\ rows \in [RunIds -> RunResults]
  /\ link \in 0 .. MaxConn /\ last \in 0 .. MaxConn
  /\ mark \in [run : RunIds \cup {NoRun}, dep : 0 .. MaxDep]
  /\ hello \in {"no", "added", "done", "leaked"}
  /\ uconn \in 0 .. MaxConn /\ dialing \in 0 .. MaxConn
  /\ job \in RunIds \cup {NoRun} /\ killed \in BOOLEAN /\ cut \in BOOLEAN
  /\ opened \subseteq RunIds
  /\ listed \in 0 .. MaxDep /\ installed \in 0 .. MaxDep

(* "Only once": what is recorded as ok was ok on the machine, a step that  *)
(* failed there is never shown as done, whatever is sent twice or late.    *)
OkIsReal ==
  /\ \A r \in RunIds : rows[r] \in {"ok", "fail"} => did[r] \in {rows[r], "none"}
  /\ \A r \in RunIds : rows[r] = "ok" => did[r] = "ok"
  /\ \A d \in DepIds : deps[d].res = "ok" => reached[d].deploy = "ok"
  /\ \A d \in DepIds : deps[d].back = "ok" => reached[d].rollback = "ok"

(* A step shown as skipped or as never run did not run (deploy.go:73 of    *)
(* the updater leaves the rest of a list to the supervisor).               *)
SkippedNeverRan ==
  \A r \in RunIds \ forgot.runs : rows[r] = "skip" => did[r] = "none"

(* Once everything has been told, the summary of a deployment is the one   *)
(* its steps justify, and both are what happened on the machine.           *)
SummaryAgrees ==
  Quiet =>
    /\ \A d \in DepIds :
         /\ deps[d].res = "ok" => \A n \in 1 .. Steps : rows[StepRun(d, n)] = "ok"
         /\ deps[d].res \in Ended /\ d \notin forgot.deps
              => reached[d].deploy \in {deps[d].res, "none"}
    /\ \A r \in RunIds \ forgot.runs : did[r] # "none" => rows[r] \in {did[r], "cancel"}

(* "The instance stays busy" (updaterConn.go:110): with nothing on its way *)
(* the instance is busy for users exactly when the updater is.             *)
BusyAgrees == Quiet => (Busy <=> ~AgentIdle)

(* A run waits only while its deployment, or the rollback, is going on.    *)
NoWaitLeft ==
  Quiet => \A r \in RunIds :
    rows[r] = "wait" => "running" \in {deps[DepOf(r)].res, deps[DepOf(r)].back}

(* deploy.go:24: after a cancel at most the step already checked begins,   *)
(* and no rollback is begun.                                               *)
CancelStops == after <= 1

(* REF-update-rules: the updater undoes only the newest deployment that    *)
(* is still in place, so what it restores is what that backup was: every   *)
(* newer one with a step that waits, runs or ran has been undone.          *)
Placed(d) == \E n \in 1 .. Steps : rows[StepRun(d, n)] \notin {"none", "skip"}

UndoesNewest ==
  \A d \in DepIds : task # NoTask /\ task.list = "rollback" /\ task.dep = d
    => \A e \in d + 1 .. MaxDep : Placed(e) => deps[e].back = "ok"

(* With nothing on its way and nothing running, the version shown of an    *)
(* instance is the one its state.json names, and that is the newest        *)
(* deployment that succeeded and has not been undone.                      *)
NewestInPlace ==
  LET ds == {d \in DepIds : deps[d].res = "ok" /\ deps[d].back # "ok"} IN
  IF ds = {} THEN 0 ELSE CHOOSE d \in ds : \A e \in ds : e <= d

InstalledAgrees ==
  Quiet /\ AgentIdle => listed = installed /\ (forgot.deps = {} => installed = NewestInPlace)

(* A result that has been recorded is never recorded anew; a rollback that *)
(* failed is recorded as done only after another attempt, and one that was *)
(* done stays done.                                                        *)
ResultsAreFinal ==
  [][/\ \A r \in RunIds : rows[r] \in Ended \cup {"skip"} => rows'[r] = rows[r]
     /\ \A d \in DepIds : deps[d].res \in Ended => deps'[d].res = deps[d].res
     /\ \A d \in DepIds : deps[d].back = "ok" => deps'[d].back = "ok"
     /\ \A d \in DepIds : deps[d].back \in {"fail", "cancel"} => deps'[d].back # "ok"]_vars

(* Every deployment, rollback and run comes to an end in the records, also *)
(* when its updater or the supervisor has forgotten it: once nobody asks   *)
(* for more, nothing is left in progress.                                  *)
InProgress ==
  \/ \E d \in DepIds : "running" \in {deps[d].res, deps[d].back}
  \/ \E r \in RunIds : rows[r] \in {"wait", "running"}

(* The updater is connected and keeps results that none of its goroutines  *)
(* sends: a call of flush waited in vain.                                  *)
Untold ==
  /\ uconn # 0 /\ ~cut /\ (ends # <<>> \/ dends # <<>>)
  /\ \A f \in Flushers : flush[f] = Idle

DeploysEnd == InProgress ~> ~InProgress \/ Untold
=============================================================================
