----------------------------- MODULE DeployStore -----------------------------
(***************************************************************************)
(* internal/supervisor/db: the deployments and step runs of one updater    *)
(* instance, and the statements the supervisor executes on them.  A        *)
(* timed-out step is a failed one.                                         *)
(***************************************************************************)
EXTENDS Integers, Sequences, FiniteSets, Functions

CONSTANTS
  MaxDep,     \* bound: deployments created
  Steps,      \* steps of the deploy list
  Backs,      \* steps of the rollback list
  MaxTry,     \* bound: rollbacks requested per deployment
  MaxSingle   \* bound: steps run on their own

ASSUME StoreAssumption ==
  /\ MaxDep \in Nat /\ MaxTry \in Nat /\ MaxSingle \in Nat
  /\ Steps \in Nat \ {0} /\ Backs \in Nat \ {0}

DepIds == 1 .. MaxDep

(* A run is known by its deployment (0: on its own), its list and its      *)
(* number; the attempt k of a rollback list uses k*Backs+1 .. (k+1)*Backs, *)
(* attempt 0 being the automatic one.                                      *)
StepRun(d, n) == <<d, "deploy", n>>
BackRun(d, k, n) == <<d, "rollback", k * Backs + n>>
SingleRun(n) == <<0, "deploy", n>>

DeployRuns(d) == [n \in 1 .. Steps |-> StepRun(d, n)]
BackRuns(d, k) == [n \in 1 .. Backs |-> BackRun(d, k, n)]

RunIds ==
  {StepRun(d, n) : d \in DepIds, n \in 1 .. Steps}
    \cup {BackRun(d, k, n) : d \in DepIds, k \in 0 .. MaxTry, n \in 1 .. Backs}
    \cup {SingleRun(n) : n \in 1 .. MaxSingle}

DepOf(r) == r[1]
ListOf(r) == r[2]

Ended == {"ok", "fail", "cancel"}
DepResults == {"none", "running"} \cup Ended
RunResults == {"none", "wait", "running", "skip"} \cup Ended

(* The rows of a deployment: result and rollback_result.                   *)
NoDep == [res |-> "none", back |-> "none"]

(* Mutant of a statement below.                                            *)
FinishedAnyway(t, d, res) == [t EXCEPT ![d].res = res]
NotAtAll(t, keep) == t

(***************************************************************************)
(* update_deployments                                                      *)
(***************************************************************************)
CreateDeployment(t, d) == [t EXCEPT ![d] = [res |-> "running", back |-> "none"]]

FinishDeployment(t, d, res) ==
  IF t[d].res = "running" THEN [t EXCEPT ![d].res = res] ELSE t

SetRollbackResult(t, d, res) == [t EXCEPT ![d].back = res]

LostDeployments(t, keep) ==
  {d \in DepIds \ keep : "running" \in {t[d].res, t[d].back}}

Cancelled(res) == IF res = "running" THEN "cancel" ELSE res

CancelLostDeployments(t, keep) ==
  [d \in DepIds |-> IF d \in LostDeployments(t, keep)
                    THEN [res |-> Cancelled(t[d].res), back |-> Cancelled(t[d].back)]
                    ELSE t[d]]

(* The newest deployment that has not been rolled back.                    *)
LatestLiveDeploymentID(t) ==
  LET live == {d \in DepIds : t[d].res # "none" /\ t[d].back # "ok"} IN
  IF live = {} THEN 0 ELSE CHOOSE d \in live : \A e \in live : e <= d

(***************************************************************************)
(* update_step_runs                                                        *)
(***************************************************************************)
CreateStepRun(t, r) == [t EXCEPT ![r] = "running"]

CreateWaitStepRuns(t, runs) ==
  [r \in RunIds |-> IF \E i \in DOMAIN runs : runs[i] = r THEN "wait" ELSE t[r]]

StartStepRun(t, r) == IF t[r] = "wait" THEN [t EXCEPT ![r] = "running"] ELSE t

FinishStepRun(t, r, res) == [t EXCEPT ![r] = res]

(* The waiting runs of one list, or of both, take the result given.        *)
WaitingOf(t, d, list) ==
  {r \in RunIds : DepOf(r) = d /\ ListOf(r) = list /\ t[r] = "wait"}

SkipWaitRuns(t, d, list) ==
  [r \in RunIds |-> IF r \in WaitingOf(t, d, list) THEN "skip" ELSE t[r]]

DeleteWaitRuns(t, d, list) ==
  [r \in RunIds |-> IF r \in WaitingOf(t, d, list) THEN "none" ELSE t[r]]

SkipWaitRunsOf(t, ds) ==
  [r \in RunIds |-> IF DepOf(r) \in ds /\ t[r] = "wait" THEN "skip" ELSE t[r]]

CancelLostStepRuns(t, keep) ==
  [r \in RunIds |-> IF t[r] = "running" /\ r \notin keep THEN "cancel" ELSE t[r]]
=============================================================================
