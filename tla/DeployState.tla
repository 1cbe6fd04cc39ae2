----------------------------- MODULE DeployState -----------------------------
(***************************************************************************)
(* The state an updater and the supervisor share in a deployment, for one  *)
(* instance (one main key and sub key).  At most one connection of the     *)
(* instance is in the supervisor's list, so one pair of channels is kept.  *)
(***************************************************************************)
EXTENDS DeployStore

CONSTANTS
  Users,       \* HTTP requests handled at the same time
  Flushers,    \* goroutines of agent.flush at the same time
  AutoBuilds,  \* the values of autoRollback of the builds
  MaxConn,     \* bound: connections of the updater
  MaxReset,    \* bound: restarts of the updater
  MaxBoot,     \* bound: restarts of the supervisor
  MaxCancel,   \* bound: cancel requests
  Windows      \* races that are allowed to happen, see README

ASSUME StateAssumption ==
  /\ MaxConn \in Nat /\ MaxReset \in Nat /\ MaxBoot \in Nat /\ MaxCancel \in Nat
  /\ AutoBuilds \subseteq BOOLEAN

VARIABLES
  deps,       \* update_deployments
  rows,       \* update_step_runs
  listed,     \* updaters.installed_version
  link,       \* the connection in updLinks, 0: offline
  mark,       \* updLink.running and updLink.deploying
  hello,      \* where updHello is
  told,       \* Hello.Running and Hello.Deploying
  opened,     \* the runs in updRunSet.m
  req,        \* the HTTP requests
  up,         \* events and ordered requests to the supervisor
  down,       \* requests and events to the updater, each on its goroutine
  cut,        \* the connection is down
  last,       \* the last connection made
  uconn,      \* agent.conn
  dialing,    \* the connection that waits for the answer of HELLO
  job,        \* agent.job
  killed,     \* job.why is set
  task,       \* agent.dep and where runDeploy is
  ends,       \* agent.ends
  dends,      \* agent.deployEnds
  flush,      \* the flushers
  installed,  \* state.json
  manifest,   \* the installed version the backup of a deployment remembers
  did,        \* history: how each run really ended
  reached,    \* history: how each list really ended
  after,      \* history: steps begun since the deployment was cancelled
  forgot,     \* history: results an updater that restarted has forgotten
  count       \* bounds: restarts, cancels, rollback attempts

dbVars == <<deps, rows, listed>>
superVars == <<link, mark, hello, told, opened>>
netVars == <<up, down, cut, last>>
agentVars == <<uconn, dialing, job, killed, task, ends, dends, flush,
               installed, manifest>>
history == <<did, reached, after, forgot>>
vars == <<dbVars, superVars, req, netVars, agentVars, history, count>>

NoRun == <<>>
NoBackup == -1
NoMark == [run |-> NoRun, dep |-> 0]
NoTask == [dep |-> 0, pc |-> "none"]
NoReq == [st |-> "idle"]
Idle == [st |-> "idle"]

(* updLink.busy                                                            *)
Busy == mark.run # NoRun \/ mark.dep # 0

Init ==
  /\ deps = [d \in DepIds |-> NoDep] /\ rows = [r \in RunIds |-> "none"]
  /\ listed = 0
  /\ link = 0 /\ mark = NoMark /\ hello = "no"
  /\ told = [runs |-> <<>>, deps |-> <<>>] /\ opened = {}
  /\ req = [u \in Users |-> NoReq]
  /\ up = <<>> /\ down = {} /\ cut = FALSE /\ last = 0
  /\ uconn = 0 /\ dialing = 0 /\ job = NoRun /\ killed = FALSE
  /\ task = NoTask /\ ends = <<>> /\ dends = <<>>
  /\ flush = [f \in Flushers |-> Idle]
  /\ installed = 0 /\ manifest = [d \in DepIds |-> NoBackup]
  /\ did = [r \in RunIds |-> "none"]
  /\ reached = [d \in DepIds |-> [deploy |-> "none", rollback |-> "none"]]
  /\ after = 0 /\ forgot = [runs |-> {}, deps |-> {}]
  /\ count = [reset |-> 0, boot |-> 0, cancel |-> 0, try |-> [d \in DepIds |-> 0],
              single |-> 0]

(* Connections that end while HELLO is handled, or while a call waits for   *)
(* its answer, are windows of their own.                                   *)
MayCut ==
  /\ "leak" \in Windows \/ hello # "added"
  /\ "answer" \in Windows \/ \A u \in Users : req[u].st # "sent"

(* A step request that takes longer than a whole deployment is a window.   *)
NoSlowRun ==
  "slow" \in Windows
    \/ \A u \in Users : req[u].st \in {"looked", "sent"} => req[u].kind # "run"

(* Nothing is on its way between the two sides.                            *)
Quiet ==
  /\ link # 0 /\ hello = "done" /\ uconn = link /\ ~cut
  /\ up = <<>> /\ down = {}
  /\ \A f \in Flushers : flush[f] = Idle
  /\ ends = <<>> /\ dends = <<>>
  /\ \A u \in Users : req[u] = NoReq
=============================================================================
