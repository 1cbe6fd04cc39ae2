# falinux-nexus: TLA+ models, checks and proofs

falinux-nexus runs programs on remote machines and shows their terminals in a
browser. A *supervisor* (Go, PostgreSQL) serves browsers and keeps the record of
every process; a *worker* agent on each machine starts processes, each inside a
*hold* process of its own (`worker -hold <socket>`) so that it survives a restart
of the worker; an *updater* agent deploys files and runs jobs. Supervisor, worker
and updater talk over one WebSocket per agent, with requests, answers and events.

Paths below are relative to `src/apps/core/` unless they start with `src/`.

## 1. Inventory

| Component | State | Operations | Hard behaviour | Correct when |
|---|---|---|---|---|
| Request correlation, `internal/call/correlator.go` | next id, waiters, closed | Call, Resolve, discard, Close | sends outside the lock; timeout against answer against close | no send blocks, no waiter leaks, an answer reaches its own call, close wakes every call |
| Transport, `internal/transport` | handlers, event queue (256), keep-alive | Serve, Emit, Call, Handle, HandleOrdered, Close | a full queue stops the receive loop; ordered requests run on the dispatcher; requests in goroutines | order of events kept, ordered requests after the events before them, no waiting on itself |
| Worker loop and registration, `cmd/worker/main.go`, `cmd/worker/router/{workerRouter,register}.go` | current connection, `ready` connection | dial, REGISTER, MsgSync, session end, backoff | the session ends while the register goroutine runs | exits are reported on a live connection that has synced |
| Worker processes, `cmd/worker/router/{process,hold}.go` | map of attached processes, sqlite list of holders | exec, kill, forward, finish, Recover | exit while disconnected; restart with holders alive | an exit is reported once it can be, nothing forgotten or invented |
| Hold process, `internal/execute/hold`, `internal/execute/pty` | status, output ring, one client | hello, data, status, release, kill, DoneWait | client replaced; process ends with no worker | the exit waits for a worker until DoneWait |
| Supervisor registration, `cmd/supervisor/router/{supervisorRouter,register}.go` | registry of workers, auth of a connection | handleWorkerWS, register, clean-up | the REGISTER handler outlives its connection; two connections of an instance | the registry names a connection that is served |
| Process status, `cmd/supervisor/router/process.go`, `cmd/supervisor/process` | rows, entries in memory, relays | Exec, applyStatus, sync, Rebind, editResult | statuses of several goroutines; a clean-up against a new connection; restart with active rows | rows and browsers agree, exits are true, what runs is reachable |
| Kill requests, `cmd/supervisor/router/processApi.go` | flag in the row | killProcess, sendKill, redelivery | request while the worker is away | the kill arrives or the process ends |
| Screen and relay, `internal/ring`, `internal/supervisor/bind/relay.go`, `cmd/supervisor/router/screen.go` | ring and offset, alternate screen, chunks waiting | Write, WriteAt, Seed, Snapshot, relayChunk | overlap and gap after a reconnect; the old relay drains while the new one runs | a snapshot is a window of the output; nothing twice, nothing missing that could be had |
| Browser terminal, `processTerm.store.ts` of the frontend | chunks held, `lastOff`, xterm | restore, register, writeHeld, writeLive, purge | live output while the snapshot is fetched; a socket that reconnects | output once, in order, and a line where some is missing |
| Broadcaster, `internal/broadcaster` | subscribers, status queue of 4 | Push, Subscribe, Close | a slow reader; close against push | the last status is delivered, nobody blocks |
| Hub of topics, `internal/subscribe/hub.go` | topic to sockets and back | subscribe, publish, clean up | a socket leaves while a topic is published | both maps agree |
| Size owner, tabs, presence, `cmd/supervisor/router/{sizeOwner,tabs,presence,active}.go` | owner per process, timers, tabs | take, hand over, disconnect with a grace | timer against return of the owner | one owner, and it is a tab that is there |
| File transfer, `cmd/supervisor/router/transfer*.go`, `cmd/worker/router/transfer*.go`, `internal/transfer` | jobs, `.part` files | init, chunk, result, abort, retry | retry after a reconnect, abort against a chunk | the file saved is the file sent |
| Worker move, unregistered processes, `cmd/supervisor/router/{workerMove,adopt}.go` | list per instance, moving connections | list, adopt, kill, move | list replaced while a request uses it | nothing adopted twice |
| Updater agent, `cmd/updater/{agent,job,deploy,builtin}.go` | the job and the deployment that run, results not yet answered, state.json, backups | sessions, runs, steps, cancel, rollback, flush | several flushes at once; a restart; results sent twice | each step runs once, its result arrives, an undo restores what was there |
| Runs and deployments, `cmd/supervisor/router/updater*.go`, `internal/supervisor/db` | links and their marks, `updRunSet`, rows of deployments and step runs | hello, run, deploy, rollback, cancel, end | marks and rows are not changed together; hello against requests; a restart | rows say what happened on the machine, a result is final, everything ends |
| Update bundle store, `internal/supervisor/updstore`, `cmd/supervisor/router/update.go` | bundle rows, uses, locks, folders on disk, `.upload` parts | save, chmod, remove, upload, create, copy, delete, deploy, lock | the folder and the rows are two stores; a lock decided from older reads; pieces out of order | folder and rows agree; what was deployed and locked stays as it is; an upload has no holes |
| Nodes, shares and access, `cmd/supervisor/router/{node*,share*,perm,subscribe}.go`, `db/gen/{nodes,shares}.sql.go` | tree of folders and scripts, shares, subscriptions, lists browsers have loaded | create, copy, move, delete, share, run | rights are judged before the transaction; hooks run after the commit, in any order | the tree stays a tree, statements agree on rights, nobody keeps hearing what was taken away |
| Boards and tiles, `cmd/supervisor/router/{tile*,workspace}.go`, `tileTree.store.ts` of the frontend | boards with a version, the tab's copy and its edits | get, put, exec, attach, bind, take, move, delete, share, purge | two requests at a time, a push that overtakes an answer, a lost answer | boards are sound documents, no terminal is lost, the tab ends with what is stored |
| Store, `internal/supervisor/store`, `internal/*/db` | transactions, commit listeners | Begin, Commit, Rollback | listeners after commit | a listener runs only for what was committed |
| HTTP front, frontend, `internal/scriptfmt`, `internal/patch`, `cmd/irony` | - | - | input and output | out of scope: no state of their own, unit tests |

How they meet. *Processes*: the supervisor's `Exec` creates an entry and a row and
`Call`s MsgExec; the worker spawns a holder and its `forward` goroutine `Emit`s
MsgStatus, MsgData and MsgScreen; the supervisor's dispatcher applies statuses and
hands output to the entry's relay, which writes it to the process's screen and
publishes it to the browsers; a browser joins a snapshot of that screen with the live
output. When the connection ends, `handleWorkerWS` takes the worker out of the
registry and marks its rows PENDING. When it comes back, REGISTER is followed by
MsgSync, the set of processes the worker has, against which every active row is either
rebound or closed as lost.

*Updates*: bundles are edited and uploaded in the bundle store, a build naming the
commons it needs; a deployment takes its files and a list of steps from there, which
the updater runs one after the other, telling the supervisor each begin, each result
and the end. HELLO after a reconnect carries what runs and what was not answered.
A build that was deployed as it is can be locked, with the commons it uses.

*Accounts*: nodes and processes are shared; every request on them ends in hooks that
subscribe and unsubscribe sockets and reload lists. Each account has boards, whose
terminals belong to processes: a process whose end was asked for is forced to end when
no board holds its terminal any more.

## 2. Modules

`Correlator` stands alone. The life of a process is split by program; its output
is modelled twice, the bytes in a screen and the way from the process to a tab.
Deployments are split by program as well, bundles, access and boards by what they
keep:

```
Correlator -- CorrelatorProofs
ProcessState        constants, variables, Init, TypeOK
  |-- WorkerAgent         worker, hold processes, the network
  |-- SupervisorProcess   supervisor
        \-- ProcessLifecycle    both together, fairness, properties
              \-- ProcessLifecycleProofs
ScreenLog   what a screen promises
  \-- Screen   implements it (INSTANCE ... WITH) -- ScreenProofs, MCScreen
TerminalStream      holder, worker, supervisor and tab, by offsets
  \-- TerminalProofs
DeployStore         rows of deployments and runs, the statements on them
  \-- DeployState         constants, variables, Init
        |-- UpdaterAgent        updater
        |-- SupervisorDeploys   supervisor
              \-- Deploys   both together, fairness, properties -- MCDeploys
                    \-- DeploysProofs
UpdStore    rows, locks and folders of bundles -- MCUpdStore
  \-- UpdStoreProofs
NodeTree    the tables of nodes and shares, the statements on them
  \-- NodeAccess   requests and their hooks -- MCNodeAccess
        \-- NodeAccessProofs
TileDoc     the document of a board and the functions on it
  \-- TileBoards   requests, and the tab that edits one -- MCTileBoards
        \-- TileBoardsProofs
```

### Correlator

Every critical section of `c.mu` is a step, everything done outside the lock is a
step of its own: `Call` is Register (or Refuse), Send, then Receive or Timeout with
Discard; `Resolve` is ResolveTake under the lock and ResolvePut after it; `Close`
is CloseSwap and one CloseWake per waiter, by either of the goroutines that call
it (Serve on a read error, Conn.Close). `slot` is the channel of capacity one;
`SendsNeverBlock` says that neither ResolvePut nor CloseWake ever finds it full.
`PeerAnswers` is the other side: any request sent is answered at most once.

### ProcessState, WorkerAgent, SupervisorProcess

One worker instance dials connections `1 .. MaxConn`, one after the other.

* `link[c]` is the network, `up[c]` the events the worker wrote and the supervisor
  has not handled. The supervisor handles events of a connection one at a time
  (`Between`), as the dispatcher does, and several connections at once.
* `session[c]`, `reg[c]`, `wconn`, `ready` are the worker's view of its
  connections: `state.conn` is set on dialling, `state.ready` only after REGISTER
  was answered and MsgSync written; `finish` waits for `ready`, all else is
  emitted on `state.conn`.
* `wp[p]` is how far the worker is with a process, from the MsgExec it was asked to
  `over`. `held` is a holder that outlives a stopped worker, `orphan` one
  that was spawned but never got on the sqlite list. `holder[p]` is the process
  itself: running, exited with the result kept, gone (the holder died), released
  by the worker, expired after DoneWait.
* `row[p]`, `entry[p]`, `seen[p]` are the three places where the supervisor keeps a
  status: the database, memory, and what browsers were last told.
* `srv[c]`, `pend[c]`, `sync[c]` are the progress of handleWorkerWS, of its
  reconcileDisconnect and of reconcileReconnect.
* `jobs` are applyStatus calls that have read the entry and not yet acted. Reading
  (`Start`) and acting (`ApplyStatus`) are two steps because the code holds no lock
  across them; `Same(j)` tells whether the entry in memory is still the one read.
* `lpc[p]`, `kpc[p]` are the Exec and the kill request of a process.

`own`, `lost` and `notStarted` stand for COMPLETED or FAILED with the code the
process returned, FAILED 502 and FAILED 126. Input, resizing, authorisation and
what a process computes are left out: no property is about them. Output is
TerminalStream's.

Operators such as `Reported`, `ReportConn`, `Rebindable` or `Marked` hold one
decision of the code each; the definitions at the top of a module, under
"Mutants", are wrong versions of them, used to confirm that each property notices
a mistake in the code it is about.

### ScreenLog, Screen

`Screen` is `internal/ring` with its arithmetic: `buf`, `head`, `size`, `off` of the
ring, `alt` and `tail` of the screen, over one `stream` of output that is fed to it
as the code may be fed: `Write` (what comes next), `WriteAt` (a piece with the
offset of its end, which may repeat, overlap or leave a gap) and `Seed` (what
another screen keeps). `Copied` is the two copies of `Ring.Write`, `Kept` the two of
`Snapshot`. `blind` is a history variable: output was skipped and no sequence
seen since, so nobody could know which screen is shown. `ScreenLog` is the same
without a buffer: the bytes kept are a sequence that is extended and cut to `Cap`,
or replaced; `ImplementsLog` is the refinement, with `data <- Contents`.

### TerminalStream

The way of the output, each hop a queue: `out` is the holder's screen, `peer` its
socket to the worker, `up[c]` the connection, `queue[c]` the chunks the relay of the
entry bound on `c` has not taken, `written[c]` the chunk between the write to the
supervisor's `screen` and its publication, `wire` the tab's socket, `held` what the
tab keeps while it fetches a snapshot (`tab`, `answer`), `last` its lastOff and
`term` what the terminal shows: offsets of bytes, and `gap` for a line that says
output is missing. A screen is the two ends of its window here; that this is what
it amounts to is `IsWindow` of module Screen, proved.

`Handle` of a sync is Rebind and startRelay; `SendSync` is MsgSync and, in the same
goroutine, the request for a snapshot of the holder. `Crash` and `Recover` are a
restart of the worker, `Boot` one of the supervisor. Its windows:

| Window | What may happen |
|---|---|
| early | output is forwarded between MsgSync and the snapshot requested with it |
| drain | a clean-up starts, or a later connection registers, before the events received were handled |
| relays | the relay of a detached entry still has chunks when the next one starts |
| socket | the tab's socket breaks, or is subscribed after the snapshot |
| purge | the tab drops what it holds (64 kB, or 10 s) |
| behind | what the tab holds ends before the snapshot does |
| seam | what the tab holds does not join |

### DeployStore, DeployState, UpdaterAgent, SupervisorDeploys, Deploys

One updater instance and its supervisor. `deps` and `rows` are the tables of
deployments and step runs, `listed` the installed version of the updaters table;
DeployStore has one operator per statement (`CancelLostStepRuns`,
`FinishDeployment`, `LatestLiveDeploymentID`, ...). A run is named by its deployment,
its list and its number; the attempts of a rollback have numbers of their own, as the
code creates new rows for each.

* `link`, `mark`, `hello`, `opened` are the updLink in the list, its `running` and
  `deploying` marks, how far updHello is, and updRunSet. `req[u]` is an HTTP request
  between its critical sections: what it looked at (asked), what it recorded and
  marked, the call that waits (sent) and its answer. `up` carries events and
  ordered requests, `down` the requests and events to the updater, which it serves
  on a goroutine each. A deployment is named by the id its row gets when `startDeploy` creates it
  (`TakeDeploy`), so requests that were asked for in one order are created in any.
* `job`, `task`, `ends`, `dends` are the updater's own state, with `pc` for where
  runDeploy is, and `flush[f]` the goroutines of `agent.flush`, several at once, each
  with its own copy of the results it sends.
* `did` and `reached` are history: how each step and list really ended.

| Window | What may happen |
|---|---|
| answer | a connection breaks while a call waits for its answer |
| leak | a connection breaks while HELLO is handled: its link stays in the list |
| hello | a request finds a link whose HELLO is not through |
| snap | a step is about to begin when the updater connects, or begins before the answer to HELLO |
| dup | a result sent twice, or kept by a flush that gave up (*tardy*), is still to be told when the next deployment or run is sent |
| slow | a request for a single run takes longer than a whole deployment |
| outlive | a rollback is sent while the request that asked for its deployment, whose connection is gone, has not returned |
| tardy | the answer to a result comes after the 10 s its call waits: that flush ends, and the result stays in `ends` or `dends` |
| stale | a rollback is sent for a deployment that is not the newest any more |
| orphan | the supervisor restarts with a rollback recorded and not sent |

### UpdStore

`db` holds the rows of builds and commons (id, mode and body of each file, `uses`,
sha), the locks and the deployments that succeeded; `disk` the folders. A request
holds row locks (`excl`, `share`) from its first SELECT to its commit, writes the
folder before the commit, and runs the hook of a deletion after it; `Crash` and
`FailCommit` end a request in between. `upload` is the `.upload` part of a file, put
together from pieces in any order. sha and uses_sig are the contents they are computed
from. Its windows: *wait* (GetBundleForUpdate's `locked` is as of the start of the
statement), *commons* (updLockBuild holds the build's row only), *plan* (a
deployment lists its files, and later computes uses_sig), *hooks* (a bundle of the same
name is created before the hook of the deletion has removed the folder), *copy* (the
source is saved while a copy reads it: the folder, the rows of the files (`CopyFiles`) and the
uses (`CommitBundle`) are read one after the other, the source's row is not locked), *fail* (the
commit fails after the folder was written).

### NodeTree, NodeAccess

NodeTree holds the tables and, one operator each, the statements that judge rights:
upwards (`NodePermission`), downwards (`ListChildrenVisible`,
`ListVisibleRunsInSubtree`), and around a node (`ListShareUsersAround`). A request of
NodeAccess judges (Ask...), writes and commits, and then runs its hooks one at a time:
`Tell` reloads lists, `Access` is reconcileAccess, `ReadViewers` and `Join` are the
subscriptions of a process that starts. Its windows: *checks* (two requests have
judged and not written) and *viewers* (a share changes between ReadViewers and Join).

### TileDoc, TileBoards

TileDoc is the document (root, order, tiles) and the functions on it (`OpenTile`,
`RemoveTile`, `Marshal`, `BindingTile`, ...). TileBoards has the boards of one
account with their versions, the processes, and one tab: its document, the edits it
has not saved (`pend`), the request in flight and the version it knows. A request
locks the boards it read (`Locked`), commits, publishes the new documents and
answers. Its windows: *insert* (ListTileTreesForUpdate does not see a board inserted
after it began), *adopt* (adoptOrphans or bindProcessTile between the start of an exec
and its tile), *overtake* (a later change is pushed before the answer to the tab's own
save), *switch* (the tab shows another board while an exec it asked for is in flight:
`Takes` says which answers are dropped then, and that of an exec is not).

### Windows of the life of a process

The code leaves a good deal to timing. Instead of one model with every race, where
the first broken property hides the rest, `Windows` names the races a run allows;
a run says what holds *with* its windows, and the theorems hold for all of them.

| Window | What may happen |
|---|---|
| lost | a break loses frames written before it; an exit is written to a connection broken but not yet noticed |
| young | a break before the answer to MsgExec has come and the first PROCESS is applied |
| drain | the clean-up of a connection starts while its events are still queued or handled |
| overlap | a connection registers while an older one of the instance is still served or being cleaned up |
| late | a REGISTER handler still runs after its connection ended |
| stale | the worker stores `ready` after that session ended |
| slow | two applyStatus of one process overlap; MsgExec takes longer than 10 s |
| cut | a holder drops a worker that does not read for 5 s |
| launch | a process is launched between REGISTER and the end of MsgSync |
| kill | a kill is requested while a MsgSync is handled or another status is applied |
| readback | the read-back of an EDIT, a request beside the events, is handled before its exit is, or once its connection is closed |

The properties that depend on timing, and the windows that break them when opened
alone, with one restart of the worker (every other window leaves the property true):

| Property | Broken by |
|---|---|
| ExitNotMissed | lost, drain, stale, cut, launch |
| LostIsLost | drain, cut, launch |
| NothingForgotten | cut |
| LiveIsBound | young, overlap, slow, cut (EDIT only), launch (EDIT only), kill |
| KillIsSent | kill |
| NotStartedIsTrue | young, slow |
| RebindSucceeds | young, overlap, cut (EDIT only), launch, kill |
| ViewersAgree | young, drain, overlap, late, slow, cut, launch |
| RegistryIsServed | late |
| FinalIsFinal | young, drain, overlap, late (EDIT only), slow, cut, launch |
| ReadBackAfterExit | readback |

`ViewersAgree` holds under *readback* as it is stated: a read-back that came first has
published FAILED 502 and removed the entry (`ReadBackFirst`), so browsers keep that although
the row has the exit; in every other case they agree.

RecordedExitIsTrue and ExitAfterSync hold under all of them, see section 5. A run of
section 3 opens the windows its properties survive together. Properties of this table
that no run lists (NothingForgotten, KillIsSent, RebindSucceeds, ReadBackAfterExit; NotStartedIsTrue and
RegistryIsServed, which are proved) are kept in the module for reference.

The same for the other components:

| Property | Broken by |
|---|---|
| Deploys: OkIsReal | answer, hello, dup |
| SkippedNeverRan | answer, hello, dup, outlive, and snap with three flushers |
| BusyAgrees | answer, hello, dup, slow |
| SummaryAgrees | answer, snap, hello, dup, outlive |
| UndoesNewest | hello, dup, stale |
| InstalledAgrees | answer, hello, stale |
| DeploysEnd | leak, orphan |
| UpdStore: DiskAgrees | hooks, copy, fail |
| UsesAreNamed | copy |
| LockedStays | wait, commons |
| LockedWasDeployed | wait, commons, plan |
| NodeAccess: SubscribedAgrees, ListsAgree, RightsKept | checks (SubscribedAgrees also: viewers) |
| TreeIsSound | checks, with three requests |
| TileBoards: BoardsAreSound | insert |
| NothingLost | adopt, with two processes of the account: the answer of exec is taken for the next version while adoptOrphans put two tiles in it; switch, with three requests and two edits: the tab counts its board's version one too high, misses a terminal and saves without it |
| BrowserAgrees | adopt, overtake, switch |
| LateAnswersDropped | switch |

UploadsAreWhole holds in every window, and is proved so.

## 3. Runs

| Run | Instance | Shows |
|---|---|---|
| correlator | 2 callers, 3 ids, fair | SendsNeverBlock, NoWaiterLeaks, AnswersMatch; CloseWakesAll (liveness) |
| process_reach | lost, drain, stale, cut; no restart | RecordedExitIsTrue, ExitAfterSync, LiveIsBound |
| process_edit | an EDIT; lost, stale, kill, readback; a restart of either | ViewersAgree, LostIsLost, FinalIsFinal |
| process_restart | no window, fair; a restart of either | ExitNotMissed, and the liveness ExitIsRecorded and KillArrives |
| screen | capacity 3, outputs of up to 5 of 4 bytes, sequences of 2 and 3 | IsWindow, ImplementsLog (refinement) |
| output_order | early, drain, relays, socket, purge; 1 break, 1 supervisor restart | GapsAreMarked |
| output_fill | no window, fair; 1 break, 1 worker restart | NothingSkipped, and the liveness CaughtUp |
| deploys | leak; 1 deployment of 2 steps with an automatic rollback, 1 single run, 2 users, 2 flushers, 1 break, 1 cancel | OkIsReal, SkippedNeverRan, BusyAgrees, ResultsAreFinal |
| deploys_end | tardy, fair; 2 deployments of 1 step, rollbacks, a restart of each side, 2 users | SummaryAgrees, UndoesNewest, InstalledAgrees, and the liveness DeploysEnd |
| access | no window; 2 accounts, 4 nodes, 1 process, 2 requests at a time | TreeIsSound, QueriesAgree, SubscribedAgrees, ListsAgree, RightsKept |
| update_store | no window; 2 builds, 1 common, 2 contents of size 2, 4 requests, 2 at a time, crashes at any point | DiskAgrees, UsesAreNamed, LockedWasDeployed, UploadsAreWhole, LockedStays |
| tiles | no window; 2 processes, 2 requests of eleven kinds at a time, 1 edit, 1 load, 1 lost answer | BoardsAreSound, NothingLost, AbandonedIsForced, BrowserAgrees |

The process runs take one process and two connections (one reconnect). Processes share
nothing but their connection and its dispatcher, and every property speaks of one
process; two connections are what it takes for an old one to disturb a new one.
Restarts of the worker and of the supervisor happen where a run says so, at most one
of each: a second one starts from rows and holders in the same states as the first.

Two deployments are what UndoesNewest and InstalledAgrees need, and two users so that both are
asked for, or one undone while the other is created; two steps, with a step
that follows one that was recorded, and two flushers what OkIsReal needs. Four
requests on bundles are a deployment, a lock and two changes; the store starts from a
build that was deployed (`Deployed`), so that locks are within reach. Four nodes are
a folder in a folder, a script and one that is made or copied. Two requests at a time
are every pair of handlers; boards start with what a new account has, and what the tab
edits beside them makes the versions differ.

The screen holds three bytes so that a piece can be shorter than, as long as and
longer than the ring, and wrap it; with five bytes of output it wraps with every
head. Screens in TerminalStream hold two of three bytes, so that output can
be pushed out of them; pieces are one or two bytes long.

Deadlock is checked for correlator only: in the others, with every connection used
and every process ended, all output written or all requests made, nothing is left to do.

*Bounds.* `MaxConn`, `MaxCrash`, `MaxBoot`, `MaxRestart` bound the connections
dialled and the restarts, `MaxOut` and `MaxLen` the output, `MaxId` the requests.
`MaxDep`, `MaxTry`, `MaxSingle`, `MaxCancel`, `MaxReset` what is asked of an updater,
`MaxReq`, `MaxEdit`, `MaxLoad`, `MaxLost`, `MaxNode`, `Size` the rest.
Each is in the guard of the actions it bounds. A queue `up[c]` is bounded by
what one process can emit on a connection.

*Fairness.* Goroutines of both programs that can run do run (WF of each of their
actions); a worker that stopped is started by its service manager; a connection
that is down is noticed on both sides by the keep-alive (`EndSession`,
`ServeEnds`). Nothing is assumed of breaks, restarts, launches, kill requests,
DoneWait or the end of a process. Sync and Status are fair as whole actions, as
one dispatcher serves them. In TerminalStream the progress of chunks, snapshots
and the tab is fair; that the process writes, that the tab is opened and that its
socket comes back is not assumed. Liveness is stated up to `Exhausted`: with the
last of the `MaxConn` connections broken no one is left to report to.

In Deploys goroutines that can run do run, a step ends (scripts have a timeout), an
updater dials again; requests, breaks, restarts and cancels are not assumed. That a result
is answered in 10 s is not assumed either (*tardy*): a flush that waited in vain is over, nobody
sends again before the next result or the next connection, and DeploysEnd says that a
deployment ends or that this is what it waits for (`Untold`).

## 4. Disagreements between code and comments

Two contradict what a comment or a document says:

* **Read-back before the exit** (readback, `ReadBackAfterExit`). `src/obsidian-vault/REF-process-exec-edit.md:36`
  says that editResult comes after the final STATUS ("종료 STATUS 뒤에 editResult가 오고 그땐
  process 토픽이 이미 정리돼"). The worker sends them in that order, but MsgEditResult is
  registered with `Handle` (`cmd/supervisor/router/supervisorRouter.go:173`), whose requests run by
  `go c.dispatchReq` (`internal/transport/conn.go:144`) beside the dispatcher of the events. If it runs
  first it removes the entry, whose relay then publishes FAILED 502; the exit that follows finds
  no entry and is recorded in the row, so browsers and the row disagree for good.
* **An answer for another board** (switch, `LateAnswersDropped`). `tileTree.store.ts:203` says of `gen` that
  answers to requests sent before a load are dropped ("load/reset마다 증가 — 그 전에 보낸 요청의
  응답은 버린다"). That is so for a save. `start`, `execFile` and `adopt` (`nodeOps.store.ts:88,131,154`)
  hand the answer to `applyServerTile`, which compares only its version (`tileTree.store.ts:414`);
  the one for a video compares the board. The terminal is put on the board shown by then, at a
  version of another board.

These and the others were each found with a run that opens the one window named; no run of section 3 keeps it.

* **exit_missed** (lost) - `finish` waits for a registered connection because "the exit must
  not be missed" (`cmd/worker/router/hold.go:159`), but only logs a failed Emit and
  then releases the holder. An exit emitted on a connection that breaks is gone,
  and the next sync records FAILED 502 for a process that returned a code.
* **peer_cut** (cut) - a holder gives a worker that does not read 5 s
  (`internal/execute/hold/server.go:142`), less than the 25 s the worker's own
  connection allows. The worker takes the closed socket for the end of the holder:
  `forward` reports FAILED 502 and `Forget`s it. The comment at `server.go:137`
  says that the worker attaches again.
* **screen_gap** (early) - output forwarded between MsgSync and the snapshot asked for with it
  (`cmd/worker/router/register.go:97`) meets a ring that ends earlier: WriteAt drops
  the ring's content and keeps this output. The snapshot ends at the same offset
  unless more was written since, and Seed refuses it. The comment at `register.go:78`
  says the snapshot fills what was lost.
* **shown_twice** (behind) - `writeHeld` sets lastOff to the end of the last chunk held, even if
  the snapshot just written ends later. A chunk the snapshot covers that is still
  on the socket is then written again, against
  `internal/supervisor/bind/relay.go:78`.

More races break a property and have no run of their own; the table of windows
shows them: a break before the first PROCESS leaves an entry that the PENDING of
the clean-up does not detach, as applyStatus ignores the same status
(`process.go:227`), so Rebind collides (young, RebindSucceeds); a row created
between REGISTER and the handling of MsgSync is closed as lost while the worker
runs it (launch, LostIsLost); a kill recorded after the rows were listed and sent
before Rebind reaches no connection (kill, KillIsSent); a REGISTER handler that
runs late leaves a dead connection in the registry (late, RegistryIsServed); a
MsgExec that fails after the spawn leaves a running process recorded as 126 (young
and slow, NotStartedIsTrue); a `ready` stored late sends an exit to an ended
connection (stale with fairness, ExitIsRecorded).

A proof attempt found one that two connections do not show. The REGISTER handler is a
goroutine (`register.go`) while statuses are handled by the dispatcher
(`conn.go:163`), and what a connection is allowed is decided by the key that the
handler fills in *before* it looks at the registry. So a connection whose REGISTER
was never answered, dialled after a restart of the worker and broken there while the
supervisor still serves it, may have its PROCESS handled after the next connection has
registered and recorded the exit: the row of a closed process is opened again. It takes
three connections and a supervisor that is slow to notice the break; it belongs to the
window *overlap*, which says so since.

In TerminalStream, each window alone: early, drain, relays, socket and purge break
NothingSkipped (output is missing, and marked, that some screen still has); early and
drain break SnapshotFills; seam and behind break ShownOnce and GapsAreMarked; all other
pairs hold. A second one that a proof needed belongs to *drain*: events of a connection whose
clean-up is over (or that was registered and never bound) are still handled when a third one
is bound, and are queued for its entry, out of order. A tab whose socket comes back fetches no snapshot: output published
meanwhile is marked as missing only when the next piece arrives.

In the other components:

* The rule that files and names do not change once a build is locked is not kept under
  *wait* and *commons*: a save that waited for the lock's row sees `locked` as it was
  before, and a common saved while updLockBuild holds the build's row alone changes
  under a lock.
* A copy of a build whose steps are saved meanwhile may get the old steps and the new uses, or
  uses the steps do not name: `update.go:475-483` runs three statements and holds no lock of the source (*copy*).
* A result whose call waits in vain for 10 s (`cmd/updater/agent.go:275`) is, as the log says, sent
  again at the next connection; until then, or until another result, a deployment stays in progress
  in the records though it is over (*tardy*).
* A deployment that failed before its backup can never be rolled back and, as the
  newest one that is live, keeps older ones from being rolled back.
* "Step results before the deployment's" (`cmd/updater/agent.go:262`) is kept by one `flush`, but
  several run at once without a mutex. A step that begins while HELLO is handled (*snap*) is not
  among its running steps, and its MsgStepStart is dropped, `conn` being nil; if another `flush` sends
  the end of the deployment before the step's own, the supervisor writes `skip` for a step that
  ran. It takes three flushers; with two SkippedNeverRan holds under *snap*.
* updHello stores `running` for each run HELLO names, and the last one wins
  (`updaterConn.go:235-239`), while `agent.running()` lists the job first and the results not yet
  answered after it. So such a result takes the mark from the run going on, and its MsgEnd then clears
  it: the instance looks free while it works, with single runs too (*dup*, BusyAgrees).
* A backup run on its own counts among the backups kept (three) and pushes out those of
  deployments.
* "One uid in an account" (`checkTerminalUIDs`) and "one tile of a node" (`bindTile`)
  are not kept under *insert*: a board made after the locking statement began is not looked at.
* "The version of the server is the next one" in `tileTree.store.ts` is not kept
  under *adopt* and *overtake*: a push that arrives before the answer to a save, or
  a terminal bound between, leaves the tab with a version or a terminal too many.
* `processes.node_id` has no foreign key: a live process whose script was deleted is in no
  list of terminals at the root, though `shares.sql.go` says that NULL lists all.
* reconcileAccess that runs after the end of a process subscribes to a topic that was
  cleaned up, until the socket closes.

## 5. Proofs

`CorrelatorProofs`: TypeCorrect, NeverBlocks, WaitersTracked, OwnAnswer, for any
callers and any bound on ids. The invariant that carries them relates each
waiter's slot to where its caller, Resolve and the two closers are: an id is in at
most one of `waiters`, `taken` and the `waking` sets, and its slot is empty as
long as it is in one. That is why a channel with room for one is enough.

`ProcessLifecycleProofs`: for any set of processes, any
bounds and **every** choice of `Windows` (so under all races at once):

* TypeCorrect: `TypeOK`. Not inductive alone: `Finish` emits `outcome[p]`, a legal
  frame only because a finishing process has one (`Finishing`), and a job that is
  to send a kill must have a connection to send it on (`KillJobs`).
* ExitsAreTrue: `RecordedExitIsTrue`. An exit code is traced from the row back over
  the job, the frame and the worker's `outcome` to a holder that saw the process
  end (`OwnIsEnded`); no step moves a holder out of that set. `Started` is needed
  for `ExecSpawn`, which must not start a process that already ended.
* SyncComesFirst: `ExitAfterSync`. `ReadySynced` says that the connection in
  `ready` has its sync on the way or handled, unless it is down; `Lifetimes` that a
  connection not yet dialled is neither `ready` nor in a register goroutine, and
  that no connection serves after its link is gone.

`SafetyStep` has one step per action and under it one per conjunct the action can
disturb; the lemmas `KeptSafe`, `EmitKeeps`, `PrefixKeeps`, `TakeKeeps`,
`StartKeeps`, `HolderKeeps` say what an unrelated change, a write to, a loss from or
a read off a queue, a started job and a holder's end preserve.

There too, for any set of processes, any number of connections and restarts, and
any windows among *lost*, *stale* and *kill*, and *readback* where no process is an EDIT (`Calm` with
`ReadBacksWait`; section 2 shows that each of the others breaks one of them): FinalStays (`FinalIsFinal`, an action property), ViewersSeeIt
(`ViewersAgree`), LostWasLost (`LostIsLost`), NeverStarted (`NotStartedIsTrue`) and
RegistryServed (`RegistryIsServed`). They rest on one invariant, `Core` (CoreHolds), that says
of everything in flight what it may still say:

* of connections: at most one is up, the last one dialled (`Links`), the registry has the one
  that is served and all older ones are closed (`Registered`), a connection no longer served
  has nothing left to handle (`Drained`);
* of a queue: there is one sync, before it no exit, and behind a sync or an exit nothing of a
  process that it says has ended (`Ordered`, `Synced`);
* of the frames: each is about a process the worker took on, and an exit says its `outcome`,
  which never changes (`Carried`, `Outcomes`); while a PROCESS is on its way, the end is known
  nowhere else (`Running`);
* of a sync: what it does not list, the worker does not have and will never have again, and no
  exit of it is on its way on any connection (`SyncTells`, `Ends`). This is why a row closed as
  lost was lost;
* of a job: there is one for a process, started by a thread that is still at it, on the entry
  that is still in memory (`JobPlaces`, `JobsFit`), and rows that a clean-up or a sync listed
  are still active (`Listed`);
* of Exec, from the row to the answer (`Launches`), of what a sync bound (`Bound`), and of the
  read-back of an EDIT, which is behind its exit (`EditsBehind`): the code does not give this, it is
  what `ReadBacksWait` assumes, and process_edit checks the three properties without it.

There is one lemma per action, `DialCore` to `SupervisorRestartsCore`, with a
step for each part of `Core` the action can disturb; `EmitSent`, `TakeSent`, `PrefixSent`,
`StartJob` say what a write, a read, a loss and a started job do to queues and jobs.

There too, StaysReachable (`LiveIsBound`) with *lost* and *stale* at most
(`Steady`, again with `ReadBacksWait`), by `Rebound`: an entry says what its row says, and it is bound to the registered
connection, to one being launched on, or to one whose clean-up has it still to detach.
NoneMissed (`ExitNotMissed`) with *kill* at most (`Lossless`, with `ReadBacksWait`), by `ExitsTold`: a code the worker
has reported is recorded, on a connection, or taken by a job that is bound to record it, and a
holder is let go for no less.

`TerminalProofs`, for every capacity, length of output, number of connections and restarts; each
theorem names the windows it needs shut, and holds in all the others.

* GapsMarked (`GapsAreMarked`) and OnceShown (`ShownOnce`) with *seam* and *behind* shut
  (`Joins`). `Shown` says that the chunks held join and that a terminal `Reaches` lastOff: bytes
  in order, each once, a line wherever some are left out. What `writeHeld` makes of the chunks,
  a fold, is by induction on their number one piece (`HeldWhole`, `HeldBehind`), so that a
  snapshot, what was held and what comes live are each either what comes next (`ShowNext`) or a
  line and what comes later (`ShowGap`).
* SnapshotFilled (`SnapshotFills`) with *early* and *drain* shut (`Drains`). `Pipe` looks at all
  that is between the holder and the supervisor's screen as one chain, of which each frame
  `Follows` the one before: data starts no later than that ended, and behind a sync there is a
  snapshot. `Joint` says so across its joints - socket of the holder, connection, queue of the
  relay, screen - and of what is yet to come (`Ahead`: nothing, or a snapshot that was asked for);
  `Turns` that only the connection that is bound has frames left once a later one is registered.
* NoneSkipped (`NothingSkipped`) with no window and no restart of the supervisor (`Closed`).
  `Complete` continues the chain to the tab: relays take turns (`InOrder`), what a relay took is
  `Near` what was published before (`Brought`), and so is each chunk on the socket and each one
  held (`Arrives`): it starts within it, or at what no screen has any more. So a line stands
  only for such output (`Fills`).

`Least` (a set of numbers has a least one, by the library's theorem that they are well founded)
and `Induction`, stated of a set instead of a predicate, are what the inductions use.

`ScreenProofs`: TypeSafe, WindowSafe and LogImplemented for every capacity, alphabet,
set of sequences and length of the output. The invariant is the type invariant,
`IsWindow`, and that the offset is one of the output. The argument has two halves. About the
buffer: `KeptPlace` says where byte j of a snapshot lies, in one formula with the
modulus gone (`Wrap`), and `WriteKept` that a write makes the snapshot `LastN` of the
old snapshot and the piece, case by case on whether the piece fills the ring and where
it wraps. About the stream: slices join (`SliceJoin`) and the end of a slice is a slice
(`SliceLast`). `Appended` and `Restarted` put them together for a piece that
continues and one that starts anew; a step of Screen is one of these two, and
each is a step of ScreenLog.

`UpdStoreProofs`, in every window: TypesSound and UploadsSound, and with *copy* shut (`NoCopy`)
UsesAreSound. `Base` says
what a request at each step knows of the rows it holds: the row is there with the id it
read, and no two requests hold one row for themselves (`Apart`). That is what makes
an insert of uses, computed before, right at the commit. `Whole` says that a piece of
an upload starts within what was received, so that no file has a hole whatever the order.

There too, with *hooks*, *copy* and *fail* shut: DiskSound. `DiskInv` states
the folder of a bundle in terms of where the request that holds it is: before the write,
between write and commit, and before the hook that removes it.

LockSound (an action property) with *wait*, *commons* and *hooks* shut,
LockedSound with *wait*, *commons* and *plan* shut. `LockInv` says that a lock exists
only while the request that takes it, or none, holds the row and its commons, and that
a request past its check changes no locked row; `PlanInv` relates the files a
deployment listed, those it fetched and the signature it compares.

`DeploysProofs`, in every window, for any number of deployments, steps, runs, users, flushers,
connections and restarts: DeploysTyped (`TypeOK`), RunOnce (an action property: what ended on the
machine is not run again), DoneWasDone (two parts of OkIsReal: what is shown as ok ended well) and
ResultsStay (two parts of ResultsAreFinal: a recorded result is never written anew). The invariant is
`Types /\ Once /\ Real`.

* `Types` gives every request, message, row of `ends`, copy of a flusher and task its shape;
  without it no step about a queue can be stated.
* `Once` says who holds a run that is yet to be run. A run is *used* once its row is
  recorded; a request that recorded it, a message that carries it, the task and the job hold
  it, each at most once between them (`HeldOnce`, `ListsHeld`, `ReqsApart`), and all that is held
  is used and has not ended (`HeldIsUsed`, `HeldIsNew`, `UnusedIsNew`). Numbers of deployments
  and attempts are new when they are given out, and that is what makes the supervisor's
  requests disjoint (`ReqIsOpen`). RunOnce follows, and `ReachedOnce` is the same of a list.
* `Real` says that each result on its way (in `ends` and `dends`, in a copy of a flusher, in `up`)
  and each one recorded is what the machine did. By `Once` what it did does not change after, so a
  result may be late, sent twice or sent on a later connection and is still true.

There too, with *answer*, *hello*, *dup*, *stale*, *outlive* and *tardy* shut (`Marked`; deploys_end opens *tardy*
and finds UndoesNewest true in it) and *leak*, *orphan*, *snap*, *slow*, all losses and all
restarts as they come: RecordsAreReal (`OkIsReal`), OnlyNewestUndone (`UndoesNewest`) and
NothingRewritten (`ResultsAreFinal`, an action property). Section 2 shows which of these windows
breaks which. UndoesNewest is about newer deployments with a step that waits, runs or ran (`Placed`):
one that was recorded and refused at once, as two requests may be (`updaterDeploy.go:219-233`), never
touched the machine. What carries them is `Marks`, twelve parts about what a mark stands for:

* One thing at a time. A deployment asked for, its order, the task that runs and the end still
  `Pending` (in `dends`, in the copy of a flusher, or sent) exclude each other, there is at most one
  of each, and the row of that deployment is one that waits for it, `Going` (`ReqsMarked`,
  `OrdersGo`, `TaskMarked`, `PendingOnce`). As long as HELLO is through, `mark.dep` names it.
* An end that was recorded and whose answer was lost is told again: then the row already says
  the same, `Told`, or a rollback was asked for since and failed before it was sent
  (`PendingTrue`). This is why an end told twice changes nothing, and why a deployment with an
  end to be told is not marked as free (`Clear`), so nothing new is sent before it.
* A call is refused only in the name of something that does not run (`Refusals`, `FailsTrue`):
  closing its row as failed then says nothing false. A request never sees its connection end
  while it waits for the answer (`ReqsLinked`, `CallsFit`), which is the window *answer*.
* What is recorded as undone was undone and has no step that waits, so no late start of a step
  opens it again (`UndoneRows`); while a deployment is undone nothing newer is created
  (`NewestGoes`).

The proof has one lemma per action that says what it does to the rows and the mark (`HelloDoes`,
..., `ReturnDoes`), one for each variable that says which actions change it (`DepsChange`, ...,
`RowsChange`), and one per part of `Marks`.

`NodeAccessProofs`, for any number of accounts, nodes, processes and requests, and trees as deep as
MaxDepth allows (64 in the code, `MaxDepth >= MaxNode - 1` in the assumption): AccessTyped (`TypeOK`), TreeStaysSound (`TreeIsSound`), QueriesAlwaysAgree (`QueriesAgree`) and
RightsAreKept (`RightsKept`, an action property) with *checks* shut (`OneAtATime`), SubscribedAsSeen
(`SubscribedAgrees`) with *viewers* shut as well (`ViewersInTurn`). Five layers, each on the one before:

* The statements. A recursive query is a recursive function, whose rows are defined from 0 up to
  MaxDepth (`UpUnfolds`, `DownUnfolds`). On a forest the way up ends before the rows do
  (`UpEnds`): MaxDepth + 2 different nodes do not fit into MaxNode, which is where
  `MaxDepth >= MaxNode - 1` is used, and without it a deep node would be judged by half of its way up.
  A forest is `Rooted`: no set of nodes has the parents of all its members. That, and not
  "no node above itself", is what an insert, a move or a delete can be shown to keep, and
  it gives the induction from a parent to its children (`TreeInduction`).
* What they compute. The way up is a chain, the query downwards its inverse (`DownIsBelow`), and a
  permission is the owner's, or the nearest share's, step by step (`PermissionStep`). From it
  the four statements that judge many at once give what the one that judges one gives
  (`ViewersRight`, `RunsRight`, `ListIsRight`, `AroundSuffices`): this is QueriesAgree of `Sound` tables.
* What is written. `Sound` says of the tables: rows are typed, a parent is a folder of the same
  owner, shares lie on folders, a process has the owner of its node, and the tree is rooted. There is one
  lemma for each write (`CreateIsSound`, ..., `CopyIsSound`). Of a copy, the ids given out are
  different, as they are counted by depth and then by name (`NewIdsDiffer`).
* What a request may rely on between its check and its write: `Wanted`, one definition for each kind
  of request, shown by one lemma for each of the Ask actions. With *checks* open another request's write would
  come between, and section 3 shows the folder in itself that this makes; hence the single writer in `Inv`.
* Who hears of it. A write changes the sight of nobody but the accounts and processes the request
  collected before it (`Concerned`, `WrittenConcerns`): a deletion or a move asks around the node, above and
  below, at the old place and at the new one. `Heard` follows each of them: subscription and
  right agree, unless some request still has that account and process to look at (`Covers`).

`TileBoardsProofs`, for any number of processes, tiles, boards, edits, loads and requests, with
*insert*, *adopt*, *overtake* and *switch* shut (`InOrder`): BoardsStaySound (`BoardsAreSound`),
TerminalsStay (`NothingLost`) and AbandonedAlwaysForced (`AbandonedIsForced`). The invariant
speaks of the past, and has it bound instead of recorded: there are a `B`, what the tile of each id ever
was, and an `H`, the document each board had at each version, such that `Inv` holds. A step shows
what the next `B` and `H` are (`With`, `WithAll`, `Numbered`, `HistTo`). Its parts:

* `World`, of boards, tab and requests. `Sound` says that documents are valid and each tile, process,
  video and folder uid is in one place. What the tab shows and what a save has sent is *explained*
  (`Explains`): it differs from the version it is based on by edits the tab has yet to save, and by no
  others. So when a save is stored, as its version is still the board's, a terminal it lacks was closed by
  one of its edits. This is the argument for NothingLost, and without it
  validity says nothing: a valid document may well lack a terminal. With `PutOK`, `AnswerOK`, `TellOK` the
  same is followed through an answer that comes late, a tab that has edited since or
  shows another board (`gen`), and a tile the server told of before the version it came with
  (`TileNext`, `TileGrown`). `Elsewhere` says that folders still to be saved are on no other board.
* `Party`, of processes and requests. A purge is of a process that ended and that no
  request is about to show; one being started is on no board; one whose end was asked for is on a board or
  among the `closed` of a request that has published and not forced. Kill decides by what is on the boards
  (`late` otherwise), and that is why there is no gap.

In layers: `Drop` and `Splice` on sequences; one lemma for each function on documents, where
"all tiles hang on the root" is stated with sets (`Reach`: a set that has the root and what its
members opened has all), as a path would need induction over data; what a commit does to boards, tab and
requests for any set of documents written (`Write`, `Commits`, `CommitWorld`, `CommitParty`); then
one lemma per action (`AppendTerminalStep` to `EndsStep`), most of which show only that their documents
are made of tiles there were (`Moves`, `Transfer`) or of one new one (`OpenStep`).

The last three of UpdStore state their windows as named assumptions of the proof module (`Shut`,
`Closed`, `HooksFirst`, `PlansKept`), as the matrix of section 2 shows that each of
these windows breaks the property.

The assumptions are `EditsAssumption`, `BoundsAssumption` and `WindowsAssumption` of
ProcessState, `MaxIdAssumption` of Correlator, the four on the constants of Screen,
the three of UpdStore, the four of TerminalStream, `StoreAssumption` and `StateAssumption`
of the deployments, `NodeTreeAssumption` and `NodeAccessAssumption`, and `OwnAssumption` and
`EditsAssumption` of TileBoards.

Only model-checked:

* liveness (CloseWakesAll, ExitIsRecorded, KillArrives, CaughtUp, DeploysEnd): out of the
  prover's reach;
* of the processes, NothingForgotten, KillIsSent and RebindSucceeds, which no run lists;
* NodeAccess: `ListsAgree`. What a browser is told is read when it is told, from tables that other
  requests have changed since; its invariant has to relate each list to the accounts all pending
  requests are yet to tell, and to what they judged before;
* TileBoards: `BrowserAgrees`. That a tab at rest shows what is stored needs the order of all pushes still to
  come, each with its version, and its part about pins the order in which requests publish
  what bindTile wrote;
* Deploys: SkippedNeverRan, BusyAgrees, SummaryAgrees and InstalledAgrees. They relate what is shown
  to the order in which the start and the result of each step arrive, and to what a restart has
  forgotten; `Marks` speaks of deployments, not yet of their steps.

## 6. Not modelled, and simplifications

* The check of the registry and the append to it (`register.go:41-46`) are one step;
  a second connection of an instance exists only after the first session ended at
  the worker.
* ExecFile and Adopt, authorisation, resize, input, file content of an EDIT.
* In TerminalStream: one process and one tab; the end of the process and its
  clean-up; the redraw of an alternate screen; a terminal opened by exec, adopt or a
  push (`restore` with `reload: false`); a holder that drops its worker (window cut of
  the process modules). `Purge` stands for both limits of what a tab holds; chunks
  without an offset, which only tests send, do not occur.
* Backoff and address choice of the worker; keep-alive is the fairness of
  `EndSession` and `ServeEnds`.
* Updates: consoles, logs, downloads; devices, owners, notes, reads and zip files of bundles,
  refusals to create or overwrite, uploads of steps.json, the merge order of uses. A step run
  that times out is one that failed.
* Access: the order of nodes and suggestions; requests that make nodes run one at a time;
  a browser has loaded all it can see; tiles attached by the share and exec handlers.
* Boards: sizes, minimised tiles, history, notices, positions of videos, renaming and
  listing, the migration of old orders; one account with the right to operate; the read of
  a PUT and its versioned UPDATE are one step; the limit of conflicts after which a tab
  gives up. A load of the tab is one step, so that neither a push that comes early nor a socket that
  comes back is there; device tiles are on no board, and a video's tile is put below the root.
  Two accounts that close the terminals of one process at once are not there either, so
  AbandonedIsForced speaks of one.
* Everything in the inventory that has no module in section 2. Its hazards, not
  in the list of PROJECT.json or without a property there: Get and Append of the registry are
  two critical sections; 256 queued events stop the receive loop; an ordered handler that
  calls its own connection waits for itself; Broadcaster and Hub send outside their
  locks; the timer of a size owner against its return; a file chunk sent again after a
  reconnect; a move of a worker against requests on it; listeners of a commit whose errors are
  dropped; the response written before the commit.

## 7. Plan

1. More proofs: the steps of deployments with their windows shut (SkippedNeverRan,
   BusyAgrees) on top of `Marks`, then the lists of browsers (ListsAgree) and
   the tab at rest (BrowserAgrees).
2. **Transport**: receive loop, event queue with a bound, dispatcher, ordered and
   unordered requests, Close; abstract specification: a FIFO of events in which an
   ordered request is handled after the events before it.
3. **SizeOwner** with tabs and grace timers; **Hub**; **Broadcaster**; **Unregistered**
   (adopt and kill) on top of SupervisorProcess, with the registry's check and append split.
4. **FileTransfer** (chunks, resume, abort, rename) and **StoreTx**.
