---------------------------- MODULE ProcessState ----------------------------
(***************************************************************************)
(* State of one worker instance, its hold processes, its connections and   *)
(* the supervisor, as far as the life of a process depends on it.  The     *)
(* steps are in WorkerAgent and SupervisorProcess, their composition and   *)
(* the properties in ProcessLifecycle.                                     *)
(***************************************************************************)
EXTENDS Naturals, Sequences, FiniteSets

CONSTANTS
  Procs,     \* process uids
  Edits,     \* those of type EDIT; the others are EXEC
  MaxConn,   \* bound: connections the worker dials
  MaxCrash,  \* bound: restarts of the worker
  MaxBoot,   \* bound: restarts of the supervisor
  MaxRestart,\* bound: restarts of either
  Windows    \* races allowed to happen (see AllWindows)

Conns == 1 .. MaxConn

(***************************************************************************)
(* Timing the code leaves to chance.  A race in Windows may happen:        *)
(*   lost    a break loses messages sent before it, or emitted on it since *)
(*   young   a break before the supervisor has the answer to MsgExec and   *)
(*           has applied the first PROCESS                                 *)
(*   drain   a clean-up starts before the events received were handled     *)
(*   overlap a connection registers while an older one is still served or  *)
(*           being cleaned up                                              *)
(*   late    a REGISTER handler still runs after its connection ended      *)
(*   stale   the worker stores `ready' after that session ended            *)
(*   slow    two applyStatus of a process overlap; a MsgExec times out     *)
(*   cut     a holder drops a worker that does not read for 5 s            *)
(*   launch  a process is launched before the connection's MsgSync is done *)
(*   kill    a kill request overlaps the handling of a MsgSync or another  *)
(*           status change of its process                                  *)
(*   readback the read-back of an EDIT, a request with a goroutine of its  *)
(*           own, is handled before its exit is, or once its connection is *)
(*           closed                                                        *)
(***************************************************************************)
AllWindows == {"lost", "young", "drain", "overlap", "late", "stale", "slow",
               "cut", "launch", "kill", "readback"}

ASSUME EditsAssumption == Edits \subseteq Procs
ASSUME BoundsAssumption ==
  {MaxConn, MaxCrash, MaxBoot, MaxRestart} \subseteq Nat
ASSUME WindowsAssumption == Windows \subseteq AllWindows

(* How a process ended, for the supervisor: COMPLETED with the exit code   *)
(* the process returned, FAILED 126 (failExec) or FAILED 502 (lost).       *)
Exits == {"own", "notStarted", "lost"}
Statuses == {"none", "PENDING", "PROCESS"} \cup Exits

(* Frames of worker and supervisor: MsgSync, or a MsgStatus of a process.  *)
Frames == [kind : {"sync", "PROCESS", "own", "lost"}, procs : SUBSET Procs]

NoEntry == [conn |-> 0, status |-> "none", open |-> FALSE]

(* A supervisor goroutine that applies statuses: the event dispatcher of a *)
(* connection, its clean-up, or the launch of a process.                   *)
Threads == ({"dispatch", "cleanup"} \X Conns) \cup ({"launch"} \X Procs)

(* An applyStatus between its read of the entry and its effects: `conn' is *)
(* the connection of the entry read (0 if none), `live' that the status    *)
(* was not ignored, `then' what the caller does next.                      *)
Jobs == [by : Threads, p : Procs, status : Statuses, conn : 0 .. MaxConn,
         live : BOOLEAN, then : {"none", "publish", "kill", "remove"}]

VARIABLES
  \* the network
  link,     \* link[c]: connection c is "unused", "up" or "down"
  up,       \* up[c]: events sent by the worker, not yet handled
  edits,    \* MsgEditResult requests in flight, as <<p, c>>
  \* the worker and its hold processes
  wup,      \* the worker runs
  wconn,    \* state.conn, 0 if nil
  ready,    \* state.ready, 0 if nil
  session,  \* session[c]: the worker's session on c has not ended
  reg,      \* reg[c]: progress of the worker's register goroutine on c
  wp,       \* wp[p]: progress of p at the worker
  holder,   \* holder[p]: the hold process of p
  outcome,  \* outcome[p]: the exit forward learnt for p
  signalled,\* processes whose holder has been told to kill
  crashes,  \* restarts of the worker so far
  \* the supervisor
  row,      \* row[p]: the row of p in table processes
  entry,    \* entry[p]: the entry of p in processManager.memory
  seen,     \* seen[p]: the STATUS last published for p
  registry, \* connection in r.workers for the instance, 0 if none
  auth,     \* auth[c]: auth.InstanceKey() of connection c is set
  srv,      \* srv[c]: progress of handleWorkerWS on c
  pend,     \* pend[c]: rows reconcileDisconnect of c still has to apply
  sync,     \* sync[c]: reconcileReconnect of c
  unreg,    \* r.unregistered of the instance
  jobs,     \* applyStatus calls in progress
  lpc,      \* lpc[p]: progress of Exec for p
  lconn,    \* lconn[p]: the connection Exec captured
  kpc,      \* kpc[p]: progress of a kill request for p
  krec,     \* krec[p]: status in the row the kill request returned
  kills,    \* MsgKill calls issued, as <<p, c>>
  boots     \* restarts of the supervisor so far

netVars == <<link, up, edits>>
wVars   == <<wup, wconn, ready, session, reg, wp, holder, outcome, signalled,
             crashes>>
connVars == <<registry, auth, srv, pend, sync, unreg>>
recVars  == <<row, entry, seen, jobs>>
reqVars  == <<lpc, lconn, kpc, krec, kills>>
supVars  == <<connVars, recVars, reqVars, boots>>
vars == <<netVars, wVars, supVars>>

(* What the windows "young" and "lost" let a break or a restart interrupt. *)
Settled(c) ==
  \/ "young" \in Windows
  \/ link[c] # "up"
  \/ \A p \in Procs : /\ entry[p].conn = c => entry[p].status # "PENDING"
                      /\ lconn[p] = c => lpc[p] # "called"

Quiet ==
  "lost" \in Windows \/ (jobs = {} /\ \A c \in Conns : up[c] = <<>>)

NoSync == [at |-> "no", todo |-> {}, has |-> {}, listed |-> {}, kill |-> {}]

Init ==
  /\ link = [c \in Conns |-> "unused"]
  /\ up = [c \in Conns |-> <<>>]
  /\ edits = {}
  /\ wup = TRUE
  /\ wconn = 0
  /\ ready = 0
  /\ session = [c \in Conns |-> FALSE]
  /\ reg = [c \in Conns |-> "none"]
  /\ wp = [p \in Procs |-> "none"]
  /\ holder = [p \in Procs |-> "none"]
  /\ outcome = [p \in Procs |-> "none"]
  /\ signalled = {}
  /\ crashes = 0
  /\ row = [p \in Procs |-> [status |-> "none", kill |-> FALSE]]
  /\ entry = [p \in Procs |-> NoEntry]
  /\ seen = [p \in Procs |-> "none"]
  /\ registry = 0
  /\ auth = [c \in Conns |-> FALSE]
  /\ srv = [c \in Conns |-> "unused"]
  /\ pend = [c \in Conns |-> {}]
  /\ sync = [c \in Conns |-> NoSync]
  /\ unreg = {}
  /\ jobs = {}
  /\ lpc = [p \in Procs |-> "none"]
  /\ lconn = [p \in Procs |-> 0]
  /\ kpc = [p \in Procs |-> "none"]
  /\ krec = [p \in Procs |-> "none"]
  /\ kills = {}
  /\ boots = 0

NetOK ==
  /\ link \in [Conns -> {"unused", "up", "down"}]
  /\ up \in [Conns -> Seq(Frames)]
  /\ edits \subseteq Edits \X Conns

WorkerOK ==
  /\ wup \in BOOLEAN
  /\ wconn \in 0 .. MaxConn
  /\ ready \in 0 .. MaxConn
  /\ session \in [Conns -> BOOLEAN]
  /\ reg \in [Conns -> {"none", "asked", "answered", "refused", "synced",
                        "done"}]
  /\ wp \in [Procs -> {"none", "asked", "rejected", "spawning", "attached",
                       "running", "finishing", "reported", "held", "orphan",
                       "over"}]
  /\ holder \in [Procs -> {"none", "running", "exited", "gone", "released",
                           "expired"}]
  /\ outcome \in [Procs -> {"none", "own", "lost"}]
  /\ signalled \subseteq Procs
  /\ crashes \in 0 .. MaxCrash

ConnOK ==
  /\ registry \in 0 .. MaxConn
  /\ auth \in [Conns -> BOOLEAN]
  /\ srv \in [Conns -> {"unused", "serving", "ended", "removed", "pending",
                        "closed"}]
  /\ pend \in [Conns -> SUBSET Procs]
  /\ sync \in [Conns -> [at : {"no", "on", "done"}, todo : SUBSET Procs,
                         has : SUBSET Procs, listed : SUBSET Procs,
                         kill : SUBSET Procs]]
  /\ unreg \subseteq Procs

RecOK ==
  /\ row \in [Procs -> [status : Statuses, kill : BOOLEAN]]
  /\ entry \in [Procs -> [conn : 0 .. MaxConn, status : Statuses,
                          open : BOOLEAN]]
  /\ seen \in [Procs -> Statuses]
  /\ jobs \subseteq Jobs

ReqOK ==
  /\ lpc \in [Procs -> {"none", "ready", "called", "failing", "undo", "done"}]
  /\ lconn \in [Procs -> 0 .. MaxConn]
  /\ kpc \in [Procs -> {"none", "committed", "sent"}]
  /\ krec \in [Procs -> Statuses]
  /\ kills \subseteq Procs \X Conns
  /\ boots \in 0 .. MaxBoot

TypeOK == NetOK /\ WorkerOK /\ ConnOK /\ RecOK /\ ReqOK
=============================================================================
