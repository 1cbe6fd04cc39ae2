-------------------------- MODULE ProcessLifecycle --------------------------
(***************************************************************************)
(* Worker, hold processes, connections and supervisor together, and what   *)
(* must be true of the life of a process.                                  *)
(***************************************************************************)
EXTENDS WorkerAgent, SupervisorProcess

Next == WorkerNext \/ SupervisorNext

Spec == Init /\ [][Next]_vars

(* Goroutines that can run do run, the worker is started again, and a      *)
(* connection that is down is noticed (keep-alive).  Nothing is assumed of *)
(* breaks, restarts, launches, kills or the end of a process.              *)
Fairness ==
  /\ WF_vars(WorkerStarts)
  /\ WF_vars(\E j \in jobs : ApplyStatus(j))
  /\ \A c \in Conns :
       /\ WF_vars(Dial(c)) /\ WF_vars(EndSession(c)) /\ WF_vars(SendSync(c))
       /\ WF_vars(StoreReady(c))
       /\ WF_vars(BindRegister(c)) /\ WF_vars(FinishRegister(c))
       /\ WF_vars(ServeEnds(c)) /\ WF_vars(Unregister(c))
       /\ WF_vars(ListActive(c)) /\ WF_vars(CloseConn(c))
       /\ WF_vars(Sync(c)) /\ WF_vars(SyncEnd(c))
       /\ \A p \in Procs :
            /\ WF_vars(Pend(c, p)) /\ WF_vars(SyncLost(c, p))
            /\ WF_vars(SyncRebind(c, p)) /\ WF_vars(Kill(p, c))
            /\ WF_vars(\E kind \in {"PROCESS", "own", "lost"} : Status(c, p, kind))
  /\ \A p \in Procs :
       /\ WF_vars(ExecSpawn(p)) /\ WF_vars(ExecAdmit(p))
       /\ WF_vars(ForwardProcess(p)) /\ WF_vars(ForwardExit(p))
       /\ WF_vars(Finish(p)) /\ WF_vars(Forget(p))
       /\ WF_vars(LaunchCall(p) \/ LaunchFails(p)) /\ WF_vars(LaunchDone(p))
       /\ WF_vars(FailExec(p)) /\ WF_vars(SendKill(p))

FairSpec == Spec /\ Fairness

-----------------------------------------------------------------------------
(* A row says COMPLETED only if the process really returned: no clean-up,  *)
(* reconciliation, late frame or restart invents an exit code.             *)
RecordedExitIsTrue ==
  \A p \in Procs :
    row[p].status = "own" => holder[p] \in {"exited", "released", "expired"}

(* finish waits for a connection that has sent MsgSync (hold.go:159-160):  *)
(* an exit never reaches the supervisor on a connection before the sync    *)
(* that makes it rebind the process.                                       *)
ExitAfterSync ==
  \A c \in Conns : \A i \in 1 .. Len(up[c]) :
    up[c][i].kind \in {"own", "lost"} =>
      \/ sync[c].at # "no"
      \/ \E k \in 1 .. i - 1 : up[c][k].kind = "sync"

(* "The disconnect has detached it from memory, so Append does not         *)
(* collide" (manager.go:206-207): a reported process can be rebound.       *)
RebindSucceeds ==
  [][\A c \in Conns, p \in Procs : SyncRebind(c, p) => entry[p].conn = 0]_vars

(* "The exit must not be missed" (hold.go:159): the worker releases a      *)
(* finished process only when its exit is what the row says.               *)
ExitNotMissed ==
  \A p \in Procs : holder[p] = "released" => row[p].status # "lost"

(* "Known to the supervisor only: lost by a reboot of the worker"          *)
(* (process.go:359): no row is closed as lost while the worker has it.     *)
LostIsLost ==
  \A p \in Procs :
    row[p].status = "lost" => p \notin procs \/ outcome[p] = "lost"

(* "If the worker attaches again, the snapshot fills it in"                *)
(* (hold/server.go:137): the worker never forgets a holder that runs on.   *)
NothingForgotten == \A p \in Procs : wp[p] = "over" => holder[p] # "running"

(* A finished process stays as it finished.                                *)
FinalIsFinal ==
  [][\A p \in Procs : row[p].status \in Exits => row'[p].status = row[p].status]_vars

(* Once a process is closed, browsers were told the same end; the one      *)
(* exception is an EDIT whose read-back was handled before its exit, told  *)
(* as failed when its entry was removed.                                   *)
ReadBackFirst(p) == "readback" \in Windows /\ p \in Edits /\ seen[p] = "lost"

ViewersAgree ==
  \A p \in Procs :
    row[p].status \in Exits /\ ~(\E j \in jobs : j.p = p) =>
      seen[p] = row[p].status \/ ReadBackFirst(p)

(* "editResult comes after the end STATUS" (REF-process-exec-edit.md): the *)
(* read-back of an EDIT finds its relay closed by the exit.                *)
ReadBackAfterExit ==
  [][\A p \in Procs, c \in Conns :
       EditResult(p, c) /\ entry[p].conn # 0 /\ auth[c] => ~entry[p].open]_vars

(* FAILED 126 is "execution could not be started" (process.go:105).        *)
NotStartedIsTrue ==
  \A p \in Procs : row[p].status = "notStarted" => p \notin procs

(* When the end of a connection is cleaned up, the registry no longer has  *)
(* it (supervisorRouter.go:179), so the worker can register again.         *)
RegistryIsServed == registry # 0 => srv[registry] \in {"serving", "ended"}

(* A kill requested while the worker was away is sent when it is back      *)
(* (REF-process-kill.md, supervisorRouter killProcess): after the sync, a  *)
(* live entry whose row asks for a kill has had it sent on its connection. *)
KillIsSent ==
  \A p \in Procs :
    /\ Active(p) /\ row[p].kill /\ kpc[p] = "sent" /\ entry[p].conn # 0
    /\ ~(\E j \in jobs : j.p = p)
    => <<p, entry[p].conn>> \in kills

(* After the sync, what the worker runs and the supervisor keeps as live   *)
(* can be reached: its entry is bound to the connection in use.            *)
LiveIsBound ==
  \A c \in Conns, p \in Procs :
    /\ registry = c /\ link[c] = "up" /\ sync[c].at = "done"
    /\ p \in procs /\ Active(p)
    => entry[p].conn = c

(* While connections last, the exit of a process the worker is attached to *)
(* reaches its row.                                                        *)
Exhausted == \A c \in Conns : link[c] = "down"

ExitIsRecorded ==
  \A p \in Procs :
    (wp[p] = "finishing" /\ Active(p)) ~> (row[p].status \in Exits \/ Exhausted)

(* ... and a kill reaches a process that does not end first.               *)
KillArrives ==
  \A p \in Procs :
    (row[p].kill /\ wp[p] = "running") ~>
      (p \in signalled \/ holder[p] # "running" \/ Exhausted)
=============================================================================
