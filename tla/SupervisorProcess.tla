------------------------- MODULE SupervisorProcess --------------------------
(***************************************************************************)
(* cmd/supervisor/router and cmd/supervisor/process: registration of a     *)
(* worker, the events it sends, applyStatus, the clean-up of a connection, *)
(* the reconciliation after a reconnect, Exec and kill requests.           *)
(***************************************************************************)
EXTENDS ProcessState

(* Mutants of the operators below.                                         *)
AnyRow(p) == row[p].status # "none"
KeptOnPending(j) ==
  IF j.status \in Exits THEN NoEntry
  ELSE [entry[j.p] EXCEPT !.status = IF @ = "none" THEN @ ELSE j.status]
PublishedWhileLive(j) == IF j.status = "PROCESS" THEN "PROCESS" ELSE seen[j.p]
NotRemoved == registry
NoKills == {}
RunningOnly(p) == entry[p].conn = 0 /\ row[p].status = "PROCESS"
ShortTimeout(p) == lpc[p] = "called"

(* The rows ListActiveByDevice returns and a kill may be requested for.    *)
Active(p) == row[p].status \in {"PENDING", "PROCESS"}

(* commandStatus.String(): both failures are FAILED.                       *)
Shown(s) == IF s \in {"notStarted", "lost"} THEN "FAILED" ELSE s

-----------------------------------------------------------------------------
(* applyStatus.  It reads the entry (Start), then writes the row and acts  *)
(* on the entry it read and on the one in memory by then (ApplyStatus).    *)

(* The same status again is ignored; PROCESS and PENDING need an entry.    *)
Ignored(p, s) ==
  \/ entry[p].conn = 0 /\ s \in {"PROCESS", "PENDING"}
  \/ entry[p].conn # 0 /\ Shown(entry[p].status) = Shown(s)

Busy(t) == \E j \in jobs : j.by = t

Start(t, p, s, then) ==
  /\ ~Busy(t)
  /\ "slow" \in Windows \/ \A j \in jobs : j.p # p
  /\ jobs' = jobs \cup {[by |-> t, p |-> p, status |-> s,
                         conn |-> entry[p].conn, live |-> ~Ignored(p, s),
                         then |-> then]}

(* The entry read is still the one in memory.                              *)
Same(j) == j.conn # 0 /\ entry[j.p].conn = j.conn

(* Entry and last published status after the effects of applyStatus: a     *)
(* status is published if the relay of the entry read is still open, and   *)
(* removing another entry by uid publishes FAILED 502 on it.               *)
EntryAfter(j) ==
  LET e == entry[j.p] IN
  IF ~j.live THEN e
  ELSE CASE j.status = "PROCESS" /\ Same(j) -> [e EXCEPT !.status = "PROCESS"]
         [] j.status = "PENDING" -> NoEntry
         [] j.status \in Exits /\ j.conn # 0 /\ j.p \notin Edits -> NoEntry
         [] j.status \in Exits /\ Same(j) /\ j.p \in Edits ->
              [e EXCEPT !.status = j.status, !.open = FALSE]
         [] OTHER -> e

SeenAfter(j) ==
  CASE j.live /\ Same(j) /\ entry[j.p].open -> j.status
    [] j.live /\ ~Same(j) /\ j.conn # 0 /\ entry[j.p].open
         /\ j.status \in Exits /\ j.p \notin Edits -> "lost"
    [] OTHER -> seen[j.p]

(* The row MarkProcessRunning, -Pending or -Done writes: unconditionally.  *)
Marked(j) == [row[j.p] EXCEPT !.status = j.status]

(* What the caller does after applyStatus: publishLost, the kill of a      *)
(* rebound process, or failExec's Remove (Done(502) if still open).        *)
ApplyStatus(j) ==
  /\ j \in jobs
  /\ "kill" \in Windows \/ kpc[j.p] # "committed"
  /\ jobs' = jobs \ {j}
  /\ row' = IF j.live THEN [row EXCEPT ![j.p] = Marked(j)] ELSE row
  /\ entry' = [entry EXCEPT ![j.p] =
                 IF j.then = "remove" THEN NoEntry ELSE EntryAfter(j)]
  /\ seen' = [seen EXCEPT ![j.p] =
                IF j.then = "publish" \/ (j.then = "remove" /\ EntryAfter(j).open)
                THEN "lost" ELSE SeenAfter(j)]
  /\ kills' = IF j.then = "kill" THEN kills \cup {<<j.p, j.conn>>} ELSE kills
  /\ lpc' = IF j.then = "remove" THEN [lpc EXCEPT ![j.p] = "done"] ELSE lpc
  /\ UNCHANGED <<netVars, wVars, connVars, lconn, kpc, krec, boots>>

-----------------------------------------------------------------------------
(* handleWorkerWS: the REGISTER handler.                                   *)

(* A new connection may register while an older one is still cleaned up or *)
(* fails the launches it had.                                              *)
CleaningUp ==
  \/ \E c \in Conns : srv[c] \in {"ended", "removed", "pending"}
  \/ \E p \in Procs : /\ lpc[p] \in {"ready", "called", "failing", "undo"}
                      /\ srv[lconn[p]] # "serving"

(* Older connections the worker has left and the supervisor still serves.   *)
Older(c) == {d \in Conns : d < c /\ srv[d] = "serving"}

(* Bind fills auth of the connection; the handler is a goroutine that may  *)
(* outlive the connection.                                                 *)
BindRegister(c) ==
  /\ reg[c] = "asked" /\ ~auth[c]
  /\ srv[c] = "serving" \/ (srv[c] # "unused" /\ "late" \in Windows)
  /\ auth' = [auth EXCEPT ![c] = TRUE]
  /\ UNCHANGED <<netVars, wVars, registry, srv, pend, sync, unreg, recVars,
                 reqVars, boots>>

(* The instance is refused while a connection of it is registered.         *)
Free == registry = 0

FinishRegister(c) ==
  /\ reg[c] = "asked" /\ auth[c] /\ registry # c
  /\ srv[c] = "serving" \/ "late" \in Windows
  /\ ~CleaningUp \/ "overlap" \in Windows
  /\ \/ /\ Free
        /\ Older(c) = {} \/ "overlap" \in Windows
        /\ registry' = c
        /\ reg' = [reg EXCEPT ![c] = IF session[c] THEN "answered" ELSE "done"]
        /\ UNCHANGED auth
     \/ /\ ~Free
        /\ auth' = [auth EXCEPT ![c] = FALSE]
        /\ reg' = [reg EXCEPT ![c] = "refused"]
        /\ UNCHANGED registry
  /\ UNCHANGED <<netVars, wup, wconn, ready, session, wp, holder, outcome,
                 signalled, crashes, srv, pend, sync, unreg, recVars, reqVars,
                 boots>>

-----------------------------------------------------------------------------
(* handleWorkerWS: the end of a connection.                                *)

(* The dispatcher of c is between two events.                              *)
Between(c) == sync[c].at # "on" /\ ~Busy(<<"dispatch", c>>)

(* Serve returns.                                                          *)
ServeEnds(c) ==
  /\ srv[c] = "serving" /\ link[c] = "down"
  /\ "drain" \in Windows \/ (up[c] = <<>> /\ Between(c))
  /\ "late" \in Windows \/ reg[c] # "asked" \/ ~auth[c]
  /\ srv' = [srv EXCEPT ![c] = IF auth[c] THEN "ended" ELSE "closed"]
  /\ UNCHANGED <<netVars, wVars, registry, auth, pend, sync, unreg, recVars,
                 reqVars, boots>>

(* workers.Remove(key), whichever connection it holds; unregistered.drop.  *)
AfterRemove == 0

Unregister(c) ==
  /\ srv[c] = "ended"
  /\ registry' = AfterRemove
  /\ unreg' = {}
  /\ srv' = [srv EXCEPT ![c] = "removed"]
  /\ UNCHANGED <<netVars, wVars, auth, pend, sync, recVars, reqVars, boots>>

(* reconcileDisconnect: ListActiveByDevice ...                             *)
ListActive(c) ==
  /\ srv[c] = "removed"
  /\ pend' = [pend EXCEPT ![c] = {p \in Procs : Active(p)}]
  /\ srv' = [srv EXCEPT ![c] = "pending"]
  /\ UNCHANGED <<netVars, wVars, registry, auth, sync, unreg, recVars, reqVars,
                 boots>>

(* ... and applyStatus(PENDING) of each row.                               *)
Pend(c, p) ==
  /\ p \in pend[c]
  /\ Start(<<"cleanup", c>>, p, "PENDING", "none")
  /\ pend' = [pend EXCEPT ![c] = @ \ {p}]
  /\ UNCHANGED <<netVars, wVars, registry, auth, srv, sync, unreg, row, entry,
                 seen, reqVars, boots>>

(* conn.Close: the dispatcher stops after some of the events left.         *)
CloseConn(c) ==
  /\ srv[c] = "pending" /\ pend[c] = {} /\ ~Busy(<<"cleanup", c>>)
  /\ srv' = [srv EXCEPT ![c] = "closed"]
  /\ \E n \in 0 .. Len(up[c]) : up' = [up EXCEPT ![c] = SubSeq(@, 1, n)]
  /\ edits' = IF "readback" \in Windows THEN edits ELSE {e \in edits : e[2] # c}
  /\ UNCHANGED <<link, wVars, registry, auth, pend, sync, unreg, recVars,
                 reqVars, boots>>

-----------------------------------------------------------------------------
(* Events, one at a time and in order (dispatch).                          *)

Take(c, kind) ==
  /\ srv[c] # "unused" /\ Between(c)
  /\ up[c] # <<>> /\ Head(up[c]).kind = kind
  /\ up' = [up EXCEPT ![c] = Tail(@)]

(* status: dropped before REGISTER; an exit leaves r.unregistered.         *)
Status(c, p, kind) ==
  /\ Take(c, kind) /\ Head(up[c]).procs = {p}
  /\ IF auth[c]
     THEN /\ unreg' = IF kind \in Exits THEN unreg \ {p} ELSE unreg
          /\ Start(<<"dispatch", c>>, p, kind, "none")
     ELSE UNCHANGED <<unreg, jobs>>
  /\ UNCHANGED <<link, edits, wVars, registry, auth, srv, pend, sync, row,
                 entry, seen, reqVars, boots>>

(* sync: reconcileReconnect lists the active rows, with the kills recorded *)
(* in them.                                                                *)
KillsAsked == {p \in Procs : Active(p) /\ row[p].kill}

Sync(c) ==
  /\ Take(c, "sync")
  /\ sync' = [sync EXCEPT ![c] =
       IF auth[c]
       THEN LET active == {p \in Procs : Active(p)}
            IN [at |-> "on", todo |-> active, has |-> Head(up[c]).procs,
                listed |-> active, kill |-> KillsAsked]
       ELSE [NoSync EXCEPT !.at = "done"]]
  /\ UNCHANGED <<link, edits, wVars, registry, auth, srv, pend, unreg, recVars,
                 reqVars, boots>>

(* A row the worker did not report: FAILED 502, published directly.        *)
SyncLost(c, p) ==
  /\ sync[c].at = "on" /\ p \in sync[c].todo \ sync[c].has
  /\ Start(<<"dispatch", c>>, p, "lost", "publish")
  /\ sync' = [sync EXCEPT ![c].todo = @ \ {p}]
  /\ UNCHANGED <<netVars, wVars, registry, auth, srv, pend, unreg, row, entry,
                 seen, reqVars, boots>>

(* Rebind replaces no entry: memory.Append fails when one is there.        *)
Rebindable(p) == entry[p].conn = 0

(* A row the worker reported: Rebind, applyStatus(PROCESS), the kill that  *)
(* the row asked for.                                                      *)
SyncRebind(c, p) ==
  /\ sync[c].at = "on" /\ p \in sync[c].todo \cap sync[c].has
  /\ ~Busy(<<"dispatch", c>>)
  /\ "slow" \in Windows \/ \A j \in jobs : j.p # p
  /\ sync' = [sync EXCEPT ![c].todo = @ \ {p}]
  /\ \/ /\ Rebindable(p)
        /\ entry' = [entry EXCEPT ![p] = [conn |-> c, status |-> row[p].status,
                                          open |-> TRUE]]
        /\ jobs' = jobs \cup
             {[by |-> <<"dispatch", c>>, p |-> p, status |-> "PROCESS",
               conn |-> c, live |-> row[p].status # "PROCESS",
               then |-> IF p \in sync[c].kill THEN "kill" ELSE "none"]}
     \/ /\ ~Rebindable(p)
        /\ UNCHANGED <<entry, jobs>>
  /\ UNCHANGED <<netVars, wVars, registry, auth, srv, pend, unreg, row, seen,
                 reqVars, boots>>

(* Reported without a row that was active: the unregistered list.          *)
SyncEnd(c) ==
  /\ sync[c].at = "on" /\ sync[c].todo = {} /\ ~Busy(<<"dispatch", c>>)
  /\ unreg' = sync[c].has \ sync[c].listed
  /\ sync' = [sync EXCEPT ![c] = [NoSync EXCEPT !.at = "done"]]
  /\ UNCHANGED <<netVars, wVars, registry, auth, srv, pend, recVars, reqVars,
                 boots>>

(* applyEditResult, a goroutine per request beside the event dispatcher:   *)
(* the content is stored and the entry removed; Remove closes a relay      *)
(* still open with Done(502), which browsers see as a failure.             *)
EditResult(p, c) ==
  /\ <<p, c>> \in edits
  /\ "readback" \in Windows \/ ((\A j \in jobs : j.p # p) /\ up[c] = <<>>)
  /\ edits' = edits \ {<<p, c>>}
  /\ IF entry[p].conn # 0 /\ auth[c]
     THEN /\ entry' = [entry EXCEPT ![p] = NoEntry]
          /\ seen' = IF entry[p].open THEN [seen EXCEPT ![p] = "lost"] ELSE seen
     ELSE UNCHANGED <<entry, seen>>
  /\ UNCHANGED <<link, up, wVars, connVars, row, jobs, reqVars, boots>>

-----------------------------------------------------------------------------
(* Exec: the entry and the row, the file content, MsgExec.                 *)

LaunchRegister(p) ==
  /\ lpc[p] = "none" /\ registry # 0
  /\ "launch" \in Windows \/ sync[registry].at = "done"
  /\ lconn' = [lconn EXCEPT ![p] = registry]
  /\ entry' = [entry EXCEPT ![p] = [conn |-> registry, status |-> "PENDING",
                                    open |-> TRUE]]
  /\ row' = [row EXCEPT ![p].status = "PENDING"]
  /\ lpc' = [lpc EXCEPT ![p] = "ready"]
  /\ UNCHANGED <<netVars, wVars, connVars, seen, jobs, kpc, krec, kills, boots>>

(* worker.Call(MsgExec).                                                   *)
LaunchCall(p) ==
  /\ lpc[p] = "ready" /\ srv[lconn[p]] = "serving"
  /\ lpc' = [lpc EXCEPT ![p] = "called"]
  /\ wp' = IF link[lconn[p]] = "up" THEN [wp EXCEPT ![p] = "asked"] ELSE wp
  /\ UNCHANGED <<netVars, wup, wconn, ready, session, reg, holder, outcome,
                 signalled, crashes, connVars, recVars, lconn, kpc, krec, kills,
                 boots>>

(* The answer: accepted.                                                   *)
LaunchDone(p) ==
  /\ lpc[p] = "called" /\ srv[lconn[p]] = "serving"
  /\ wp[p] \notin {"none", "asked", "rejected", "spawning", "orphan"}
  /\ lpc' = [lpc EXCEPT ![p] = "done"]
  /\ UNCHANGED <<netVars, wVars, connVars, recVars, lconn, kpc, krec, kills,
                 boots>>

(* The call failed with its connection or timed out, or was rejected.      *)
CallFailed(p) ==
  /\ lpc[p] = "called"
  /\ srv[lconn[p]] # "serving" \/ wp[p] = "rejected" \/ "slow" \in Windows

(* ... or the content could not be sent.                                   *)
LaunchFails(p) ==
  /\ lpc[p] = "ready" \/ CallFailed(p)
  /\ lpc' = [lpc EXCEPT ![p] = "failing"]
  /\ UNCHANGED <<netVars, wVars, connVars, recVars, lconn, kpc, krec, kills,
                 boots>>

(* failExec: applyStatus(FAILED, 126), then Remove if there is an entry.   *)
FailExec(p) ==
  /\ lpc[p] = "failing"
  /\ Start(<<"launch", p>>, p, "notStarted", "remove")
  /\ lpc' = [lpc EXCEPT ![p] = "undo"]
  /\ UNCHANGED <<netVars, wVars, connVars, row, entry, seen, lconn, kpc, krec,
                 kills, boots>>

-----------------------------------------------------------------------------
(* killProcess: the request is committed to the row ...                    *)
KillRequest(p) ==
  /\ kpc[p] = "none" /\ Active(p)
  /\ "kill" \in Windows \/ \A c \in Conns : sync[c].at # "on"
  /\ row' = [row EXCEPT ![p].kill = TRUE]
  /\ krec' = [krec EXCEPT ![p] = row[p].status]
  /\ kpc' = [kpc EXCEPT ![p] = "committed"]
  /\ UNCHANGED <<netVars, wVars, connVars, entry, seen, jobs, lpc, lconn, kills,
                 boots>>

(* ... and sent after the commit, if there is an entry; its record becomes *)
(* the row the request returned.                                           *)
SendKill(p) ==
  /\ kpc[p] = "committed"
  /\ kpc' = [kpc EXCEPT ![p] = "sent"]
  /\ IF entry[p].conn # 0
     THEN /\ entry' = [entry EXCEPT ![p].status = krec[p]]
          /\ kills' = kills \cup {<<p, entry[p].conn>>}
     ELSE UNCHANGED <<entry, kills>>
  /\ UNCHANGED <<netVars, wVars, connVars, row, seen, jobs, lpc, lconn, krec,
                 boots>>

-----------------------------------------------------------------------------
(* The supervisor stops and starts again: memory is empty, browsers read   *)
(* the rows anew.                                                          *)
SupervisorRestarts ==
  /\ boots < MaxBoot /\ crashes + boots < MaxRestart
  /\ Quiet /\ \A c \in Conns : Settled(c)
  /\ boots' = boots + 1
  /\ link' = [c \in Conns |-> IF link[c] = "up" THEN "down" ELSE link[c]]
  /\ up' = [c \in Conns |-> <<>>]
  /\ edits' = {}
  /\ registry' = 0
  /\ auth' = [c \in Conns |-> FALSE]
  /\ srv' = [c \in Conns |-> IF srv[c] = "unused" THEN "unused" ELSE "closed"]
  /\ reg' = [c \in Conns |-> IF reg[c] = "asked" THEN "done" ELSE reg[c]]
  /\ pend' = [c \in Conns |-> {}]
  /\ sync' = [c \in Conns |-> NoSync]
  /\ unreg' = {}
  /\ jobs' = {}
  /\ entry' = [p \in Procs |-> NoEntry]
  /\ seen' = [p \in Procs |-> row[p].status]
  /\ lpc' = [p \in Procs |-> IF lpc[p] = "none" THEN "none" ELSE "done"]
  /\ kpc' = [p \in Procs |-> IF kpc[p] = "none" THEN "none" ELSE "sent"]
  /\ UNCHANGED <<wup, wconn, ready, session, wp, holder, outcome, signalled,
                 crashes, row, lconn, krec, kills>>

SupervisorNext ==
  \/ \E j \in jobs : ApplyStatus(j)
  \/ \E c \in Conns :
       \/ BindRegister(c) \/ FinishRegister(c)
       \/ ServeEnds(c) \/ Unregister(c) \/ ListActive(c) \/ CloseConn(c)
       \/ Sync(c) \/ SyncEnd(c)
       \/ \E p \in Procs :
            \/ Pend(c, p) \/ SyncLost(c, p) \/ SyncRebind(c, p) \/ EditResult(p, c)
            \/ \E kind \in {"PROCESS", "own", "lost"} : Status(c, p, kind)
  \/ \E p \in Procs : \/ LaunchRegister(p) \/ LaunchCall(p) \/ LaunchDone(p)
                      \/ LaunchFails(p) \/ FailExec(p)
                      \/ KillRequest(p) \/ SendKill(p)
  \/ SupervisorRestarts
=============================================================================
