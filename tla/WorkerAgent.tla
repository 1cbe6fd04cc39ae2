---------------------------- MODULE WorkerAgent -----------------------------
(***************************************************************************)
(* cmd/worker: the connection loop, REGISTER and MsgSync, MsgExec and      *)
(* MsgKill, the forward goroutine of each process, restarts and Recover;   *)
(* and internal/execute/hold as far as the worker sees it.                 *)
(***************************************************************************)
EXTENDS ProcessState

(* state.procs: the processes the worker is attached to.                   *)
Attached == {"attached", "running", "finishing", "reported"}
procs == {p \in Procs : wp[p] \in Attached}

(* Mutants of the operators below.                                         *)
OnlyRunning == {p \in Procs : wp[p] = "running"}
NeverStored(c) == ready
RawStatus(p) == holder[p]
OnlyEnded(p) == IF holder[p] = "exited" THEN "finishing" ELSE "over"
AlwaysOwn(p) == "own"
CurrentConn == wconn

(* A frame written to connection c: lost when it is broken or nil.         *)
Emit(c, kind, S) ==
  up' = IF c # 0 /\ link[c] = "up"
        THEN [up EXCEPT ![c] = Append(@, [kind |-> kind, procs |-> S])]
        ELSE up

-----------------------------------------------------------------------------
(* Connections.                                                            *)

(* Dial is called when the session before has ended (connectRound).        *)
Idle == \A c \in Conns : ~session[c]

(* NewWorkerRouter: the connection is state.conn before anything is        *)
(* received on it; its register goroutine sends REGISTER.                  *)
Dial(c) ==
  /\ wup /\ Idle
  /\ link[c] = "unused"
  /\ \A d \in Conns : d < c => link[d] # "unused"
  /\ link' = [link EXCEPT ![c] = "up"]
  /\ wconn' = c
  /\ session' = [session EXCEPT ![c] = TRUE]
  /\ reg' = [reg EXCEPT ![c] = "asked"]
  /\ srv' = [srv EXCEPT ![c] = "serving"]
  /\ UNCHANGED <<up, edits, wup, ready, wp, holder, outcome, signalled, crashes,
                 registry, auth, pend, sync, unreg, recVars, reqVars, boots>>

(* The session of c ends: Serve returned, or REGISTER failed (finish).     *)
EndSession(c) ==
  /\ session[c]
  /\ link[c] = "down" \/ reg[c] = "refused"
  /\ session' = [session EXCEPT ![c] = FALSE]
  /\ ready' = IF ready = c THEN 0 ELSE ready
  /\ link' = [link EXCEPT ![c] = "down"]
  /\ UNCHANGED <<up, edits, wup, wconn, reg, wp, holder, outcome, signalled,
                 crashes, supVars>>

(* The processes sendSync reports: all it is attached to.                  *)
Reported == procs

(* register, the answer in hand: sendSync.                                 *)
SendSync(c) ==
  /\ wup /\ reg[c] = "answered"
  /\ Emit(c, "sync", Reported)
  /\ reg' = [reg EXCEPT ![c] = "synced"]
  /\ UNCHANGED <<link, edits, wup, wconn, ready, session, wp, holder, outcome,
                 signalled, crashes, supVars>>

(* register, after sendSync: ready.Store.                                  *)
NewReady(c) == c

StoreReady(c) ==
  /\ wup /\ reg[c] = "synced"
  /\ session[c] \/ "stale" \in Windows
  /\ ready' = NewReady(c)
  /\ reg' = [reg EXCEPT ![c] = "done"]
  /\ UNCHANGED <<netVars, wup, wconn, session, wp, holder, outcome, signalled,
                 crashes, supVars>>

-----------------------------------------------------------------------------
(* Processes.                                                              *)

(* exec: hold.Spawn starts the holder, or the request is refused.          *)
ExecSpawn(p) ==
  /\ wup /\ wp[p] = "asked" /\ session[lconn[p]]
  /\ \/ /\ wp' = [wp EXCEPT ![p] = "spawning"]
        /\ holder' = [holder EXCEPT ![p] = "running"]
     \/ /\ wp' = [wp EXCEPT ![p] = "rejected"]
        /\ UNCHANGED holder
  /\ UNCHANGED <<netVars, wup, wconn, ready, session, reg, outcome, signalled,
                 crashes, supVars>>

(* hold.Dial: the hello tells whether the process has ended already.       *)
AfterHello(p) == IF holder[p] = "exited" THEN "finishing" ELSE "attached"
LearntByHello(p) == IF holder[p] = "exited" THEN "own" ELSE outcome[p]

(* exec: attached, in procs and in the sqlite list, forward started.  A    *)
(* holder that cannot be dialled is killed and the request refused.        *)
ExecAdmit(p) ==
  /\ wup /\ wp[p] = "spawning"
  /\ \/ /\ holder[p] \in {"running", "exited"}
        /\ wp' = [wp EXCEPT ![p] = AfterHello(p)]
        /\ outcome' = [outcome EXCEPT ![p] = LearntByHello(p)]
        /\ UNCHANGED holder
     \/ /\ wp' = [wp EXCEPT ![p] = "rejected"]
        /\ holder' = [holder EXCEPT ![p] = IF @ = "exited" THEN "expired"
                                                          ELSE "gone"]
        /\ UNCHANGED outcome
  /\ UNCHANGED <<netVars, wup, wconn, ready, session, reg, signalled, crashes,
                 supVars>>

(* forward: the holder says the process runs.                              *)
ForwardProcess(p) ==
  /\ wup /\ wp[p] = "attached"
  /\ Emit(wconn, "PROCESS", {p})
  /\ wp' = [wp EXCEPT ![p] = "running"]
  /\ UNCHANGED <<link, edits, wup, wconn, ready, session, reg, holder, outcome,
                 signalled, crashes, supVars>>

(* What forward learns of the end: the exit code, or that the connection   *)
(* to the holder broke.                                                    *)
LearntExit(p) == IF holder[p] = "exited" THEN "own" ELSE "lost"

(* forward: the holder's final status (in its hello or an event), or its   *)
(* connection closed.                                                      *)
ForwardExit(p) ==
  /\ wup /\ wp[p] \in {"attached", "running"}
  /\ holder[p] \in {"exited", "gone"}
  /\ outcome' = [outcome EXCEPT ![p] = LearntExit(p)]
  /\ wp' = [wp EXCEPT ![p] = "finishing"]
  /\ UNCHANGED <<netVars, wup, wconn, ready, session, reg, holder, signalled,
                 crashes, supVars>>

(* The holder could not write for 5 s, the worker being blocked on its own *)
(* connection: it drops the worker (sendLocked) and runs on; forward takes *)
(* this for the end of the holder.                                         *)
PeerCut(p) ==
  /\ "cut" \in Windows
  /\ wup /\ wp[p] \in {"attached", "running"}
  /\ holder[p] \in {"running", "exited"}
  /\ outcome' = [outcome EXCEPT ![p] = "lost"]
  /\ wp' = [wp EXCEPT ![p] = "finishing"]
  /\ UNCHANGED <<netVars, wup, wconn, ready, session, reg, holder, signalled,
                 crashes, supVars>>

(* The connection finish reports on (waitReady), 0 while there is none.    *)
ReportConn == ready

(* finish: the exit status, and for an EDIT the read-back request.         *)
Finish(p) ==
  /\ wup /\ wp[p] = "finishing"
  /\ ReportConn # 0
  /\ link[ReportConn] = "up" \/ "lost" \in Windows \/ ~session[ReportConn]
  /\ Emit(ReportConn, outcome[p], {p})
  /\ \/ UNCHANGED edits
     \/ /\ p \in Edits /\ link[ReportConn] = "up"
        /\ edits' = edits \cup {<<p, ReportConn>>}
  /\ wp' = [wp EXCEPT ![p] = "reported"]
  /\ UNCHANGED <<link, wup, wconn, ready, session, reg, holder, outcome,
                 signalled, crashes, supVars>>

(* finish, the rest: out of procs and of the list, the holder released if  *)
(* its connection still stands.                                            *)
Released(p) ==
  IF holder[p] = "exited" /\ outcome[p] = "own" THEN "released" ELSE holder[p]

Forget(p) ==
  /\ wup /\ wp[p] = "reported"
  /\ wp' = [wp EXCEPT ![p] = "over"]
  /\ holder' = [holder EXCEPT ![p] = Released(p)]
  /\ UNCHANGED <<netVars, wup, wconn, ready, session, reg, outcome, signalled,
                 crashes, supVars>>

(* kill: MsgKill for a process in procs, over its connection to the holder *)
(* while that stands; the holder ignores it once the process is done.      *)
Kill(p, c) ==
  /\ wup /\ <<p, c>> \in kills /\ session[c]
  /\ wp[p] \in {"attached", "running"} /\ p \notin signalled
  /\ holder[p] = "running"
  /\ signalled' = signalled \cup {p}
  /\ UNCHANGED <<netVars, wup, wconn, ready, session, reg, wp, holder, outcome,
                 crashes, supVars>>

-----------------------------------------------------------------------------
(* The hold process: the process in it ends, it dies itself, or the result *)
(* is not fetched within DoneWait.                                         *)

Exit(p) ==
  /\ holder[p] = "running"
  /\ holder' = [holder EXCEPT ![p] = "exited"]
  /\ UNCHANGED <<netVars, wup, wconn, ready, session, reg, wp, outcome,
                 signalled, crashes, supVars>>

HolderDies(p) ==
  /\ holder[p] = "running"
  /\ holder' = [holder EXCEPT ![p] = "gone"]
  /\ UNCHANGED <<netVars, wup, wconn, ready, session, reg, wp, outcome,
                 signalled, crashes, supVars>>

DoneWait(p) ==
  /\ holder[p] = "exited"
  /\ wp[p] \in {"held", "orphan", "finishing", "reported", "over"}
  /\ holder' = [holder EXCEPT ![p] = "expired"]
  /\ UNCHANGED <<netVars, wup, wconn, ready, session, reg, wp, outcome,
                 signalled, crashes, supVars>>

-----------------------------------------------------------------------------
(* Restarts.                                                               *)

(* What is left of p when the worker stops: a holder that is on the sqlite *)
(* list, one that is not yet, or nothing.                                  *)
AfterStop(p) == CASE wp[p] \in Attached -> "held"
                  [] wp[p] = "spawning" -> "orphan"
                  [] wp[p] = "asked"    -> "none"
                  [] OTHER              -> wp[p]

WorkerStops ==
  /\ wup /\ crashes < MaxCrash /\ crashes + boots < MaxRestart
  /\ \A c \in Conns : Settled(c)
  /\ wup' = FALSE
  /\ crashes' = crashes + 1
  /\ link' = [c \in Conns |-> IF link[c] = "up" THEN "down" ELSE link[c]]
  /\ wconn' = 0
  /\ ready' = 0
  /\ session' = [c \in Conns |-> FALSE]
  /\ reg' = [c \in Conns |-> IF reg[c] \in {"answered", "synced"}
                             THEN "done" ELSE reg[c]]
  /\ wp' = [p \in Procs |-> AfterStop(p)]
  /\ UNCHANGED <<up, edits, holder, outcome, signalled, supVars>>

(* Recover: every process of the sqlite list whose holder can be dialled.  *)
Recovered(p) ==
  IF holder[p] \in {"running", "exited"} THEN AfterHello(p) ELSE "over"

WorkerStarts ==
  /\ ~wup
  /\ wup' = TRUE
  /\ wp' = [p \in Procs |-> IF wp[p] = "held" THEN Recovered(p) ELSE wp[p]]
  /\ outcome' = [p \in Procs |->
                   IF wp[p] = "held" THEN LearntByHello(p) ELSE outcome[p]]
  /\ UNCHANGED <<netVars, wconn, ready, session, reg, holder, signalled, crashes,
                 supVars>>

-----------------------------------------------------------------------------
(* A connection breaks.  What was sent may be lost from some point on.     *)
Break(c) ==
  /\ link[c] = "up"
  /\ Settled(c)
  /\ link' = [link EXCEPT ![c] = "down"]
  /\ \/ UNCHANGED <<up, edits>>
     \/ /\ "lost" \in Windows
        /\ \E n \in 0 .. Len(up[c]) : up' = [up EXCEPT ![c] = SubSeq(@, 1, n)]
        /\ edits' = {e \in edits : e[2] # c}
  /\ UNCHANGED <<wVars, supVars>>

WorkerNext ==
  \/ \E c \in Conns : Dial(c) \/ EndSession(c) \/ SendSync(c) \/ StoreReady(c)
                      \/ Break(c)
  \/ \E p \in Procs :
       \/ ExecSpawn(p) \/ ExecAdmit(p) \/ ForwardProcess(p) \/ ForwardExit(p)
       \/ PeerCut(p) \/ Finish(p) \/ Forget(p) \/ Exit(p) \/ HolderDies(p) \/ DoneWait(p)
       \/ \E c \in Conns : Kill(p, c)
  \/ WorkerStops \/ WorkerStarts
=============================================================================
