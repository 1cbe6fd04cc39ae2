----------------------- MODULE ProcessLifecycleProofs ------------------------
(***************************************************************************)
(* For every set of processes, every bound and every choice of races: the  *)
(* types, that a recorded exit code is the one of a process that returned, *)
(* and that an exit is never sent ahead of the sync of its connection.     *)
(***************************************************************************)
EXTENDS ProcessLifecycle, SequenceTheorems, TLAPS

(* forward reports an exit only once it has learnt one.                    *)
Finishing ==
  \A p \in Procs : wp[p] \in {"finishing", "reported"} => outcome[p] # "none"

(* The kill after a rebind goes to the connection just bound.              *)
KillJobs == \A j \in jobs : j.then = "kill" => j.conn # 0

(* Lemmas on types.                                                        *)

Rows == [status : Statuses, kill : BOOLEAN]
Entries == [conn : 0 .. MaxConn, status : Statuses, open : BOOLEAN]
Syncs == [at : {"no", "on", "done"}, todo : SUBSET Procs, has : SUBSET Procs,
          listed : SUBSET Procs, kill : SUBSET Procs]

(* An update of a field of a row, an entry or a sync keeps its type.       *)
LEMMA FieldTypes ==
  /\ \A r \in Rows, s \in Statuses, k \in BOOLEAN :
       [r EXCEPT !.status = s] \in Rows /\ [r EXCEPT !.kill = k] \in Rows
  /\ \A e \in Entries, s \in Statuses, k \in BOOLEAN :
       /\ [e EXCEPT !.status = s] \in Entries
       /\ [e EXCEPT !.status = s, !.open = k] \in Entries
  /\ \A y \in Syncs, S \in SUBSET Procs : [y EXCEPT !.todo = S] \in Syncs
  /\ NoEntry \in Entries
  /\ NoSync \in Syncs
<1>1. \A r \in Rows, s \in Statuses, k \in BOOLEAN :
       [r EXCEPT !.status = s] \in Rows /\ [r EXCEPT !.kill = k] \in Rows
  BY DEF Rows
<1>2. \A e \in Entries, s \in Statuses, k \in BOOLEAN :
       /\ [e EXCEPT !.status = s] \in Entries
       /\ [e EXCEPT !.status = s, !.open = k] \in Entries
  BY DEF Entries
<1>3. \A y \in Syncs, S \in SUBSET Procs : [y EXCEPT !.todo = S] \in Syncs
  BY DEF Syncs
<1>4. NoEntry \in Entries
  BY BoundsAssumption DEF NoEntry, Entries, Statuses
<1>5. NoSync \in Syncs
  BY DEF NoSync, Syncs
<1> QED
  BY <1>1, <1>2, <1>3, <1>4, <1>5

(* The statuses named in the code are statuses.                            *)
LEMMA StatusTypes ==
  {"none", "PENDING", "PROCESS", "own", "notStarted", "lost"} \subseteq Statuses
  BY DEF Statuses, Exits

(* Emit appends a frame.                                                   *)
LEMMA EmitType ==
  ASSUME NetOK, NEW c \in 0 .. MaxConn,
         NEW kind \in {"sync", "PROCESS", "own", "lost"},
         NEW S \in SUBSET Procs, Emit(c, kind, S)
  PROVE  up' \in [Conns -> Seq(Frames)]
<1> DEFINE f == [kind |-> kind, procs |-> S]
<1>1. f \in Frames
  BY DEF Frames
<1>2. CASE c # 0 /\ link[c] = "up"
  <2>1. c \in Conns
    BY <1>2, BoundsAssumption DEF Conns
  <2>2. Append(up[c], f) \in Seq(Frames)
    BY <1>1, <2>1 DEF NetOK
  <2> QED
    BY <1>2, <2>1, <2>2 DEF Emit, NetOK
<1>3. CASE ~(c # 0 /\ link[c] = "up")
  BY <1>3 DEF Emit, NetOK
<1> QED
  BY <1>2, <1>3

(* A break or a close keeps a prefix of the events.                        *)
LEMMA PrefixType ==
  ASSUME NetOK, NEW c \in Conns, NEW n \in 0 .. Len(up[c])
  PROVE  [up EXCEPT ![c] = SubSeq(@, 1, n)] \in [Conns -> Seq(Frames)]
<1>1. SubSeq(up[c], 1, n) \in Seq(Frames)
  BY DEF NetOK
<1> QED
  BY <1>1 DEF NetOK

(* Take removes a frame.                                                   *)
LEMMA TakeType ==
  ASSUME NetOK, NEW c \in Conns, NEW kind, Take(c, kind)
  PROVE  /\ up' \in [Conns -> Seq(Frames)]
         /\ Head(up[c]) \in Frames
<1>1. up[c] \in Seq(Frames) /\ up[c] # <<>>
  BY DEF NetOK, Take
<1>2. Head(up[c]) \in Frames /\ Tail(up[c]) \in Seq(Frames)
  BY <1>1
<1> QED
  BY <1>2 DEF NetOK, Take

(* Start adds a job.                                                       *)
LEMMA StartType ==
  ASSUME RecOK, NEW t \in Threads, NEW p \in Procs, NEW s \in Statuses,
         NEW then \in {"none", "publish", "kill", "remove"}, Start(t, p, s, then)
  PROVE  jobs' \subseteq Jobs
<1> DEFINE j == [by |-> t, p |-> p, status |-> s, conn |-> entry[p].conn,
                 live |-> ~Ignored(p, s), then |-> then]
<1>1. Ignored(p, s) \in BOOLEAN
  BY DEF Ignored
<1>2. j \in Jobs
  BY <1>1 DEF RecOK, Jobs
<1> QED
  BY <1>2 DEF RecOK, Start

(* What a step leaves alone keeps its type.                                *)
LEMMA KeptOK ==
  ASSUME TypeOK
  PROVE  /\ UNCHANGED netVars => NetOK'
         /\ UNCHANGED wVars => WorkerOK'
         /\ UNCHANGED connVars => ConnOK'
         /\ UNCHANGED recVars => RecOK'
         /\ UNCHANGED <<reqVars, boots>> => ReqOK'
<1>1. UNCHANGED netVars => NetOK'
  BY DEF TypeOK, NetOK, netVars
<1>2. UNCHANGED wVars => WorkerOK'
  BY DEF TypeOK, WorkerOK, wVars
<1>3. UNCHANGED connVars => ConnOK'
  BY DEF TypeOK, ConnOK, connVars
<1>4. UNCHANGED recVars => RecOK'
  BY DEF TypeOK, RecOK, recVars
<1>5. UNCHANGED <<reqVars, boots>> => ReqOK'
  BY DEF TypeOK, ReqOK, reqVars
<1> QED
  BY <1>1, <1>2, <1>3, <1>4, <1>5

(* Every step keeps the types.                                             *)
LEMMA TypeStep == TypeOK /\ KillJobs /\ Finishing /\ [Next]_vars => TypeOK'
<1> SUFFICES ASSUME TypeOK, KillJobs, Finishing, [Next]_vars PROVE TypeOK'
  OBVIOUS
<1>a. NetOK /\ WorkerOK /\ ConnOK /\ RecOK /\ ReqOK
  BY DEF TypeOK
<1> USE <1>a, BoundsAssumption
<1>1. ASSUME NEW c \in Conns, Dial(c) PROVE TypeOK'
  <2>1. NetOK'
    BY <1>1 DEF NetOK, Dial
  <2>2. WorkerOK'
    BY <1>1 DEF WorkerOK, Dial, Conns
  <2>3. ConnOK'
    BY <1>1 DEF ConnOK, Dial
  <2>4. UNCHANGED <<recVars, reqVars, boots>>
    BY <1>1 DEF Dial, recVars, reqVars, supVars
  <2> QED
    BY <2>1, <2>2, <2>3, <2>4, KeptOK DEF TypeOK
<1>2. ASSUME NEW c \in Conns, EndSession(c) PROVE TypeOK'
  <2>1. NetOK'
    BY <1>2 DEF NetOK, EndSession
  <2>2. WorkerOK'
    BY <1>2 DEF WorkerOK, EndSession
  <2>3. UNCHANGED <<connVars, recVars, reqVars, boots>>
    BY <1>2 DEF EndSession, connVars, recVars, reqVars, supVars
  <2> QED
    BY <2>1, <2>2, <2>3, KeptOK DEF TypeOK
<1>3. ASSUME NEW c \in Conns, SendSync(c) PROVE TypeOK'
  <2>1. NetOK'
    BY <1>3, EmitType DEF NetOK, SendSync, Reported, procs, Conns
  <2>2. WorkerOK'
    BY <1>3 DEF WorkerOK, SendSync
  <2>3. UNCHANGED <<connVars, recVars, reqVars, boots>>
    BY <1>3 DEF SendSync, connVars, recVars, reqVars, supVars
  <2> QED
    BY <2>1, <2>2, <2>3, KeptOK DEF TypeOK
<1>4. ASSUME NEW c \in Conns, StoreReady(c) PROVE TypeOK'
  <2>1. WorkerOK'
    BY <1>4 DEF WorkerOK, StoreReady, NewReady, Conns
  <2>2. UNCHANGED <<netVars, connVars, recVars, reqVars, boots>>
    BY <1>4 DEF StoreReady, netVars, connVars, recVars, reqVars, supVars
  <2> QED
    BY <2>1, <2>2, KeptOK DEF TypeOK
<1>5. ASSUME NEW c \in Conns, Break(c) PROVE TypeOK'
  <2>1. NetOK'
    <3>1. up' \in [Conns -> Seq(Frames)]
      <4>1. CASE up' = up
        BY <4>1 DEF NetOK
      <4>2. CASE \E n \in 0 .. Len(up[c]) : up' = [up EXCEPT ![c] = SubSeq(@, 1, n)]
        BY <4>2, PrefixType
      <4> QED
        BY <1>5, <4>1, <4>2 DEF Break
    <3>2. link' \in [Conns -> {"unused", "up", "down"}] /\ edits' \subseteq Edits \X Conns
      BY <1>5 DEF Break, NetOK
    <3> QED
      BY <3>1, <3>2 DEF NetOK
  <2>2. UNCHANGED <<wVars, connVars, recVars, reqVars, boots>>
    BY <1>5 DEF Break, wVars, connVars, recVars, reqVars, supVars
  <2> QED
    BY <2>1, <2>2, KeptOK DEF TypeOK
<1>6. ASSUME NEW p \in Procs, ExecSpawn(p) PROVE TypeOK'
  <2>1. WorkerOK'
    BY <1>6 DEF WorkerOK, ExecSpawn
  <2>2. UNCHANGED <<netVars, connVars, recVars, reqVars, boots>>
    BY <1>6 DEF ExecSpawn, netVars, connVars, recVars, reqVars, supVars
  <2> QED
    BY <2>1, <2>2, KeptOK DEF TypeOK
<1>7. ASSUME NEW p \in Procs, ExecAdmit(p) PROVE TypeOK'
  <2>1. WorkerOK'
    BY <1>7 DEF WorkerOK, ExecAdmit, AfterHello, LearntByHello
  <2>2. UNCHANGED <<netVars, connVars, recVars, reqVars, boots>>
    BY <1>7 DEF ExecAdmit, netVars, connVars, recVars, reqVars, supVars
  <2> QED
    BY <2>1, <2>2, KeptOK DEF TypeOK
<1>8. ASSUME NEW p \in Procs, ForwardProcess(p) PROVE TypeOK'
  <2>1. NetOK'
    BY <1>8, EmitType DEF NetOK, ForwardProcess, WorkerOK
  <2>2. WorkerOK'
    BY <1>8 DEF WorkerOK, ForwardProcess
  <2>3. UNCHANGED <<connVars, recVars, reqVars, boots>>
    BY <1>8 DEF ForwardProcess, connVars, recVars, reqVars, supVars
  <2> QED
    BY <2>1, <2>2, <2>3, KeptOK DEF TypeOK
<1>9. ASSUME NEW p \in Procs, ForwardExit(p) PROVE TypeOK'
  <2>1. WorkerOK'
    BY <1>9 DEF WorkerOK, ForwardExit, LearntExit
  <2>2. UNCHANGED <<netVars, connVars, recVars, reqVars, boots>>
    BY <1>9 DEF ForwardExit, netVars, connVars, recVars, reqVars, supVars
  <2> QED
    BY <2>1, <2>2, KeptOK DEF TypeOK
<1>9a. ASSUME NEW p \in Procs, PeerCut(p) PROVE TypeOK'
  <2>1. WorkerOK'
    BY <1>9a DEF WorkerOK, PeerCut
  <2>2. UNCHANGED <<netVars, connVars, recVars, reqVars, boots>>
    BY <1>9a DEF PeerCut, netVars, connVars, recVars, reqVars, supVars
  <2> QED
    BY <2>1, <2>2, KeptOK DEF TypeOK
<1>10. ASSUME NEW p \in Procs, Finish(p) PROVE TypeOK'
  <2>1. NetOK'
    <3>1. outcome[p] \in {"own", "lost"}
      BY <1>10 DEF Finish, Finishing, WorkerOK
    <3>2. ReportConn \in Conns
      BY <1>10 DEF Finish, ReportConn, WorkerOK, Conns
    <3>3. up' \in [Conns -> Seq(Frames)]
      BY <1>10, <3>1, <3>2, EmitType DEF Finish, Conns
    <3>4. edits' \subseteq Edits \X Conns
      BY <1>10, <3>2 DEF Finish, NetOK
    <3> QED
      BY <1>10, <3>3, <3>4 DEF Finish, NetOK
  <2>2. WorkerOK'
    BY <1>10 DEF WorkerOK, Finish
  <2>3. UNCHANGED <<connVars, recVars, reqVars, boots>>
    BY <1>10 DEF Finish, connVars, recVars, reqVars, supVars
  <2> QED
    BY <2>1, <2>2, <2>3, KeptOK DEF TypeOK
<1>11. ASSUME NEW p \in Procs, Forget(p) PROVE TypeOK'
  <2>1. WorkerOK'
    BY <1>11 DEF WorkerOK, Forget, Released
  <2>2. UNCHANGED <<netVars, connVars, recVars, reqVars, boots>>
    BY <1>11 DEF Forget, netVars, connVars, recVars, reqVars, supVars
  <2> QED
    BY <2>1, <2>2, KeptOK DEF TypeOK
<1>12. ASSUME NEW p \in Procs, Exit(p) PROVE TypeOK'
  <2>1. WorkerOK'
    BY <1>12 DEF WorkerOK, Exit
  <2>2. UNCHANGED <<netVars, connVars, recVars, reqVars, boots>>
    BY <1>12 DEF Exit, netVars, connVars, recVars, reqVars, supVars
  <2> QED
    BY <2>1, <2>2, KeptOK DEF TypeOK
<1>13. ASSUME NEW p \in Procs, HolderDies(p) PROVE TypeOK'
  <2>1. WorkerOK'
    BY <1>13 DEF WorkerOK, HolderDies
  <2>2. UNCHANGED <<netVars, connVars, recVars, reqVars, boots>>
    BY <1>13 DEF HolderDies, netVars, connVars, recVars, reqVars, supVars
  <2> QED
    BY <2>1, <2>2, KeptOK DEF TypeOK
<1>14. ASSUME NEW p \in Procs, DoneWait(p) PROVE TypeOK'
  <2>1. WorkerOK'
    BY <1>14 DEF WorkerOK, DoneWait
  <2>2. UNCHANGED <<netVars, connVars, recVars, reqVars, boots>>
    BY <1>14 DEF DoneWait, netVars, connVars, recVars, reqVars, supVars
  <2> QED
    BY <2>1, <2>2, KeptOK DEF TypeOK
<1>15. ASSUME NEW p \in Procs, NEW c \in Conns, Kill(p, c) PROVE TypeOK'
  <2>1. WorkerOK'
    BY <1>15 DEF WorkerOK, Kill
  <2>2. UNCHANGED <<netVars, connVars, recVars, reqVars, boots>>
    BY <1>15 DEF Kill, netVars, connVars, recVars, reqVars, supVars
  <2> QED
    BY <2>1, <2>2, KeptOK DEF TypeOK
<1>16. ASSUME WorkerStops PROVE TypeOK'
  <2>1. NetOK'
    BY <1>16 DEF NetOK, WorkerStops
  <2>2. WorkerOK'
    <3>1. \A p \in Procs : AfterStop(p) \in {"held", "orphan", "none", wp[p]}
      BY DEF AfterStop
    <3>2. wp' \in [Procs -> {"none", "asked", "rejected", "spawning", "attached",
                            "running", "finishing", "reported", "held",
                            "orphan", "over"}]
      BY <1>16, <3>1 DEF WorkerStops, WorkerOK
    <3>3. reg' \in [Conns -> {"none", "asked", "answered", "refused", "synced",
                             "done"}]
      BY <1>16 DEF WorkerStops, WorkerOK
    <3>4. /\ wconn' \in 0 .. MaxConn
          /\ ready' \in 0 .. MaxConn
      BY <1>16 DEF WorkerStops, WorkerOK
    <3>5. crashes' \in 0 .. MaxCrash
      BY <1>16 DEF WorkerStops, WorkerOK
    <3>6. wup' \in BOOLEAN /\ session' \in [Conns -> BOOLEAN]
      BY <1>16 DEF WorkerStops
    <3> QED
      BY <1>16, <3>2, <3>3, <3>4, <3>5, <3>6 DEF WorkerStops, WorkerOK
  <2>3. UNCHANGED <<connVars, recVars, reqVars, boots>>
    BY <1>16 DEF WorkerStops, connVars, recVars, reqVars, supVars
  <2> QED
    BY <2>1, <2>2, <2>3, KeptOK DEF TypeOK
<1>17. ASSUME WorkerStarts PROVE TypeOK'
  <2>1. WorkerOK'
    BY <1>17 DEF WorkerOK, WorkerStarts, Recovered, AfterHello, LearntByHello
  <2>2. UNCHANGED <<netVars, connVars, recVars, reqVars, boots>>
    BY <1>17 DEF WorkerStarts, netVars, connVars, recVars, reqVars, supVars
  <2> QED
    BY <2>1, <2>2, KeptOK DEF TypeOK
<1>18. ASSUME NEW j \in jobs, ApplyStatus(j) PROVE TypeOK'
  <2>1. RecOK'
    <3>1. j.p \in Procs /\ j.status \in Statuses
      BY DEF RecOK, Jobs
    <3>2. entry[j.p] \in Entries /\ row[j.p] \in Rows
      BY <3>1 DEF RecOK, Entries, Rows
    <3>3. EntryAfter(j) \in Entries
      BY <3>1, <3>2, FieldTypes, StatusTypes DEF EntryAfter
    <3>4. SeenAfter(j) \in Statuses
      BY <3>1, StatusTypes DEF SeenAfter, RecOK
    <3>5. Marked(j) \in Rows
      BY <3>1, <3>2, FieldTypes DEF Marked
    <3>6. row' \in [Procs -> Rows]
      BY <1>18, <3>1, <3>5 DEF ApplyStatus, RecOK, Rows
    <3>7. entry' \in [Procs -> Entries]
      BY <1>18, <3>1, <3>3, FieldTypes DEF ApplyStatus, RecOK, Entries
    <3>8. seen' \in [Procs -> Statuses]
      BY <1>18, <3>1, <3>4, StatusTypes DEF ApplyStatus, RecOK
    <3>9. jobs' \subseteq Jobs
      BY <1>18 DEF ApplyStatus, RecOK
    <3> QED
      BY <3>6, <3>7, <3>8, <3>9 DEF RecOK, Rows, Entries
  <2>2. ReqOK'
    BY <1>18 DEF ReqOK, ApplyStatus, Conns, KillJobs, RecOK, Jobs
  <2>3. UNCHANGED <<netVars, wVars, connVars>>
    BY <1>18 DEF ApplyStatus, netVars, wVars, connVars, supVars
  <2> QED
    BY <2>1, <2>2, <2>3, KeptOK DEF TypeOK
<1>19. ASSUME NEW c \in Conns, BindRegister(c) PROVE TypeOK'
  <2>1. ConnOK'
    BY <1>19 DEF ConnOK, BindRegister
  <2>2. UNCHANGED <<netVars, wVars, recVars, reqVars, boots>>
    BY <1>19 DEF BindRegister, netVars, wVars, recVars, reqVars, supVars
  <2> QED
    BY <2>1, <2>2, KeptOK DEF TypeOK
<1>20. ASSUME NEW c \in Conns, FinishRegister(c) PROVE TypeOK'
  <2>1. WorkerOK'
    BY <1>20 DEF WorkerOK, FinishRegister
  <2>2. ConnOK'
    <3>1. registry' \in 0 .. MaxConn
      BY <1>20 DEF FinishRegister, ConnOK, Conns
    <3>2. auth' \in [Conns -> BOOLEAN]
      BY <1>20 DEF FinishRegister, ConnOK
    <3> QED
      BY <1>20, <3>1, <3>2 DEF FinishRegister, ConnOK
  <2>3. UNCHANGED <<netVars, recVars, reqVars, boots>>
    BY <1>20 DEF FinishRegister, netVars, recVars, reqVars, supVars
  <2> QED
    BY <2>1, <2>2, <2>3, KeptOK DEF TypeOK
<1>21. ASSUME NEW c \in Conns, ServeEnds(c) PROVE TypeOK'
  <2>1. ConnOK'
    BY <1>21 DEF ConnOK, ServeEnds
  <2>2. UNCHANGED <<netVars, wVars, recVars, reqVars, boots>>
    BY <1>21 DEF ServeEnds, netVars, wVars, recVars, reqVars, supVars
  <2> QED
    BY <2>1, <2>2, KeptOK DEF TypeOK
<1>22. ASSUME NEW c \in Conns, Unregister(c) PROVE TypeOK'
  <2>1. ConnOK'
    BY <1>22 DEF ConnOK, Unregister, AfterRemove
  <2>2. UNCHANGED <<netVars, wVars, recVars, reqVars, boots>>
    BY <1>22 DEF Unregister, netVars, wVars, recVars, reqVars, supVars
  <2> QED
    BY <2>1, <2>2, KeptOK DEF TypeOK
<1>23. ASSUME NEW c \in Conns, ListActive(c) PROVE TypeOK'
  <2>1. ConnOK'
    BY <1>23 DEF ConnOK, ListActive
  <2>2. UNCHANGED <<netVars, wVars, recVars, reqVars, boots>>
    BY <1>23 DEF ListActive, netVars, wVars, recVars, reqVars, supVars
  <2> QED
    BY <2>1, <2>2, KeptOK DEF TypeOK
<1>24. ASSUME NEW c \in Conns, CloseConn(c) PROVE TypeOK'
  <2>1. NetOK'
    BY <1>24, PrefixType DEF NetOK, CloseConn
  <2>2. ConnOK'
    BY <1>24 DEF ConnOK, CloseConn
  <2>3. UNCHANGED <<wVars, recVars, reqVars, boots>>
    BY <1>24 DEF CloseConn, wVars, recVars, reqVars, supVars
  <2> QED
    BY <2>1, <2>2, <2>3, KeptOK DEF TypeOK
<1>25. ASSUME NEW c \in Conns, Sync(c) PROVE TypeOK'
  <2>1. NetOK'
    BY <1>25, TakeType DEF NetOK, Sync, Take
  <2>2. ConnOK'
    <3> DEFINE active == {p \in Procs : Active(p)}
               y == [at |-> "on", todo |-> active, has |-> Head(up[c]).procs,
                     listed |-> active, kill |-> KillsAsked]
               n == [NoSync EXCEPT !.at = "done"]
    <3>1. Head(up[c]).procs \subseteq Procs
      BY <1>25, TakeType DEF Sync, Frames
    <3>2. y \in Syncs
      BY <3>1 DEF Syncs, KillsAsked
    <3>3. n \in Syncs
      BY DEF NoSync, Syncs
    <3>4. sync' = [sync EXCEPT ![c] = IF auth[c] THEN y ELSE n]
      BY <1>25 DEF Sync
    <3>5. sync' \in [Conns -> Syncs]
      BY <3>2, <3>3, <3>4 DEF ConnOK, Syncs
    <3> QED
      BY <1>25, <3>5 DEF Sync, ConnOK, Syncs
  <2>3. UNCHANGED <<wVars, recVars, reqVars, boots>>
    BY <1>25 DEF Sync, wVars, recVars, reqVars, supVars
  <2> QED
    BY <2>1, <2>2, <2>3, KeptOK DEF TypeOK
<1>26. ASSUME NEW c \in Conns, SyncEnd(c) PROVE TypeOK'
  <2>1. ConnOK'
    BY <1>26 DEF ConnOK, SyncEnd, NoSync
  <2>2. UNCHANGED <<netVars, wVars, recVars, reqVars, boots>>
    BY <1>26 DEF SyncEnd, netVars, wVars, recVars, reqVars, supVars
  <2> QED
    BY <2>1, <2>2, KeptOK DEF TypeOK
<1>27. ASSUME NEW c \in Conns, NEW p \in Procs, Pend(c, p) PROVE TypeOK'
  <2>1. ConnOK'
    BY <1>27 DEF ConnOK, Pend
  <2>2. RecOK'
    BY <1>27, StartType, StatusTypes DEF RecOK, Pend, Threads
  <2>3. UNCHANGED <<netVars, wVars, reqVars, boots>>
    BY <1>27 DEF Pend, netVars, wVars, reqVars, supVars
  <2> QED
    BY <2>1, <2>2, <2>3, KeptOK DEF TypeOK
<1>28. ASSUME NEW c \in Conns, NEW p \in Procs, SyncLost(c, p) PROVE TypeOK'
  <2>1. ConnOK'
    BY <1>28, FieldTypes DEF ConnOK, SyncLost, Syncs
  <2>2. RecOK'
    BY <1>28, StartType, StatusTypes DEF RecOK, SyncLost, Threads
  <2>3. UNCHANGED <<netVars, wVars, reqVars, boots>>
    BY <1>28 DEF SyncLost, netVars, wVars, reqVars, supVars
  <2> QED
    BY <2>1, <2>2, <2>3, KeptOK DEF TypeOK
<1>29. ASSUME NEW c \in Conns, NEW p \in Procs, SyncRebind(c, p) PROVE TypeOK'
  <2>1. ConnOK'
    BY <1>29, FieldTypes DEF ConnOK, SyncRebind, Syncs
  <2>2. RecOK'
    <3>1. CASE Rebindable(p)
      <4> DEFINE e == [conn |-> c, status |-> row[p].status, open |-> TRUE]
                 j == [by |-> <<"dispatch", c>>, p |-> p, status |-> "PROCESS",
                       conn |-> c, live |-> row[p].status # "PROCESS",
                       then |-> IF p \in sync[c].kill THEN "kill" ELSE "none"]
      <4>1. c \in 0 .. MaxConn /\ row[p].status \in Statuses
        BY DEF RecOK, Conns
      <4>2. j \in Jobs
        BY <4>1, StatusTypes DEF Jobs, Threads
      <4>3. e \in Entries
        BY <4>1 DEF Entries
      <4>4. /\ UNCHANGED <<row, seen>>
            /\ entry' = [entry EXCEPT ![p] = e]
            /\ jobs' = jobs \cup {j}
        BY <1>29, <3>1 DEF SyncRebind
      <4> QED
        BY <4>2, <4>3, <4>4 DEF RecOK, Entries
    <3>2. CASE ~Rebindable(p)
      BY <1>29, <3>2 DEF SyncRebind, RecOK
    <3> QED
      BY <3>1, <3>2
  <2>3. UNCHANGED <<netVars, wVars, reqVars, boots>>
    BY <1>29 DEF SyncRebind, netVars, wVars, reqVars, supVars
  <2> QED
    BY <2>1, <2>2, <2>3, KeptOK DEF TypeOK
<1>30. ASSUME NEW c \in Conns, NEW p \in Procs, EditResult(p, c) PROVE TypeOK'
  <2>1. NetOK'
    BY <1>30 DEF NetOK, EditResult
  <2>2. RecOK'
    <3>1. entry' = entry \/ entry' = [entry EXCEPT ![p] = NoEntry]
      BY <1>30 DEF EditResult
    <3>2. seen' = seen \/ seen' = [seen EXCEPT ![p] = "lost"]
      BY <1>30 DEF EditResult
    <3>3. entry' \in [Procs -> Entries]
      <4>1. entry \in [Procs -> Entries]
        BY DEF RecOK, Entries
      <4> QED
        BY <3>1, <4>1, FieldTypes
    <3>4. seen' \in [Procs -> Statuses]
      BY <3>2, StatusTypes DEF RecOK
    <3> QED
      BY <1>30, <3>3, <3>4 DEF EditResult, RecOK, Entries
  <2>3. UNCHANGED <<wVars, connVars, reqVars, boots>>
    BY <1>30 DEF EditResult, wVars, connVars, reqVars, supVars
  <2> QED
    BY <2>1, <2>2, <2>3, KeptOK DEF TypeOK
<1>31. ASSUME NEW c \in Conns, NEW p \in Procs,
            NEW kind \in {"PROCESS", "own", "lost"}, Status(c, p, kind)
     PROVE  TypeOK'
  <2>1. NetOK'
    BY <1>31, TakeType DEF NetOK, Status, Take
  <2>2. ConnOK'
    BY <1>31 DEF ConnOK, Status
  <2>3. RecOK'
    BY <1>31, StartType, StatusTypes DEF RecOK, Status, Threads
  <2>4. UNCHANGED <<wVars, reqVars, boots>>
    BY <1>31 DEF Status, wVars, reqVars, supVars
  <2> QED
    BY <2>1, <2>2, <2>3, <2>4, KeptOK DEF TypeOK
<1>32. ASSUME NEW p \in Procs, LaunchRegister(p) PROVE TypeOK'
  <2>1. RecOK'
    BY <1>32, FieldTypes, StatusTypes
       DEF RecOK, LaunchRegister, Rows, Entries, ConnOK
  <2>2. ReqOK'
    BY <1>32 DEF ReqOK, LaunchRegister, ConnOK
  <2>3. UNCHANGED <<netVars, wVars, connVars>>
    BY <1>32 DEF LaunchRegister, netVars, wVars, connVars, supVars
  <2> QED
    BY <2>1, <2>2, <2>3, KeptOK DEF TypeOK
<1>33. ASSUME NEW p \in Procs, LaunchCall(p) PROVE TypeOK'
  <2>1. WorkerOK'
    BY <1>33 DEF WorkerOK, LaunchCall
  <2>2. ReqOK'
    BY <1>33 DEF ReqOK, LaunchCall
  <2>3. UNCHANGED <<netVars, connVars, recVars>>
    BY <1>33 DEF LaunchCall, netVars, connVars, recVars, supVars
  <2> QED
    BY <2>1, <2>2, <2>3, KeptOK DEF TypeOK
<1>34. ASSUME NEW p \in Procs, LaunchDone(p) PROVE TypeOK'
  <2>1. ReqOK'
    BY <1>34 DEF ReqOK, LaunchDone
  <2>2. UNCHANGED <<netVars, wVars, connVars, recVars>>
    BY <1>34 DEF LaunchDone, netVars, wVars, connVars, recVars, supVars
  <2> QED
    BY <2>1, <2>2, KeptOK DEF TypeOK
<1>35. ASSUME NEW p \in Procs, LaunchFails(p) PROVE TypeOK'
  <2>1. ReqOK'
    BY <1>35 DEF ReqOK, LaunchFails
  <2>2. UNCHANGED <<netVars, wVars, connVars, recVars>>
    BY <1>35 DEF LaunchFails, netVars, wVars, connVars, recVars, supVars
  <2> QED
    BY <2>1, <2>2, KeptOK DEF TypeOK
<1>36. ASSUME NEW p \in Procs, FailExec(p) PROVE TypeOK'
  <2>1. RecOK'
    BY <1>36, StartType, StatusTypes DEF RecOK, FailExec, Threads
  <2>2. ReqOK'
    BY <1>36 DEF ReqOK, FailExec
  <2>3. UNCHANGED <<netVars, wVars, connVars>>
    BY <1>36 DEF FailExec, netVars, wVars, connVars, supVars
  <2> QED
    BY <2>1, <2>2, <2>3, KeptOK DEF TypeOK
<1>37. ASSUME NEW p \in Procs, KillRequest(p) PROVE TypeOK'
  <2>1. RecOK'
    BY <1>37, FieldTypes DEF RecOK, KillRequest, Rows
  <2>2. ReqOK'
    BY <1>37 DEF ReqOK, KillRequest, RecOK
  <2>3. UNCHANGED <<netVars, wVars, connVars>>
    BY <1>37 DEF KillRequest, netVars, wVars, connVars, supVars
  <2> QED
    BY <2>1, <2>2, <2>3, KeptOK DEF TypeOK
<1>38. ASSUME NEW p \in Procs, SendKill(p) PROVE TypeOK'
  <2>1. RecOK'
    <3>1. entry' = entry \/ entry' = [entry EXCEPT ![p].status = krec[p]]
      BY <1>38 DEF SendKill
    <3>2. entry' \in [Procs -> Entries]
      <4>1. entry \in [Procs -> Entries] /\ krec[p] \in Statuses
        BY DEF RecOK, ReqOK, Entries
      <4>2. [entry[p] EXCEPT !.status = krec[p]] \in Entries
        BY <4>1, FieldTypes
      <4> QED
        BY <3>1, <4>1, <4>2
    <3> QED
      BY <1>38, <3>2 DEF SendKill, RecOK, Entries
  <2>2. ReqOK'
    BY <1>38 DEF ReqOK, SendKill, RecOK, Conns
  <2>3. UNCHANGED <<netVars, wVars, connVars>>
    BY <1>38 DEF SendKill, netVars, wVars, connVars, supVars
  <2> QED
    BY <2>1, <2>2, <2>3, KeptOK DEF TypeOK
<1>39. ASSUME SupervisorRestarts PROVE TypeOK'
  <2>1. NetOK'
    BY <1>39 DEF NetOK, SupervisorRestarts
  <2>2. WorkerOK'
    BY <1>39 DEF WorkerOK, SupervisorRestarts
  <2>3. ConnOK'
    <3>1. sync' \in [Conns -> Syncs]
      BY <1>39, FieldTypes DEF SupervisorRestarts
    <3>2. srv' \in [Conns -> {"unused", "serving", "ended", "removed", "pending",
                             "closed"}]
      BY <1>39 DEF SupervisorRestarts, ConnOK
    <3>3. pend' \in [Conns -> SUBSET Procs]
      BY <1>39 DEF SupervisorRestarts, ConnOK
    <3> QED
      BY <1>39, <3>1, <3>2, <3>3 DEF SupervisorRestarts, ConnOK, Syncs
  <2>4. RecOK'
    BY <1>39, FieldTypes DEF RecOK, SupervisorRestarts, Entries
  <2>5. ReqOK'
    BY <1>39 DEF ReqOK, SupervisorRestarts
  <2> QED
    BY <2>1, <2>2, <2>3, <2>4, <2>5, KeptOK DEF TypeOK
<1>40. CASE UNCHANGED vars
  BY <1>40, KeptOK DEF TypeOK, vars, supVars
<1> QED
  BY <1>1, <1>2, <1>3, <1>4, <1>5, <1>6, <1>7, <1>8, <1>9, <1>9a, <1>10,
     <1>11, <1>12, <1>13, <1>14, <1>15, <1>16, <1>17, <1>18, <1>19, <1>20, <1>21,
     <1>22, <1>23, <1>24, <1>25, <1>26, <1>27, <1>28, <1>29, <1>30, <1>31,
     <1>32, <1>33, <1>34, <1>35, <1>36, <1>37, <1>38, <1>39, <1>40
     DEF Next, WorkerNext, SupervisorNext

-----------------------------------------------------------------------------
(* A holder that has seen the process return.                              *)
Ended(p) == holder[p] \in {"exited", "released", "expired"}

(* No holder before the worker is asked for one; exec knows what can       *)
(* happen to the holder it has just started.                               *)
Started ==
  \A p \in Procs :
    /\ lpc[p] \in {"none", "ready"} => wp[p] = "none"
    /\ wp[p] \in {"none", "asked"} => holder[p] = "none"
    /\ wp[p] = "spawning" => holder[p] \in {"running", "exited", "gone"}

(* Whatever carries an exit code of p, p did return.                       *)
RowsTrue == \A p \in Procs : row[p].status = "own" => Ended(p)
OutcomesTrue == \A p \in Procs : outcome[p] = "own" => Ended(p)
JobsTrue == \A j \in jobs : j.status = "own" => Ended(j.p)
FramesTrue ==
  \A c \in Conns : \A i \in 1 .. Len(up[c]) :
    up[c][i].kind = "own" => \A p \in up[c][i].procs : Ended(p)

OwnIsEnded == RowsTrue /\ OutcomesTrue /\ JobsTrue /\ FramesTrue

(* A sync is on its way on c, or was handled.                              *)
SyncSent(c) ==
  sync[c].at # "no" \/ \E k \in 1 .. Len(up[c]) : up[c][k].kind = "sync"

(* `ready' has had its sync sent, unless it broke meanwhile.               *)
ReadySynced ==
  \A c \in Conns :
    link[c] = "up" /\ (reg[c] = "synced" \/ ready = c) => SyncSent(c)

(* What can be said of a connection before it is dialled and after Serve.  *)
Lifetimes ==
  \A c \in Conns :
    /\ link[c] = "unused" => ready # c /\ reg[c] = "none"
    /\ srv[c] \notin {"unused", "serving"} => link[c] # "up"

Safety ==
  /\ Finishing /\ KillJobs /\ Started
  /\ OwnIsEnded
  /\ Lifetimes /\ ReadySynced /\ ExitAfterSync

IInv == TypeOK /\ Safety

-----------------------------------------------------------------------------
(* Lemmas on exits and their order.                                        *)

(* A part keeps holding while what it is about does not change.            *)
LEMMA KeptSafe ==
  ASSUME Safety
  PROVE  /\ UNCHANGED <<wp, outcome>> => Finishing'
         /\ UNCHANGED jobs => KillJobs'
         /\ UNCHANGED <<lpc, wp, holder>> => Started'
         /\ UNCHANGED <<row, outcome, holder, jobs, up>> => OwnIsEnded'
         /\ UNCHANGED <<link, ready, reg, srv>> => Lifetimes'
         /\ UNCHANGED <<link, up, ready, reg, sync>> => ReadySynced'
         /\ UNCHANGED <<up, sync>> => ExitAfterSync'
<1>1. /\ UNCHANGED <<wp, outcome>> => Finishing'
      /\ UNCHANGED jobs => KillJobs'
      /\ UNCHANGED <<lpc, wp, holder>> => Started'
  BY DEF Safety, Finishing, KillJobs, Started
<1>2. UNCHANGED <<row, outcome, holder, jobs, up>> => OwnIsEnded'
  BY DEF Safety, OwnIsEnded, RowsTrue, OutcomesTrue, JobsTrue, FramesTrue, Ended
<1>3. /\ UNCHANGED <<link, ready, reg, srv>> => Lifetimes'
      /\ UNCHANGED <<link, up, ready, reg, sync>> => ReadySynced'
      /\ UNCHANGED <<up, sync>> => ExitAfterSync'
  BY DEF Safety, Lifetimes, ReadySynced, ExitAfterSync, SyncSent
<1> QED
  BY <1>1, <1>2, <1>3

(* Frames: what Emit, a break and Take do to the exits on the way and to   *)
(* their order with the sync.                                              *)
LEMMA EmitKeeps ==
  ASSUME NetOK, NEW c \in 0 .. MaxConn, NEW kind, NEW S, Emit(c, kind, S),
         UNCHANGED <<holder, sync>>, FramesTrue, ExitAfterSync,
         kind = "own" => \A p \in S : Ended(p),
         kind \in {"own", "lost"} /\ c # 0 /\ link[c] = "up" => SyncSent(c)
  PROVE  /\ FramesTrue' /\ ExitAfterSync'
         /\ \A d \in Conns : SyncSent(d) => SyncSent(d)'
         /\ c # 0 /\ link[c] = "up" /\ kind = "sync" => SyncSent(c)'
<1> DEFINE f == [kind |-> kind, procs |-> S]
<1>1. CASE UNCHANGED up /\ ~(c # 0 /\ link[c] = "up")
  BY <1>1 DEF FramesTrue, ExitAfterSync, SyncSent, Ended
<1>2. CASE c # 0 /\ link[c] = "up"
  <2>1. c \in Conns
    BY <1>2, BoundsAssumption DEF Conns
  <2>2. up' = [up EXCEPT ![c] = Append(@, f)]
    BY <1>2 DEF Emit
  <2>3. \A d \in Conns : up[d] \in Seq(Frames)
    BY DEF NetOK
  <2>4. /\ Len(up'[c]) = Len(up[c]) + 1
        /\ up'[c][Len(up[c]) + 1] = f
        /\ \A i \in 1 .. Len(up[c]) : up'[c][i] = up[c][i]
        /\ \A d \in Conns \ {c} : up'[d] = up[d]
    BY <2>1, <2>2, <2>3 DEF NetOK
  <2>5. FramesTrue'
    BY <2>1, <2>3, <2>4 DEF FramesTrue, Ended
  <2>6. \A d \in Conns : SyncSent(d) => SyncSent(d)'
    <3> SUFFICES ASSUME NEW d \in Conns, SyncSent(d) PROVE SyncSent(d)'
      OBVIOUS
    <3>1. CASE d # c
      BY <2>4, <3>1 DEF SyncSent
    <3>2. CASE d = c
      BY <2>3, <2>4, <3>2 DEF SyncSent
    <3> QED
      BY <3>1, <3>2
  <2>7. ExitAfterSync'
    <3> SUFFICES ASSUME NEW d \in Conns, NEW i \in 1 .. Len(up'[d]),
                        up'[d][i].kind \in {"own", "lost"}, sync[d].at = "no"
                 PROVE  \E k \in 1 .. i - 1 : up'[d][k].kind = "sync"
      BY DEF ExitAfterSync
    <3>1. CASE d # c
      BY <2>4, <3>1 DEF ExitAfterSync
    <3>3. CASE d = c /\ i \in 1 .. Len(up[c])
      <4>1. \E k \in 1 .. i - 1 : up[c][k].kind = "sync"
        BY <2>4, <3>3 DEF ExitAfterSync
      <4> QED
        BY <2>3, <2>4, <3>3, <4>1
    <3>2. CASE d = c /\ i = Len(up[c]) + 1
      BY <1>2, <2>1, <2>3, <2>4, <3>2 DEF SyncSent
    <3> QED
      BY <2>1, <2>3, <2>4, <3>1, <3>2, <3>3
  <2>8. kind = "sync" => SyncSent(c)'
    BY <2>1, <2>3, <2>4 DEF SyncSent
  <2> QED
    BY <2>5, <2>6, <2>7, <2>8
<1> QED
  BY <1>1, <1>2 DEF Emit

LEMMA PrefixKeeps ==
  ASSUME NetOK, NEW c \in Conns, NEW n \in 0 .. Len(up[c]),
         up' = [up EXCEPT ![c] = SubSeq(@, 1, n)],
         UNCHANGED <<holder, sync>>, FramesTrue, ExitAfterSync
  PROVE  /\ FramesTrue' /\ ExitAfterSync'
         /\ \A d \in Conns \ {c} : SyncSent(d) => SyncSent(d)'
<1>1. \A d \in Conns : up[d] \in Seq(Frames)
  BY DEF NetOK
<1>2. /\ Len(up'[c]) = n
      /\ \A i \in 1 .. n : up'[c][i] = up[c][i]
      /\ \A d \in Conns \ {c} : up'[d] = up[d]
  BY <1>1 DEF NetOK
<1>3. FramesTrue'
  BY <1>1, <1>2 DEF FramesTrue, Ended
<1>4. ExitAfterSync'
  BY <1>1, <1>2 DEF ExitAfterSync
<1> QED
  BY <1>2, <1>3, <1>4 DEF SyncSent

LEMMA TakeKeeps ==
  ASSUME NetOK, NEW c \in Conns, NEW kind, Take(c, kind), UNCHANGED holder,
         FramesTrue, ExitAfterSync,
         kind = "sync" => sync'[c].at # "no",
         \A d \in Conns : sync'[d].at = "no" => sync[d].at = "no"
  PROVE  /\ FramesTrue' /\ ExitAfterSync'
         /\ \A d \in Conns : SyncSent(d) => SyncSent(d)'
         /\ kind = "own" => \A p \in Head(up[c]).procs : Ended(p)
<1>1. \A d \in Conns : up[d] \in Seq(Frames)
  BY DEF NetOK
<1>2. /\ up[c] # <<>> /\ Len(up'[c]) = Len(up[c]) - 1 /\ Len(up[c]) >= 1
      /\ \A i \in 1 .. Len(up'[c]) : up'[c][i] = up[c][i + 1]
      /\ up[c][1].kind = kind /\ Head(up[c]) = up[c][1]
      /\ \A d \in Conns \ {c} : up'[d] = up[d]
  BY <1>1 DEF NetOK, Take
<1>3. FramesTrue'
  <2> SUFFICES ASSUME NEW d \in Conns, NEW i \in 1 .. Len(up'[d]),
                      up'[d][i].kind = "own", NEW p \in up'[d][i].procs
               PROVE  Ended(p)
    BY DEF FramesTrue, Ended
  <2>1. CASE d # c
    BY <1>2, <2>1 DEF FramesTrue
  <2>2. CASE d = c
    <3>1. i + 1 \in 1 .. Len(up[c]) /\ up'[c][i] = up[c][i + 1]
      BY <1>1, <1>2, <2>2
    <3> QED
      BY <2>2, <3>1 DEF FramesTrue
  <2> QED
    BY <2>1, <2>2
<1>4. \A d \in Conns : SyncSent(d) => SyncSent(d)'
  <2> SUFFICES ASSUME NEW d \in Conns, SyncSent(d), sync'[d].at = "no"
               PROVE  \E k \in 1 .. Len(up'[d]) : up'[d][k].kind = "sync"
    BY DEF SyncSent
  <2>1. PICK k \in 1 .. Len(up[d]) : up[d][k].kind = "sync"
    BY DEF SyncSent
  <2>2. CASE d # c
    BY <1>2, <2>1, <2>2
  <2>3. CASE d = c
    <3>1. k # 1
      BY <1>2, <2>1, <2>3
    <3>2. k - 1 \in 1 .. Len(up'[c]) /\ up'[c][k - 1].kind = "sync"
      BY <1>1, <1>2, <2>1, <2>3, <3>1
    <3> QED
      BY <2>3, <3>2
  <2> QED
    BY <2>2, <2>3
<1>5. ExitAfterSync'
  <2> SUFFICES ASSUME NEW d \in Conns, NEW i \in 1 .. Len(up'[d]),
                      up'[d][i].kind \in {"own", "lost"}, sync'[d].at = "no"
               PROVE  \E k \in 1 .. i - 1 : up'[d][k].kind = "sync"
    BY DEF ExitAfterSync
  <2>1. CASE d # c
    BY <1>2, <2>1 DEF ExitAfterSync
  <2>2. CASE d = c
    <3>1. i + 1 \in 1 .. Len(up[c]) /\ up[c][i + 1].kind \in {"own", "lost"}
      BY <1>1, <1>2, <2>2
    <3>2. PICK k \in 1 .. i : up[c][k].kind = "sync"
      BY <2>2, <3>1 DEF ExitAfterSync
    <3>3. k # 1
      BY <1>2, <2>2, <3>2
    <3>4. k - 1 \in 1 .. i - 1 /\ up'[c][k - 1].kind = "sync"
      BY <1>1, <1>2, <2>2, <3>2, <3>3
    <3> QED
      BY <2>2, <3>4
  <2> QED
    BY <2>1, <2>2
<1>6. kind = "own" => \A p \in Head(up[c]).procs : Ended(p)
  BY <1>1, <1>2 DEF FramesTrue
<1> QED
  BY <1>3, <1>4, <1>5, <1>6

(* Jobs: what Start does to the exits and the kills they carry.            *)
LEMMA StartKeeps ==
  ASSUME NEW t, NEW p, NEW s, NEW then, Start(t, p, s, then), UNCHANGED holder,
         JobsTrue, KillJobs, s = "own" => Ended(p), then # "kill"
  PROVE  JobsTrue' /\ KillJobs'
  BY DEF Start, JobsTrue, KillJobs, Ended

(* Holders: an exit that is known stays known while holders only move on.  *)
LEMMA HolderKeeps ==
  ASSUME OwnIsEnded, RecOK, NetOK, UNCHANGED <<row, jobs, up>>,
         \A p \in Procs : Ended(p) => Ended(p)',
         \A p \in Procs : outcome'[p] = "own" => Ended(p)'
  PROVE  OwnIsEnded'
<1>1. RowsTrue'
  BY DEF OwnIsEnded, RowsTrue
<1>2. JobsTrue'
  BY DEF OwnIsEnded, JobsTrue, RecOK, Jobs
<1>3. FramesTrue'
  <2> SUFFICES ASSUME NEW c \in Conns, NEW i \in 1 .. Len(up[c]),
                      up[c][i].kind = "own", NEW p \in up[c][i].procs
               PROVE  Ended(p)'
    BY DEF FramesTrue
  <2>1. up[c][i] \in Frames
    BY DEF NetOK
  <2>2. p \in Procs
    BY <2>1 DEF Frames
  <2> QED
    BY <2>2 DEF OwnIsEnded, FramesTrue
<1> QED
  BY <1>1, <1>2, <1>3 DEF OwnIsEnded, OutcomesTrue

(* Every step keeps the exits true and in order.                           *)
LEMMA SafetyStep == TypeOK /\ Safety /\ [Next]_vars => Safety'
<1> SUFFICES ASSUME TypeOK, Safety, [Next]_vars PROVE Safety'
  OBVIOUS
<1>a. NetOK /\ WorkerOK /\ ConnOK /\ RecOK /\ ReqOK
  BY DEF TypeOK
<1>b. /\ Finishing /\ KillJobs /\ Started
      /\ OwnIsEnded /\ RowsTrue /\ OutcomesTrue /\ JobsTrue /\ FramesTrue
      /\ Lifetimes /\ ReadySynced /\ ExitAfterSync
  BY DEF Safety, OwnIsEnded
<1> USE <1>a, <1>b, BoundsAssumption
<1>1. ASSUME NEW c \in Conns, Dial(c) PROVE Safety'
  <2>1. Lifetimes'
    BY <1>1 DEF Lifetimes, Dial, WorkerOK, NetOK, ConnOK
  <2>2. ReadySynced'
    BY <1>1 DEF ReadySynced, Dial, SyncSent, Lifetimes, WorkerOK, NetOK
  <2>3. UNCHANGED <<wp, outcome, jobs, lpc, holder, row, up, sync>>
    BY <1>1 DEF Dial, netVars, wVars, connVars, recVars, reqVars, supVars
  <2> QED
    BY <2>1, <2>2, <2>3, KeptSafe DEF Safety
<1>2. ASSUME NEW c \in Conns, EndSession(c) PROVE Safety'
  <2>1. Lifetimes'
    BY <1>2 DEF Lifetimes, EndSession, NetOK, Conns, supVars, connVars
  <2>2. ReadySynced'
    BY <1>2
       DEF ReadySynced, EndSession, SyncSent, NetOK, Conns, supVars, connVars
  <2>3. UNCHANGED <<wp, outcome, jobs, lpc, holder, row, up, sync>>
    BY <1>2 DEF EndSession, netVars, wVars, connVars, recVars, reqVars, supVars
  <2> QED
    BY <2>1, <2>2, <2>3, KeptSafe DEF Safety
<1>3. ASSUME NEW c \in Conns, SendSync(c) PROVE Safety'
  <2>1. /\ FramesTrue' /\ ExitAfterSync'
        /\ \A d \in Conns : SyncSent(d) => SyncSent(d)'
        /\ link[c] = "up" => SyncSent(c)'
    BY <1>3, EmitKeeps DEF SendSync, supVars, connVars, Conns
  <2>2. OwnIsEnded'
    BY <1>3, <2>1
       DEF OwnIsEnded, SendSync, RowsTrue, OutcomesTrue, JobsTrue, Ended,
           supVars, recVars
  <2>3. Lifetimes'
    BY <1>3 DEF Lifetimes, SendSync, WorkerOK, supVars, connVars
  <2>4. ReadySynced'
    BY <1>3, <2>1
       DEF ReadySynced, SendSync, WorkerOK, NetOK, Conns, supVars, connVars
  <2>5. ExitAfterSync'
    BY <2>1
  <2>6. UNCHANGED <<wp, outcome, jobs, lpc, holder>>
    BY <1>3 DEF SendSync, netVars, wVars, connVars, recVars, reqVars, supVars
  <2> QED
    BY <2>1, <2>2, <2>3, <2>4, <2>5, <2>6, KeptSafe DEF Safety
<1>4. ASSUME NEW c \in Conns, StoreReady(c) PROVE Safety'
  <2>1. Lifetimes'
    BY <1>4
       DEF Lifetimes, StoreReady, NewReady, WorkerOK, netVars, supVars,
           connVars
  <2>2. ReadySynced'
    BY <1>4
       DEF ReadySynced, StoreReady, SyncSent, NewReady, WorkerOK, netVars,
           supVars, connVars
  <2>3. UNCHANGED <<wp, outcome, jobs, lpc, holder, row, up, sync>>
    BY <1>4 DEF StoreReady, netVars, wVars, connVars, recVars, reqVars, supVars
  <2> QED
    BY <2>1, <2>2, <2>3, KeptSafe DEF Safety
<1>5. ASSUME NEW c \in Conns, Break(c) PROVE Safety'
  <2>1. FramesTrue' /\ ExitAfterSync' /\
        (\A d \in Conns \ {c} : SyncSent(d) => SyncSent(d)')
    <3>1. CASE UNCHANGED up
      BY <1>5, <3>1
         DEF Break, FramesTrue, ExitAfterSync, SyncSent, Ended, wVars,
             supVars, connVars
    <3>2. CASE \E n \in 0 .. Len(up[c]) : up' = [up EXCEPT ![c] = SubSeq(@, 1, n)]
      BY <1>5, <3>2, PrefixKeeps DEF Break, wVars, supVars, connVars
    <3> QED
      BY <1>5, <3>1, <3>2 DEF Break
  <2>2. OwnIsEnded'
    BY <1>5, <2>1
       DEF OwnIsEnded, Break, RowsTrue, OutcomesTrue, JobsTrue, Ended, wVars,
           supVars, recVars
  <2>3. Lifetimes'
    BY <1>5 DEF Lifetimes, Break, NetOK, ConnOK, wVars, supVars, connVars
  <2>4. ReadySynced'
    BY <1>5, <2>1
       DEF ReadySynced, Break, NetOK, wVars, supVars, connVars, Lifetimes
  <2>5. ExitAfterSync'
    BY <2>1
  <2>6. UNCHANGED <<wp, outcome, jobs, lpc, holder>>
    BY <1>5 DEF Break, netVars, wVars, connVars, recVars, reqVars, supVars
  <2> QED
    BY <2>1, <2>2, <2>3, <2>4, <2>5, <2>6, KeptSafe DEF Safety
<1>6. ASSUME NEW p \in Procs, ExecSpawn(p) PROVE Safety'
  <2>1. Finishing'
    BY <1>6 DEF Finishing, ExecSpawn, WorkerOK
  <2>2. Started'
    BY <1>6 DEF Started, ExecSpawn, WorkerOK, ReqOK, supVars, reqVars
  <2>3. OwnIsEnded'
    <3>1. \A q \in Procs : Ended(q) => Ended(q)'
      BY <1>6 DEF ExecSpawn, Ended, Started, WorkerOK
    <3>2. \A q \in Procs : outcome'[q] = "own" => Ended(q)'
      BY <1>6, <3>1
         DEF ExecSpawn, OutcomesTrue, Ended, WorkerOK, LearntExit,
             LearntByHello
    <3> QED
      BY <1>6, <3>1, <3>2, HolderKeeps DEF ExecSpawn, netVars, supVars, recVars
  <2>4. UNCHANGED <<jobs, link, ready, reg, srv, up, sync>>
    BY <1>6 DEF ExecSpawn, netVars, wVars, connVars, recVars, reqVars, supVars
  <2> QED
    BY <2>1, <2>2, <2>3, <2>4, KeptSafe DEF Safety
<1>7. ASSUME NEW p \in Procs, ExecAdmit(p) PROVE Safety'
  <2>1. Finishing'
    BY <1>7 DEF Finishing, ExecAdmit, WorkerOK, AfterHello, LearntByHello
  <2>2. Started'
    BY <1>7 DEF Started, ExecAdmit, WorkerOK, AfterHello, supVars, reqVars
  <2>3. OwnIsEnded'
    <3>1. \A q \in Procs : Ended(q) => Ended(q)'
      BY <1>7 DEF ExecAdmit, Ended, Started, WorkerOK
    <3>2. \A q \in Procs : outcome'[q] = "own" => Ended(q)'
      BY <1>7, <3>1
         DEF ExecAdmit, OutcomesTrue, Ended, WorkerOK, LearntExit,
             LearntByHello
    <3> QED
      BY <1>7, <3>1, <3>2, HolderKeeps DEF ExecAdmit, netVars, supVars, recVars
  <2>4. UNCHANGED <<jobs, link, ready, reg, srv, up, sync>>
    BY <1>7 DEF ExecAdmit, netVars, wVars, connVars, recVars, reqVars, supVars
  <2> QED
    BY <2>1, <2>2, <2>3, <2>4, KeptSafe DEF Safety
<1>8. ASSUME NEW p \in Procs, ForwardProcess(p) PROVE Safety'
  <2>1. FramesTrue' /\ ExitAfterSync' /\
        (\A d \in Conns : SyncSent(d) => SyncSent(d)')
    BY <1>8, EmitKeeps DEF ForwardProcess, supVars, connVars, WorkerOK
  <2>2. Finishing'
    BY <1>8 DEF Finishing, ForwardProcess, WorkerOK
  <2>3. Started'
    BY <1>8 DEF Started, ForwardProcess, WorkerOK, ReqOK, supVars, reqVars
  <2>4. OwnIsEnded'
    BY <1>8, <2>1
       DEF OwnIsEnded, ForwardProcess, RowsTrue, OutcomesTrue, JobsTrue,
           Ended, supVars, recVars
  <2>5. ReadySynced'
    BY <1>8, <2>1
       DEF ReadySynced, ForwardProcess, WorkerOK, NetOK, Conns, supVars,
           connVars
  <2>6. ExitAfterSync'
    BY <2>1
  <2>7. UNCHANGED <<jobs, link, ready, reg, srv>>
    BY <1>8
       DEF ForwardProcess, netVars, wVars, connVars, recVars, reqVars, supVars
  <2> QED
    BY <2>1, <2>2, <2>3, <2>4, <2>5, <2>6, <2>7, KeptSafe DEF Safety
<1>9. ASSUME NEW p \in Procs, ForwardExit(p) PROVE Safety'
  <2>1. Finishing'
    BY <1>9 DEF Finishing, ForwardExit, WorkerOK, LearntExit
  <2>2. Started'
    BY <1>9 DEF Started, ForwardExit, WorkerOK, ReqOK, supVars, reqVars
  <2>3. OwnIsEnded'
    <3>1. \A q \in Procs : Ended(q) => Ended(q)'
      BY <1>9 DEF ForwardExit, Ended, Started, WorkerOK
    <3>2. \A q \in Procs : outcome'[q] = "own" => Ended(q)'
      BY <1>9, <3>1
         DEF ForwardExit, OutcomesTrue, Ended, WorkerOK, LearntExit,
             LearntByHello
    <3> QED
      BY <1>9, <3>1, <3>2, HolderKeeps
         DEF ForwardExit, netVars, supVars, recVars
  <2>4. UNCHANGED <<jobs, link, ready, reg, srv, up, sync>>
    BY <1>9 DEF ForwardExit, netVars, wVars, connVars, recVars, reqVars, supVars
  <2> QED
    BY <2>1, <2>2, <2>3, <2>4, KeptSafe DEF Safety
<1>9a. ASSUME NEW p \in Procs, PeerCut(p) PROVE Safety'
  <2>1. Finishing'
    BY <1>9a DEF Finishing, PeerCut, WorkerOK
  <2>2. Started'
    BY <1>9a DEF Started, PeerCut, WorkerOK, ReqOK, supVars, reqVars
  <2>3. OwnIsEnded'
    <3>1. \A q \in Procs : Ended(q) => Ended(q)'
      BY <1>9a DEF PeerCut, Ended, Started, WorkerOK
    <3>2. \A q \in Procs : outcome'[q] = "own" => Ended(q)'
      BY <1>9a, <3>1
         DEF PeerCut, OutcomesTrue, Ended, WorkerOK
    <3> QED
      BY <1>9a, <3>1, <3>2, HolderKeeps
         DEF PeerCut, netVars, supVars, recVars
  <2>4. UNCHANGED <<jobs, link, ready, reg, srv, up, sync>>
    BY <1>9a DEF PeerCut, netVars, wVars, connVars, recVars, reqVars, supVars
  <2> QED
    BY <2>1, <2>2, <2>3, <2>4, KeptSafe DEF Safety
<1>10. ASSUME NEW p \in Procs, Finish(p) PROVE Safety'
  <2>1. FramesTrue' /\ ExitAfterSync' /\
        (\A d \in Conns : SyncSent(d) => SyncSent(d)')
    <3>1. ReportConn \in Conns /\ (outcome[p] = "own" => Ended(p))
      BY <1>10 DEF Finish, ReportConn, WorkerOK, Conns, OutcomesTrue
    <3>2. link[ReportConn] = "up" => SyncSent(ReportConn)
      BY <3>1 DEF ReportConn, ReadySynced
    <3>3. Emit(ReportConn, outcome[p], {p}) /\ UNCHANGED <<holder, sync>>
      BY <1>10 DEF Finish, supVars, connVars
    <3> QED
      BY <3>1, <3>2, <3>3, EmitKeeps DEF Conns
  <2>2. Finishing'
    BY <1>10 DEF Finishing, Finish, WorkerOK
  <2>3. Started'
    BY <1>10 DEF Started, Finish, WorkerOK, ReqOK, supVars, reqVars
  <2>4. OwnIsEnded'
    BY <1>10, <2>1
       DEF OwnIsEnded, Finish, RowsTrue, OutcomesTrue, JobsTrue, Ended,
           supVars, recVars
  <2>5. ReadySynced'
    BY <1>10, <2>1 DEF ReadySynced, Finish, WorkerOK, NetOK, supVars, connVars
  <2>6. ExitAfterSync'
    BY <2>1
  <2>7. UNCHANGED <<jobs, link, ready, reg, srv>>
    BY <1>10 DEF Finish, netVars, wVars, connVars, recVars, reqVars, supVars
  <2> QED
    BY <2>1, <2>2, <2>3, <2>4, <2>5, <2>6, <2>7, KeptSafe DEF Safety
<1>11. ASSUME NEW p \in Procs, Forget(p) PROVE Safety'
  <2>1. Finishing'
    BY <1>11 DEF Finishing, Forget, WorkerOK
  <2>2. Started'
    BY <1>11 DEF Started, Forget, Released, WorkerOK, ReqOK, supVars, reqVars
  <2>3. OwnIsEnded'
    <3>1. \A q \in Procs : Ended(q) => Ended(q)'
      BY <1>11 DEF Forget, Released, Ended, Started, WorkerOK
    <3>2. \A q \in Procs : outcome'[q] = "own" => Ended(q)'
      BY <1>11, <3>1
         DEF Forget, OutcomesTrue, Ended, WorkerOK, LearntExit, LearntByHello
    <3> QED
      BY <1>11, <3>1, <3>2, HolderKeeps DEF Forget, netVars, supVars, recVars
  <2>4. UNCHANGED <<jobs, link, ready, reg, srv, up, sync>>
    BY <1>11 DEF Forget, netVars, wVars, connVars, recVars, reqVars, supVars
  <2> QED
    BY <2>1, <2>2, <2>3, <2>4, KeptSafe DEF Safety
<1>12. ASSUME NEW p \in Procs, Exit(p) PROVE Safety'
  <2>1. Started'
    BY <1>12 DEF Started, Exit, WorkerOK, ReqOK, supVars, reqVars
  <2>2. OwnIsEnded'
    <3>1. \A q \in Procs : Ended(q) => Ended(q)'
      BY <1>12 DEF Exit, Ended, Started, WorkerOK
    <3>2. \A q \in Procs : outcome'[q] = "own" => Ended(q)'
      BY <1>12, <3>1
         DEF Exit, OutcomesTrue, Ended, WorkerOK, LearntExit, LearntByHello
    <3> QED
      BY <1>12, <3>1, <3>2, HolderKeeps DEF Exit, netVars, supVars, recVars
  <2>3. UNCHANGED <<wp, outcome, jobs, link, ready, reg, srv, up, sync>>
    BY <1>12 DEF Exit, netVars, wVars, connVars, recVars, reqVars, supVars
  <2> QED
    BY <2>1, <2>2, <2>3, KeptSafe DEF Safety
<1>13. ASSUME NEW p \in Procs, HolderDies(p) PROVE Safety'
  <2>1. Started'
    BY <1>13 DEF Started, HolderDies, WorkerOK, ReqOK, supVars, reqVars
  <2>2. OwnIsEnded'
    <3>1. \A q \in Procs : Ended(q) => Ended(q)'
      BY <1>13 DEF HolderDies, Ended, Started, WorkerOK
    <3>2. \A q \in Procs : outcome'[q] = "own" => Ended(q)'
      BY <1>13, <3>1
         DEF HolderDies, OutcomesTrue, Ended, WorkerOK, LearntExit,
             LearntByHello
    <3> QED
      BY <1>13, <3>1, <3>2, HolderKeeps
         DEF HolderDies, netVars, supVars, recVars
  <2>3. UNCHANGED <<wp, outcome, jobs, link, ready, reg, srv, up, sync>>
    BY <1>13 DEF HolderDies, netVars, wVars, connVars, recVars, reqVars, supVars
  <2> QED
    BY <2>1, <2>2, <2>3, KeptSafe DEF Safety
<1>14. ASSUME NEW p \in Procs, DoneWait(p) PROVE Safety'
  <2>1. Started'
    BY <1>14 DEF Started, DoneWait, WorkerOK, ReqOK, supVars, reqVars
  <2>2. OwnIsEnded'
    <3>1. \A q \in Procs : Ended(q) => Ended(q)'
      BY <1>14 DEF DoneWait, Ended, Started, WorkerOK
    <3>2. \A q \in Procs : outcome'[q] = "own" => Ended(q)'
      BY <1>14, <3>1
         DEF DoneWait, OutcomesTrue, Ended, WorkerOK, LearntExit,
             LearntByHello
    <3> QED
      BY <1>14, <3>1, <3>2, HolderKeeps DEF DoneWait, netVars, supVars, recVars
  <2>3. UNCHANGED <<wp, outcome, jobs, link, ready, reg, srv, up, sync>>
    BY <1>14 DEF DoneWait, netVars, wVars, connVars, recVars, reqVars, supVars
  <2> QED
    BY <2>1, <2>2, <2>3, KeptSafe DEF Safety
<1>15. ASSUME NEW p \in Procs, NEW c \in Conns, Kill(p, c) PROVE Safety'
  <2>1. UNCHANGED <<wp, outcome, jobs, lpc, holder, row, up, link,
                    ready, reg, srv, sync>>
    BY <1>15 DEF Kill, netVars, wVars, connVars, recVars, reqVars, supVars
  <2> QED
    BY <2>1, KeptSafe DEF Safety
<1>16. ASSUME WorkerStops PROVE Safety'
  <2>1. Finishing'
    BY <1>16 DEF Finishing, WorkerStops, WorkerOK, AfterStop, Attached
  <2>2. Started'
    BY <1>16
       DEF Started, WorkerStops, WorkerOK, AfterStop, Attached, supVars,
           reqVars
  <2>3. Lifetimes'
    BY <1>16
       DEF Lifetimes, WorkerStops, WorkerOK, NetOK, ConnOK, Conns, supVars,
           connVars
  <2>4. ReadySynced'
    BY <1>16 DEF ReadySynced, WorkerStops, NetOK
  <2>5. UNCHANGED <<jobs, row, outcome, holder, up, sync>>
    BY <1>16
       DEF WorkerStops, netVars, wVars, connVars, recVars, reqVars, supVars
  <2> QED
    BY <2>1, <2>2, <2>3, <2>4, <2>5, KeptSafe DEF Safety
<1>17. ASSUME WorkerStarts PROVE Safety'
  <2>1. Finishing'
    BY <1>17
       DEF Finishing, WorkerStarts, WorkerOK, Recovered, AfterHello,
           LearntByHello
  <2>2. Started'
    BY <1>17
       DEF Started, WorkerStarts, WorkerOK, Recovered, AfterHello, supVars,
           reqVars
  <2>3. OwnIsEnded'
    <3>1. \A q \in Procs : Ended(q) => Ended(q)'
      BY <1>17 DEF WorkerStarts, Ended, Started, WorkerOK
    <3>2. \A q \in Procs : outcome'[q] = "own" => Ended(q)'
      BY <1>17, <3>1
         DEF WorkerStarts, OutcomesTrue, Ended, WorkerOK, LearntExit,
             LearntByHello
    <3> QED
      BY <1>17, <3>1, <3>2, HolderKeeps
         DEF WorkerStarts, netVars, supVars, recVars
  <2>4. UNCHANGED <<jobs, link, ready, reg, srv, up, sync>>
    BY <1>17
       DEF WorkerStarts, netVars, wVars, connVars, recVars, reqVars, supVars
  <2> QED
    BY <2>1, <2>2, <2>3, <2>4, KeptSafe DEF Safety
<1>18. ASSUME NEW j \in jobs, ApplyStatus(j) PROVE Safety'
  <2>1. KillJobs'
    BY <1>18 DEF KillJobs, ApplyStatus
  <2>2. Started'
    BY <1>18 DEF Started, ApplyStatus, ReqOK, RecOK, Jobs, wVars
  <2>3. OwnIsEnded'
    BY <1>18
       DEF OwnIsEnded, ApplyStatus, RowsTrue, OutcomesTrue, JobsTrue,
           FramesTrue, Ended, RecOK, Marked, Jobs, netVars, wVars
  <2>4. UNCHANGED <<wp, outcome, link, ready, reg, srv, up, sync>>
    BY <1>18
       DEF ApplyStatus, netVars, wVars, connVars, recVars, reqVars, supVars
  <2> QED
    BY <2>1, <2>2, <2>3, <2>4, KeptSafe DEF Safety
<1>19. ASSUME NEW c \in Conns, BindRegister(c) PROVE Safety'
  <2>1. UNCHANGED <<wp, outcome, jobs, lpc, holder, row, up, link,
                    ready, reg, srv, sync>>
    BY <1>19
       DEF BindRegister, netVars, wVars, connVars, recVars, reqVars, supVars
  <2> QED
    BY <2>1, KeptSafe DEF Safety
<1>20. ASSUME NEW c \in Conns, FinishRegister(c) PROVE Safety'
  <2>1. Lifetimes'
    BY <1>20 DEF Lifetimes, FinishRegister, WorkerOK, netVars
  <2>2. ReadySynced'
    BY <1>20 DEF ReadySynced, FinishRegister, SyncSent, WorkerOK, netVars
  <2>3. UNCHANGED <<wp, outcome, jobs, lpc, holder, row, up, sync>>
    BY <1>20
       DEF FinishRegister, netVars, wVars, connVars, recVars, reqVars, supVars
  <2> QED
    BY <2>1, <2>2, <2>3, KeptSafe DEF Safety
<1>21. ASSUME NEW c \in Conns, ServeEnds(c) PROVE Safety'
  <2>1. Lifetimes'
    BY <1>21 DEF Lifetimes, ServeEnds, ConnOK, netVars, wVars
  <2>2. UNCHANGED <<wp, outcome, jobs, lpc, holder, row, up, link,
                    ready, reg, sync>>
    BY <1>21 DEF ServeEnds, netVars, wVars, connVars, recVars, reqVars, supVars
  <2> QED
    BY <2>1, <2>2, KeptSafe DEF Safety
<1>22. ASSUME NEW c \in Conns, Unregister(c) PROVE Safety'
  <2>1. Lifetimes'
    BY <1>22 DEF Lifetimes, Unregister, ConnOK, netVars, wVars
  <2>2. UNCHANGED <<wp, outcome, jobs, lpc, holder, row, up, link,
                    ready, reg, sync>>
    BY <1>22 DEF Unregister, netVars, wVars, connVars, recVars, reqVars, supVars
  <2> QED
    BY <2>1, <2>2, KeptSafe DEF Safety
<1>23. ASSUME NEW c \in Conns, ListActive(c) PROVE Safety'
  <2>1. Lifetimes'
    BY <1>23 DEF Lifetimes, ListActive, ConnOK, netVars, wVars
  <2>2. UNCHANGED <<wp, outcome, jobs, lpc, holder, row, up, link,
                    ready, reg, sync>>
    BY <1>23 DEF ListActive, netVars, wVars, connVars, recVars, reqVars, supVars
  <2> QED
    BY <2>1, <2>2, KeptSafe DEF Safety
<1>24. ASSUME NEW c \in Conns, CloseConn(c) PROVE Safety'
  <2>1. FramesTrue' /\ ExitAfterSync' /\
        (\A d \in Conns \ {c} : SyncSent(d) => SyncSent(d)')
    BY <1>24, PrefixKeeps DEF CloseConn, wVars
  <2>2. OwnIsEnded'
    BY <1>24, <2>1
       DEF OwnIsEnded, CloseConn, RowsTrue, OutcomesTrue, JobsTrue, Ended,
           wVars, supVars, recVars
  <2>3. Lifetimes'
    BY <1>24 DEF Lifetimes, CloseConn, NetOK, ConnOK, wVars, supVars, connVars
  <2>4. ReadySynced'
    BY <1>24, <2>1
       DEF ReadySynced, CloseConn, NetOK, wVars, supVars, connVars, Lifetimes
  <2>5. ExitAfterSync'
    BY <2>1
  <2>6. UNCHANGED <<wp, outcome, jobs, lpc, holder>>
    BY <1>24 DEF CloseConn, netVars, wVars, connVars, recVars, reqVars, supVars
  <2> QED
    BY <2>1, <2>2, <2>3, <2>4, <2>5, <2>6, KeptSafe DEF Safety
<1>25. ASSUME NEW c \in Conns, Sync(c) PROVE Safety'
  <2>1. FramesTrue' /\ ExitAfterSync' /\
        (\A d \in Conns : SyncSent(d) => SyncSent(d)')
    <3>1. sync'[c].at # "no" /\ \A d \in Conns \ {c} : sync'[d] = sync[d]
      BY <1>25 DEF Sync, ConnOK, NoSync
    <3> QED
      BY <1>25, <3>1, TakeKeeps DEF Sync, wVars
  <2>2. OwnIsEnded'
    BY <1>25, <2>1
       DEF OwnIsEnded, Sync, RowsTrue, OutcomesTrue, JobsTrue, Ended, wVars,
           recVars
  <2>3. ReadySynced'
    BY <1>25, <2>1 DEF ReadySynced, Sync, wVars
  <2>4. ExitAfterSync'
    BY <2>1
  <2>5. UNCHANGED <<wp, outcome, jobs, lpc, holder, link, ready, reg, srv>>
    BY <1>25 DEF Sync, netVars, wVars, connVars, recVars, reqVars, supVars
  <2> QED
    BY <2>1, <2>2, <2>3, <2>4, <2>5, KeptSafe DEF Safety
<1>26. ASSUME NEW c \in Conns, SyncEnd(c) PROVE Safety'
  <2>1. ReadySynced'
    BY <1>26 DEF ReadySynced, SyncEnd, SyncSent, netVars, wVars, ConnOK, NoSync
  <2>2. ExitAfterSync'
    BY <1>26 DEF ExitAfterSync, SyncEnd, netVars, ConnOK, NoSync
  <2>3. UNCHANGED <<wp, outcome, jobs, lpc, holder, row, up, link,
                    ready, reg, srv>>
    BY <1>26 DEF SyncEnd, netVars, wVars, connVars, recVars, reqVars, supVars
  <2> QED
    BY <2>1, <2>2, <2>3, KeptSafe DEF Safety
<1>27. ASSUME NEW c \in Conns, NEW p \in Procs, Pend(c, p) PROVE Safety'
  <2>1. KillJobs'
    BY <1>27, StartKeeps DEF KillJobs, Pend, wVars
  <2>2. OwnIsEnded'
    BY <1>27, StartKeeps
       DEF OwnIsEnded, Pend, RowsTrue, OutcomesTrue, FramesTrue, Ended,
           netVars, wVars
  <2>3. UNCHANGED <<wp, outcome, lpc, holder, link, ready, reg, srv,
                    up, sync>>
    BY <1>27 DEF Pend, netVars, wVars, connVars, recVars, reqVars, supVars
  <2> QED
    BY <2>1, <2>2, <2>3, KeptSafe DEF Safety
<1>28. ASSUME NEW c \in Conns, NEW p \in Procs, SyncLost(c, p) PROVE Safety'
  <2>1. KillJobs'
    BY <1>28, StartKeeps DEF KillJobs, SyncLost, wVars
  <2>2. OwnIsEnded'
    BY <1>28, StartKeeps
       DEF OwnIsEnded, SyncLost, RowsTrue, OutcomesTrue, FramesTrue, Ended,
           netVars, wVars
  <2>3. ReadySynced'
    BY <1>28 DEF ReadySynced, SyncLost, SyncSent, netVars, wVars, ConnOK
  <2>4. ExitAfterSync'
    BY <1>28 DEF ExitAfterSync, SyncLost, netVars, ConnOK
  <2>5. UNCHANGED <<wp, outcome, lpc, holder, link, ready, reg, srv>>
    BY <1>28 DEF SyncLost, netVars, wVars, connVars, recVars, reqVars, supVars
  <2> QED
    BY <2>1, <2>2, <2>3, <2>4, <2>5, KeptSafe DEF Safety
<1>29. ASSUME NEW c \in Conns, NEW p \in Procs, SyncRebind(c, p) PROVE Safety'
  <2>1. KillJobs'
    BY <1>29 DEF KillJobs, SyncRebind, Conns
  <2>2. OwnIsEnded'
    BY <1>29
       DEF OwnIsEnded, SyncRebind, RowsTrue, OutcomesTrue, JobsTrue,
           FramesTrue, Ended, netVars, wVars
  <2>3. ReadySynced'
    BY <1>29 DEF ReadySynced, SyncRebind, SyncSent, netVars, wVars, ConnOK
  <2>4. ExitAfterSync'
    BY <1>29 DEF ExitAfterSync, SyncRebind, netVars, ConnOK
  <2>5. UNCHANGED <<wp, outcome, lpc, holder, link, ready, reg, srv>>
    BY <1>29 DEF SyncRebind, netVars, wVars, connVars, recVars, reqVars, supVars
  <2> QED
    BY <2>1, <2>2, <2>3, <2>4, <2>5, KeptSafe DEF Safety
<1>30. ASSUME NEW c \in Conns, NEW p \in Procs, EditResult(p, c) PROVE Safety'
  <2>1. UNCHANGED <<wp, outcome, jobs, lpc, holder, row, up, link,
                    ready, reg, srv, sync>>
    BY <1>30 DEF EditResult, netVars, wVars, connVars, recVars, reqVars, supVars
  <2> QED
    BY <2>1, KeptSafe DEF Safety
<1>31. ASSUME NEW c \in Conns, NEW p \in Procs,
            NEW kind \in {"PROCESS", "own", "lost"}, Status(c, p, kind)
     PROVE  Safety'
  <2>1. FramesTrue' /\ ExitAfterSync' /\
        (\A d \in Conns : SyncSent(d) => SyncSent(d)')
        /\ (kind = "own" => Ended(p))
    BY <1>31, TakeKeeps DEF Status, wVars
  <2>2. KillJobs'
    BY <1>31, StartKeeps, <2>1 DEF KillJobs, Status, wVars
  <2>3. OwnIsEnded'
    BY <1>31, StartKeeps, <2>1
       DEF OwnIsEnded, Status, RowsTrue, OutcomesTrue, JobsTrue, Ended, wVars
  <2>4. ReadySynced'
    BY <1>31, <2>1 DEF ReadySynced, Status, wVars
  <2>5. ExitAfterSync'
    BY <2>1
  <2>6. UNCHANGED <<wp, outcome, lpc, holder, link, ready, reg, srv>>
    BY <1>31 DEF Status, netVars, wVars, connVars, recVars, reqVars, supVars
  <2> QED
    BY <2>1, <2>2, <2>3, <2>4, <2>5, <2>6, KeptSafe DEF Safety
<1>32. ASSUME NEW p \in Procs, LaunchRegister(p) PROVE Safety'
  <2>1. Started'
    BY <1>32 DEF Started, LaunchRegister, ReqOK, wVars
  <2>2. OwnIsEnded'
    BY <1>32
       DEF OwnIsEnded, LaunchRegister, RowsTrue, OutcomesTrue, JobsTrue,
           FramesTrue, Ended, RecOK, netVars, wVars
  <2>3. UNCHANGED <<wp, outcome, jobs, link, ready, reg, srv, up, sync>>
    BY <1>32
       DEF LaunchRegister, netVars, wVars, connVars, recVars, reqVars, supVars
  <2> QED
    BY <2>1, <2>2, <2>3, KeptSafe DEF Safety
<1>33. ASSUME NEW p \in Procs, LaunchCall(p) PROVE Safety'
  <2>1. Finishing'
    BY <1>33 DEF Finishing, LaunchCall, WorkerOK
  <2>2. Started'
    BY <1>33 DEF Started, LaunchCall, WorkerOK, ReqOK
  <2>3. UNCHANGED <<jobs, row, outcome, holder, up, link, ready, reg, srv, sync>>
    BY <1>33 DEF LaunchCall, netVars, wVars, connVars, recVars, reqVars, supVars
  <2> QED
    BY <2>1, <2>2, <2>3, KeptSafe DEF Safety
<1>34. ASSUME NEW p \in Procs, LaunchDone(p) PROVE Safety'
  <2>1. Started'
    BY <1>34 DEF Started, LaunchDone, ReqOK, wVars
  <2>2. UNCHANGED <<wp, outcome, jobs, row, holder, up, link, ready, reg,
                    srv, sync>>
    BY <1>34 DEF LaunchDone, netVars, wVars, connVars, recVars, reqVars, supVars
  <2> QED
    BY <2>1, <2>2, KeptSafe DEF Safety
<1>35. ASSUME NEW p \in Procs, LaunchFails(p) PROVE Safety'
  <2>1. Started'
    BY <1>35 DEF Started, LaunchFails, ReqOK, wVars, CallFailed
  <2>2. UNCHANGED <<wp, outcome, jobs, row, holder, up, link, ready, reg,
                    srv, sync>>
    BY <1>35
       DEF LaunchFails, netVars, wVars, connVars, recVars, reqVars, supVars
  <2> QED
    BY <2>1, <2>2, KeptSafe DEF Safety
<1>36. ASSUME NEW p \in Procs, FailExec(p) PROVE Safety'
  <2>1. KillJobs'
    BY <1>36, StartKeeps DEF KillJobs, FailExec, wVars
  <2>2. Started'
    BY <1>36 DEF Started, FailExec, ReqOK, wVars
  <2>3. OwnIsEnded'
    BY <1>36, StartKeeps
       DEF OwnIsEnded, FailExec, RowsTrue, OutcomesTrue, FramesTrue, Ended,
           netVars, wVars
  <2>4. UNCHANGED <<wp, outcome, link, ready, reg, srv, up, sync>>
    BY <1>36 DEF FailExec, netVars, wVars, connVars, recVars, reqVars, supVars
  <2> QED
    BY <2>1, <2>2, <2>3, <2>4, KeptSafe DEF Safety
<1>37. ASSUME NEW p \in Procs, KillRequest(p) PROVE Safety'
  <2>1. OwnIsEnded'
    BY <1>37
       DEF OwnIsEnded, KillRequest, RowsTrue, OutcomesTrue, JobsTrue,
           FramesTrue, Ended, RecOK, netVars, wVars
  <2>2. UNCHANGED <<wp, outcome, jobs, lpc, holder, link, ready, reg, srv,
                    up, sync>>
    BY <1>37
       DEF KillRequest, netVars, wVars, connVars, recVars, reqVars, supVars
  <2> QED
    BY <2>1, <2>2, KeptSafe DEF Safety
<1>38. ASSUME NEW p \in Procs, SendKill(p) PROVE Safety'
  <2>1. UNCHANGED <<wp, outcome, jobs, lpc, holder, row, up, link,
                    ready, reg, srv, sync>>
    BY <1>38 DEF SendKill, netVars, wVars, connVars, recVars, reqVars, supVars
  <2> QED
    BY <2>1, KeptSafe DEF Safety
<1>39. ASSUME SupervisorRestarts PROVE Safety'
  <2>1. KillJobs'
    BY <1>39 DEF KillJobs, SupervisorRestarts
  <2>2. Started'
    BY <1>39 DEF Started, SupervisorRestarts, ReqOK
  <2>3. OwnIsEnded'
    BY <1>39
       DEF OwnIsEnded, SupervisorRestarts, RowsTrue, OutcomesTrue, JobsTrue,
           FramesTrue, Ended
  <2>4. Lifetimes'
    BY <1>39 DEF Lifetimes, SupervisorRestarts, NetOK, ConnOK, WorkerOK
  <2>5. ReadySynced'
    BY <1>39 DEF ReadySynced, SupervisorRestarts, NetOK
  <2>6. ExitAfterSync'
    BY <1>39 DEF ExitAfterSync, SupervisorRestarts
  <2>7. UNCHANGED <<wp, outcome>>
    BY <1>39
       DEF SupervisorRestarts, netVars, wVars, connVars, recVars, reqVars,
           supVars
  <2> QED
    BY <2>1, <2>2, <2>3, <2>4, <2>5, <2>6, <2>7, KeptSafe DEF Safety
<1>40. CASE UNCHANGED vars
  BY <1>40, KeptSafe
     DEF Safety, vars, netVars, wVars, connVars, recVars, reqVars, supVars
<1> QED
  BY <1>1, <1>2, <1>3, <1>4, <1>5, <1>6, <1>7, <1>8, <1>9, <1>9a, <1>10,
     <1>11, <1>12, <1>13, <1>14, <1>15, <1>16, <1>17, <1>18, <1>19, <1>20, <1>21,
     <1>22, <1>23, <1>24, <1>25, <1>26, <1>27, <1>28, <1>29, <1>30, <1>31,
     <1>32, <1>33, <1>34, <1>35, <1>36, <1>37, <1>38, <1>39, <1>40
     DEF Next, WorkerNext, SupervisorNext

-----------------------------------------------------------------------------
(* The theorems.                                                           *)

LEMMA InitInv == Init => IInv
<1> SUFFICES ASSUME Init PROVE IInv
  OBVIOUS
<1> USE BoundsAssumption
<1>1. NetOK
  BY DEF Init, NetOK
<1>2. WorkerOK
  <2>1. wup \in BOOLEAN /\ session \in [Conns -> BOOLEAN]
    BY DEF Init
  <2> QED
    BY <2>1 DEF Init, WorkerOK
<1>3. ConnOK
  <2>1. auth \in [Conns -> BOOLEAN]
    BY DEF Init
  <2>2. sync \in [Conns -> Syncs]
    BY FieldTypes DEF Init
  <2> QED
    BY <2>1, <2>2 DEF Init, ConnOK, Syncs
<1>4. RecOK
  <2>1. entry \in [Procs -> Entries]
    BY FieldTypes DEF Init
  <2>2. row \in [Procs -> Rows]
    BY StatusTypes DEF Init, Rows
  <2> QED
    BY <2>1, <2>2, StatusTypes DEF Init, RecOK, Entries, Rows
<1>5. ReqOK
  BY StatusTypes DEF Init, ReqOK
<1>6. Finishing /\ KillJobs /\ Started /\ OwnIsEnded
  BY DEF Init, Finishing, KillJobs, Started, OwnIsEnded, RowsTrue,
         OutcomesTrue, JobsTrue, FramesTrue
<1>7. Lifetimes /\ ReadySynced /\ ExitAfterSync
  BY DEF Init, Lifetimes, ReadySynced, ExitAfterSync, Conns
<1> QED
  BY <1>1, <1>2, <1>3, <1>4, <1>5, <1>6, <1>7 DEF IInv, TypeOK, Safety

(* IInv is an invariant of every instance.                                 *)
THEOREM Invariance == Spec => []IInv
<1>1. IInv /\ [Next]_vars => IInv'
  BY TypeStep, SafetyStep DEF IInv, Safety
<1> QED
  BY InitInv, <1>1, PTL DEF Spec

(* Type correctness of worker, connections and supervisor.                 *)
THEOREM TypeCorrect == Spec => []TypeOK
<1>1. IInv => TypeOK
  BY DEF IInv
<1> QED
  BY Invariance, <1>1, PTL

(* A row says COMPLETED only of a process that returned: whatever breaks,  *)
(* restarts, overlaps or comes late (all Windows), no clean-up, rebind,    *)
(* sync or launch failure of the supervisor invents an exit code.          *)
THEOREM ExitsAreTrue == Spec => []RecordedExitIsTrue
<1>1. IInv => RecordedExitIsTrue
  BY DEF IInv, Safety, OwnIsEnded, RowsTrue, Ended, RecordedExitIsTrue
<1> QED
  BY Invariance, <1>1, PTL

(* finish reports an exit on a connection only behind the MsgSync of that  *)
(* connection, in every race between REGISTER, breaks and restarts.        *)
THEOREM SyncComesFirst == Spec => []ExitAfterSync
<1>1. IInv => ExitAfterSync
  BY DEF IInv, Safety
<1> QED
  BY Invariance, <1>1, PTL

-----------------------------------------------------------------------------
(***************************************************************************)
(* What the supervisor keeps of a process, with the races of Calm at most: *)
(* the end recorded is the end, browsers were told the same, nothing the   *)
(* worker has is closed as lost, what it has can be reached, and its exits *)
(* arrive.                                                                 *)
(***************************************************************************)

(* A read-back may overtake the exit only where nothing is edited.         *)
ReadBacksWait == "readback" \in Windows => Edits = {}

(* The windows under which the properties hold together.                   *)
Calm == Windows \subseteq {"lost", "stale", "kill", "readback"} /\ ReadBacksWait

(* The frames on a connection, and what they are about.                    *)
Sent(c) == {up[c][i] : i \in DOMAIN up[c]}
ExitOn(c, p) == \E f \in Sent(c) : f.kind \in {"own", "lost"} /\ p \in f.procs
RunsOn(c, p) == \E f \in Sent(c) : f.kind = "PROCESS" /\ p \in f.procs
SyncOn(c) == \E f \in Sent(c) : f.kind = "sync"

(* A frame g may be behind f: a connection has one sync, after a sync or   *)
(* an exit nothing is sent of a process that it says has ended, and no     *)
(* exit comes before the sync.                                             *)
Follows(f, g) ==
  /\ f.kind # "sync" /\ g.kind # "sync"
       => \A p \in f.procs \cap g.procs : f.kind = "PROCESS" \/ g.kind # "PROCESS"
  /\ f.kind = "sync" => g.kind # "sync" /\ g.procs \subseteq f.procs
  /\ g.kind = "sync" => f.kind = "PROCESS"

Ordered ==
  \A c \in Conns : \A k \in DOMAIN up[c] : \A i \in 1 .. k - 1 : Follows(up[c][i], up[c][k])

-----------------------------------------------------------------------------
(* Connections: at most one is up, and it is the last one dialled.         *)
LinkAt(c) ==
  /\ (link[c] = "unused") <=> (srv[c] = "unused")
  /\ (link[c] = "unused") <=> (reg[c] = "none")
  /\ link[c] = "unused" => /\ up[c] = <<>> /\ ~auth[c] /\ sync[c].at = "no"
                           /\ ~session[c] /\ ready # c /\ wconn # c
  /\ link[c] = "up" => session[c] /\ srv[c] = "serving"
  /\ session[c] => wup
  /\ \A d \in Conns : /\ d > c /\ link[c] = "up" => link[d] = "unused"
                      /\ d > c /\ link[c] = "unused" => link[d] = "unused"
                      /\ session[c] /\ session[d] => c = d

Links == \A c \in Conns : LinkAt(c)

(* A connection that is no longer served has nothing left to handle.       *)
DrainedAt(c) ==
  srv[c] \notin {"unused", "serving"} =>
    /\ up[c] = <<>> /\ sync[c].at # "on"
    /\ \A j \in jobs : j.by # <<"dispatch", c>>

Drained == \A c \in Conns : DrainedAt(c)

(* The registry has the connection that is served; older ones are closed.  *)
Past(c) == auth[c] /\ reg[c] \notin {"none", "asked", "refused"}

RegistryAt(c) ==
  /\ auth[c] /\ reg[c] # "asked" => registry = c \/ srv[c] \in {"removed", "pending", "closed"}
  /\ srv[c] \in {"ended", "removed", "pending"} => Past(c)
  /\ srv[c] \in {"removed", "pending"} => registry = 0
  /\ srv[c] \in {"removed", "pending"} => \A d \in Conns \ {c} : srv[d] \notin {"removed", "pending"}
  /\ reg[c] \in {"none", "refused"} => ~auth[c]
  /\ link[c] = "up" /\ reg[c] \in {"answered", "synced", "done"} => registry = c
  /\ ready = c /\ link[c] = "up" => reg[c] = "done"
  /\ pend[c] # {} => srv[c] = "pending"

Registered ==
  /\ registry # 0 => /\ Past(registry) /\ srv[registry] \in {"serving", "ended"}
                     /\ \A d \in Conns : d < registry => srv[d] = "closed"
  /\ \A c \in Conns : RegistryAt(c)

(* What is behind REGISTER: sync and exits.                                *)
SyncedAt(c) ==
  /\ sync[c].at # "no" \/ SyncOn(c) \/ (\E p \in Procs : ExitOn(c, p))
       => auth[c] /\ reg[c] \in {"synced", "done"}
  /\ sync[c].at # "no" => ~SyncOn(c)

Synced == \A c \in Conns : SyncedAt(c)

(* A job works on the entry in memory, for a thread that is at it.         *)
Placed(j) ==
  /\ j.conn = entry[j.p].conn
  /\ j.by[1] = "dispatch" =>
       /\ srv[j.by[2]] = "serving" /\ j.status \in {"PROCESS", "own", "lost"}
       /\ j.status # "PROCESS" => registry = j.by[2] /\ sync[j.by[2]].at # "no"
  /\ j.by[1] = "cleanup" => srv[j.by[2]] = "pending" /\ j.status = "PENDING"
  /\ j.by[1] = "launch" => lpc[j.p] = "undo" /\ j.by[2] = j.p /\ j.status = "notStarted"
  /\ (j.then = "remove") <=> (j.by[1] = "launch")
  /\ j.then = "publish" => j.status = "lost"

JobPlaces ==
  /\ \A j, k \in jobs : j.p = k.p => j = k
  /\ \A j \in jobs : Placed(j)

(* Exec, from the row it creates to its answer.                            *)
Launching(p) == lpc[p] \in {"ready", "called", "failing", "undo"}

LaunchOf(p) ==
  /\ Launching(p) =>
       /\ lconn[p] # 0 /\ Past(lconn[p]) /\ sync[lconn[p]].at = "done"
       /\ registry \in {0, lconn[p]}
       /\ wp[p] # "none" => link[lconn[p]] = "up"
       /\ lpc[p] = "called" /\ wp[p] = "none" => link[lconn[p]] # "up"
  /\ Launching(p) /\ wp[p] \in {"none", "asked", "spawning", "rejected"} =>
       /\ entry[p] = [conn |-> lconn[p], status |-> "PENDING", open |-> TRUE]
       /\ row[p].status = "PENDING"
       /\ kpc[p] = "committed" => krec[p] = "PENDING"
       /\ \A j \in jobs : j.p = p =>
            IF lpc[p] = "undo" THEN j.by[1] = "launch" /\ j.live ELSE j.by[1] = "cleanup" /\ ~j.live
  /\ (lpc[p] = "none") <=> (row[p].status = "none")
  /\ lpc[p] = "none" => entry[p] = NoEntry /\ kpc[p] = "none"
  /\ lpc[p] \in {"none", "ready"} => wp[p] = "none"
  /\ lpc[p] = "undo" => \E j \in jobs : j.p = p
  /\ lpc[p] \in {"failing", "undo"} => wp[p] \in {"none", "rejected"}
  /\ wp[p] \in {"asked", "spawning"} => lpc[p] = "called"
  /\ wp[p] # "orphan"
  /\ lpc[p] = "done" /\ wp[p] = "rejected" => row[p].status = "notStarted"
  /\ row[p].status = "notStarted" => lpc[p] = "done" /\ wp[p] \in {"none", "rejected"}
  /\ kpc[p] = "committed" => krec[p] \in {"PENDING", "PROCESS"}

Launches == \A p \in Procs : LaunchOf(p)

(* An end the worker has learnt stays, and it never runs again.            *)
OutcomeOf(p) ==
  /\ outcome[p] = "lost" => holder[p] = "gone"
  /\ outcome[p] # "none" => wp[p] \in {"finishing", "reported", "held", "over"}
  /\ wp[p] = "held" => ~wup

Outcomes == \A p \in Procs : OutcomeOf(p)

(* A frame about a process that the worker was asked for.                  *)
Admitted(p) == wp[p] \in {"attached", "running", "finishing", "reported", "held", "over"}

About(c, f) ==
  f.kind # "sync" =>
    \E p \in Procs :
      /\ f.procs = {p} /\ Admitted(p)
      /\ f.kind # "PROCESS" => /\ outcome[p] = f.kind
                               /\ link[c] = "up" => wp[p] \in {"reported", "over"}

Carried == \A c \in Conns : \A f \in Sent(c) : About(c, f)

(* The worker will never have p, and says nothing more of it.              *)
Gone(p) == wp[p] \in {"none", "over"} /\ lpc[p] = "done"
Untold(p) == \A c \in Conns : ~ExitOn(c, p)

EndOf(p) ==
  /\ row[p].status = "own" => outcome[p] = "own"
  /\ row[p].status = "lost" => outcome[p] = "lost" \/ (Gone(p) /\ Untold(p))
  /\ \A j \in jobs : j.p = p =>
       /\ j.status = "own" => outcome[p] = "own"
       /\ j.status = "lost" => outcome[p] = "lost" \/ (j.then = "publish" /\ Gone(p) /\ Untold(p))
  /\ entry[p].status \in Exits => row[p].status \in Exits
  /\ entry[p].conn = 0 => entry[p] = NoEntry
  /\ entry[p].conn # 0 => Past(entry[p].conn)
  /\ entry[p].conn # 0 /\ Active(p) => entry[p].open
  /\ row[p].status \in Exits => seen[p] = row[p].status /\ ~entry[p].open

Ends == \A p \in Procs : EndOf(p)

(* A PROCESS on its way: the end is not known anywhere else.               *)
RunningOn(c, p) ==
  RunsOn(c, p) =>
    /\ Active(p)
    /\ \A j \in jobs : j.p = p => j.status \notin Exits
    /\ \A d \in Conns : d # c => ~ExitOn(d, p)

Running == \A c \in Conns, p \in Procs : RunningOn(c, p)

(* What a sync does not list the worker will never have again.             *)
Unlisted(p) == wp[p] \in {"none", "rejected", "over"} /\ Untold(p)

Told(c, p) ==
  /\ sync[c].at = "on" /\ p \notin sync[c].has =>
       Unlisted(p) /\ \A d \in Conns : ~RunsOn(d, p)
  /\ \A f \in Sent(c) : f.kind = "sync" /\ p \notin f.procs =>
       Unlisted(p) /\ \A d \in Conns : d # c => ~RunsOn(d, p)

SyncTells == \A c \in Conns, p \in Procs : Told(c, p)

(* Rows listed by a clean-up or a sync are still active.                   *)
ListedAt(c) ==
  /\ \A p \in pend[c] : Active(p) \/ (entry[p].conn = 0 /\ row[p].status # "none")
  /\ sync[c].at = "on" => \A p \in sync[c].todo :
       Active(p) /\ \A j \in jobs : j.p = p => j.status = "PROCESS"

Listed == \A c \in Conns : ListedAt(c)

Fits(j) ==
  /\ row[j.p].status # "none"
  /\ j.then = "publish" => Active(j.p)
  /\ j.live => Active(j.p) \/ row[j.p].status = j.status
  /\ j.status \in Exits /\ Active(j.p) => j.live /\ (j.conn # 0 \/ j.then = "publish")

JobsFit == \A j \in jobs : Fits(j)

(* After a sync what the worker has is bound, to whatever connection.      *)
BoundTo(p) ==
  registry # 0 /\ Active(p) =>
    /\ sync[registry].at = "on" /\ p \in sync[registry].has
         => p \in sync[registry].todo \/ entry[p].conn # 0
    /\ sync[registry].at = "done" /\ (p \in procs \/ wp[p] = "held" \/ ExitOn(registry, p))
       => entry[p].conn # 0

Bound == \A p \in Procs : BoundTo(p)

(* A read-back is behind the exit.                                         *)
Behind(p, c) ==
  <<p, c>> \in edits =>
    \/ row[p].status \in Exits
    \/ ExitOn(c, p)
    \/ \E j \in jobs : j.p = p /\ j.status \in Exits

EditsBehind == \A p \in Procs, c \in Conns : Behind(p, c)

Core ==
  /\ Ordered /\ Links /\ Drained /\ Registered /\ Synced /\ JobPlaces /\ Launches
  /\ Outcomes /\ Carried /\ Ends /\ Running /\ SyncTells /\ Listed /\ JobsFit /\ Bound /\ EditsBehind

-----------------------------------------------------------------------------
(* Lemmas on queues.                                                       *)

LEMMA SentIn ==
  ASSUME NetOK
  PROVE  \A c \in Conns : /\ Sent(c) \subseteq Frames
                          /\ (Sent(c) = {}) <=> (up[c] = <<>>)
                          /\ up[c] \in Seq(Frames)
<1> SUFFICES ASSUME NEW c \in Conns
             PROVE  /\ Sent(c) \subseteq Frames
                    /\ (Sent(c) = {}) <=> (up[c] = <<>>)
                    /\ up[c] \in Seq(Frames)
  OBVIOUS
<1>1. up[c] \in Seq(Frames)
  BY DEF NetOK
<1>2. up[c] # <<>> => 1 \in DOMAIN up[c]
  BY <1>1
<1>3. up[c] = <<>> => DOMAIN up[c] = {}
  BY <1>1
<1>4. up[c] # <<>> => up[c][1] \in Sent(c)
  BY <1>2 DEF Sent
<1>5. up[c] = <<>> => Sent(c) = {}
  BY <1>3 DEF Sent
<1>6. Sent(c) \subseteq Frames
  BY <1>1 DEF Sent
<1> QED
  BY <1>1, <1>4, <1>5, <1>6

LEMMA SentKept ==
  ASSUME UNCHANGED up
  PROVE  /\ \A c : Sent(c)' = Sent(c) /\ SyncOn(c)' = SyncOn(c)
         /\ \A c, p : ExitOn(c, p)' = ExitOn(c, p) /\ RunsOn(c, p)' = RunsOn(c, p)
         /\ Ordered => Ordered'
         /\ \A p : Untold(p)' = Untold(p)
  BY DEF Sent, SyncOn, ExitOn, RunsOn, Ordered, Untold

(* Written behind what is there.                                           *)
LEMMA EmitSent ==
  ASSUME NetOK, Ordered, NEW c \in 0 .. MaxConn, NEW kind, NEW S, Emit(c, kind, S),
         c # 0 /\ link[c] = "up" => \A f \in Sent(c) : Follows(f, [kind |-> kind, procs |-> S])
  PROVE  /\ Ordered'
         /\ \A d \in Conns : Sent(d)' = IF d = c /\ link[c] = "up"
                                        THEN Sent(d) \cup {[kind |-> kind, procs |-> S]} ELSE Sent(d)
<1> DEFINE f == [kind |-> kind, procs |-> S]
<1>1. CASE ~(c # 0 /\ link[c] = "up")
  BY <1>1, SentKept, BoundsAssumption DEF Emit, Conns
<1>2. CASE c # 0 /\ link[c] = "up"
  <2>1. c \in Conns
    BY <1>2, BoundsAssumption DEF Conns
  <2>2. \A d \in Conns : up[d] \in Seq(Frames)
    BY DEF NetOK
  <2>3. /\ Len(up'[c]) = Len(up[c]) + 1 /\ DOMAIN up'[c] = 1 .. Len(up[c]) + 1
        /\ up'[c][Len(up[c]) + 1] = f
        /\ \A i \in 1 .. Len(up[c]) : up'[c][i] = up[c][i]
        /\ \A d \in Conns \ {c} : up'[d] = up[d]
    BY <1>2, <2>1, <2>2 DEF NetOK, Emit
  <2>4. DOMAIN up[c] = 1 .. Len(up[c]) /\ Len(up[c]) \in Nat
    BY <2>1, <2>2
  <2>5. \A d \in Conns : Sent(d)' = IF d = c THEN Sent(d) \cup {f} ELSE Sent(d)
    <3>1. \A d \in Conns \ {c} : Sent(d)' = Sent(d)
      BY <2>3 DEF Sent
    <3> HIDE DEF f
    <3>3. \A i \in 1 .. Len(up[c]) + 1 : i = Len(up[c]) + 1 \/ i \in 1 .. Len(up[c])
      BY <2>4
    <3>4. Sent(c)' \subseteq Sent(c) \cup {f}
      BY <2>3, <2>4, <3>3 DEF Sent
    <3>5. Sent(c) \subseteq Sent(c)'
      BY <2>3, <2>4 DEF Sent
    <3>6. f \in Sent(c)'
      BY <2>3, <2>4 DEF Sent
    <3>2. Sent(c)' = Sent(c) \cup {f}
      BY <3>4, <3>5, <3>6
    <3> QED  BY <3>1, <3>2
  <2>6. Ordered'
    <3> SUFFICES ASSUME NEW d \in Conns, NEW k \in DOMAIN up'[d], NEW i \in 1 .. k - 1
                 PROVE  Follows(up'[d][i], up'[d][k])
      BY DEF Ordered
    <3>1. CASE d # c
      BY <2>3, <3>1 DEF Ordered
    <3>2. CASE d = c /\ k \in 1 .. Len(up[c])
      BY <2>3, <2>4, <3>2 DEF Ordered
    <3>3. CASE d = c /\ k = Len(up[c]) + 1
      <4>1. i \in DOMAIN up[c]
        BY <2>4, <3>3
      <4>2. up[c][i] \in Sent(c)
        BY <4>1 DEF Sent
      <4> QED  BY <1>2, <2>3, <2>4, <3>3, <4>1, <4>2
    <3> QED  BY <2>3, <2>4, <3>1, <3>2, <3>3
  <2> QED  BY <1>2, <2>5, <2>6
<1> QED  BY <1>1, <1>2

(* Read off.                                                               *)
LEMMA TakeSent ==
  ASSUME NetOK, Ordered, NEW c \in Conns, up[c] # <<>>, up' = [up EXCEPT ![c] = Tail(@)]
  PROVE  /\ Ordered'
         /\ Head(up[c]) \in Sent(c)
         /\ Sent(c) = Sent(c)' \cup {Head(up[c])}
         /\ \A g \in Sent(c)' : Follows(Head(up[c]), g)
         /\ \A d \in Conns \ {c} : Sent(d)' = Sent(d)
<1>1. \A d \in Conns : up[d] \in Seq(Frames)
  BY DEF NetOK
<1>2. /\ Len(up[c]) \in Nat \ {0} /\ DOMAIN up[c] = 1 .. Len(up[c])
      /\ Len(up'[c]) = Len(up[c]) - 1 /\ DOMAIN up'[c] = 1 .. Len(up[c]) - 1
      /\ \A i \in 1 .. Len(up[c]) - 1 : up'[c][i] = up[c][i + 1]
      /\ Head(up[c]) = up[c][1]
      /\ \A d \in Conns \ {c} : up'[d] = up[d]
  BY <1>1 DEF NetOK
<1>3. \A d \in Conns \ {c} : Sent(d)' = Sent(d)
  BY <1>2 DEF Sent
<1>4. Head(up[c]) \in Sent(c)
  BY <1>2 DEF Sent
<1>5. ASSUME NEW g \in Sent(c)' PROVE g \in Sent(c) /\ Follows(Head(up[c]), g)
  <2>1. PICK i \in 1 .. Len(up[c]) - 1 : g = up[c][i + 1]
    BY <1>2 DEF Sent
  <2>2. i + 1 \in DOMAIN up[c] /\ 1 \in 1 .. (i + 1) - 1
    BY <1>2
  <2> QED  BY <1>2, <2>1, <2>2 DEF Sent, Ordered
<1>6. ASSUME NEW g \in Sent(c), g # Head(up[c]) PROVE g \in Sent(c)'
  <2>1. PICK i \in 1 .. Len(up[c]) : g = up[c][i]
    BY <1>2 DEF Sent
  <2>2. i - 1 \in 1 .. Len(up[c]) - 1 /\ up'[c][i - 1] = g
    BY <1>2, <1>6, <2>1
  <2> QED  BY <1>2, <2>2 DEF Sent
<1>7. Ordered'
  <2> SUFFICES ASSUME NEW d \in Conns, NEW k \in DOMAIN up'[d], NEW i \in 1 .. k - 1
               PROVE  Follows(up'[d][i], up'[d][k])
    BY DEF Ordered
  <2>1. CASE d # c
    BY <1>2, <2>1 DEF Ordered
  <2>2. CASE d = c
    <3>1. /\ k + 1 \in DOMAIN up[c] /\ i + 1 \in 1 .. (k + 1) - 1
          /\ up'[c][k] = up[c][k + 1] /\ up'[c][i] = up[c][i + 1]
      BY <1>2, <2>2
    <3> QED  BY <2>2, <3>1 DEF Ordered
  <2> QED  BY <2>1, <2>2
<1> QED  BY <1>3, <1>4, <1>5, <1>6, <1>7

(* Lost from some point on.                                                *)
LEMMA PrefixSent ==
  ASSUME NetOK, Ordered, NEW c \in Conns, NEW n \in 0 .. Len(up[c]),
         up' = [up EXCEPT ![c] = SubSeq(@, 1, n)]
  PROVE  /\ Ordered'
         /\ Sent(c)' \subseteq Sent(c)
         /\ \A d \in Conns \ {c} : Sent(d)' = Sent(d)
<1>1. \A d \in Conns : up[d] \in Seq(Frames)
  BY DEF NetOK
<1>2. /\ Len(up[c]) \in Nat /\ DOMAIN up[c] = 1 .. Len(up[c])
      /\ DOMAIN up'[c] = 1 .. n
      /\ \A i \in 1 .. n : up'[c][i] = up[c][i]
      /\ \A d \in Conns \ {c} : up'[d] = up[d]
  BY <1>1 DEF NetOK
<1>3. \A d \in Conns \ {c} : Sent(d)' = Sent(d)
  BY <1>2 DEF Sent
<1>4. Sent(c)' \subseteq Sent(c)
  BY <1>2 DEF Sent
<1>5. Ordered'
  <2> SUFFICES ASSUME NEW d \in Conns, NEW k \in DOMAIN up'[d], NEW i \in 1 .. k - 1
               PROVE  Follows(up'[d][i], up'[d][k])
    BY DEF Ordered
  <2>1. CASE d # c
    BY <1>2, <2>1 DEF Ordered
  <2>2. CASE d = c
    BY <1>2, <2>2 DEF Ordered
  <2> QED  BY <2>1, <2>2
<1> QED  BY <1>3, <1>4, <1>5

-----------------------------------------------------------------------------
(* A part keeps holding while what it is about does not change.            *)
LEMMA CoreKept ==
  ASSUME Core
  PROVE  /\ UNCHANGED up => Ordered'
         /\ UNCHANGED <<link, srv, reg, up, auth, sync, session, ready, wconn, wup>> => Links'
         /\ UNCHANGED <<srv, up, sync, jobs>> => Drained'
         /\ UNCHANGED <<registry, auth, reg, srv, link, ready, pend>> => Registered'
         /\ UNCHANGED <<sync, up, auth, reg>> => Synced'
         /\ UNCHANGED <<jobs, entry, srv, registry, sync, lpc>> => JobPlaces'
         /\ UNCHANGED <<lpc, lconn, auth, reg, sync, registry, wp, link, entry, row, kpc, krec, jobs>> => Launches'
         /\ UNCHANGED <<outcome, holder, wp, wup>> => Outcomes'
         /\ UNCHANGED <<up, wp, outcome, link>> => Carried'
         /\ UNCHANGED <<row, outcome, wp, lpc, up, jobs, entry, auth, reg, seen>> => Ends'
         /\ UNCHANGED <<up, row, jobs>> => Running'
         /\ UNCHANGED <<sync, up, wp>> => SyncTells'
         /\ UNCHANGED <<pend, row, entry, sync, jobs>> => Listed'
         /\ UNCHANGED <<jobs, row>> => JobsFit'
         /\ UNCHANGED <<registry, row, sync, entry, wp, up>> => Bound'
         /\ UNCHANGED <<edits, row, up, jobs>> => EditsBehind'
<1>1. Ordered /\ Links /\ Drained /\ Registered /\ Synced /\ JobPlaces /\ Launches /\ Outcomes
  BY DEF Core
<1>2. Carried /\ Ends /\ Running /\ SyncTells /\ Listed /\ JobsFit /\ Bound /\ EditsBehind
  BY DEF Core
<1>3. /\ UNCHANGED up => Ordered'
      /\ UNCHANGED <<link, srv, reg, up, auth, sync, session, ready, wconn, wup>> => Links'
      /\ UNCHANGED <<srv, up, sync, jobs>> => Drained'
      /\ UNCHANGED <<registry, auth, reg, srv, link, ready, pend>> => Registered'
  BY <1>1 DEF Ordered, Links, LinkAt, Drained, DrainedAt, Registered, RegistryAt, Past
<1>4. /\ UNCHANGED <<sync, up, auth, reg>> => Synced'
      /\ UNCHANGED <<jobs, entry, srv, registry, sync, lpc>> => JobPlaces'
      /\ UNCHANGED <<outcome, holder, wp, wup>> => Outcomes'
  BY <1>1, SentKept DEF Synced, SyncedAt, JobPlaces, Placed, Outcomes, OutcomeOf
<1>5. UNCHANGED <<lpc, lconn, auth, reg, sync, registry, wp, link, entry, row, kpc, krec, jobs>> => Launches'
  BY <1>1 DEF Launches, LaunchOf, Launching, Past
<1>6. /\ UNCHANGED <<up, wp, outcome, link>> => Carried'
      /\ UNCHANGED <<up, row, jobs>> => Running'
      /\ UNCHANGED <<sync, up, wp>> => SyncTells'
  BY <1>2, SentKept DEF Carried, About, Admitted, Running, RunningOn, Active, SyncTells, Told, Unlisted
<1>7. UNCHANGED <<row, outcome, wp, lpc, up, jobs, entry, auth, reg, seen>> => Ends'
  BY <1>2, SentKept DEF Ends, EndOf, Gone, Past, Active
<1>8. /\ UNCHANGED <<pend, row, entry, sync, jobs>> => Listed'
      /\ UNCHANGED <<jobs, row>> => JobsFit'
      /\ UNCHANGED <<registry, row, sync, entry, wp, up>> => Bound'
      /\ UNCHANGED <<edits, row, up, jobs>> => EditsBehind'
  BY <1>2, SentKept DEF Listed, ListedAt, JobsFit, Fits, Bound, BoundTo, EditsBehind, Behind, Active, procs, Attached
<1> QED  BY <1>3, <1>4, <1>5, <1>6, <1>7, <1>8

(* What a frame written, read or lost changes of what is on its way.       *)
LEMMA EmitTold ==
  ASSUME NetOK, Ordered, NEW c \in 0 .. MaxConn, NEW kind, NEW S, Emit(c, kind, S),
         c # 0 /\ link[c] = "up" => \A f \in Sent(c) : Follows(f, [kind |-> kind, procs |-> S])
  PROVE  \A d \in Conns :
           LET written == d = c /\ link[c] = "up" IN
           /\ ~written => up'[d] = up[d]
           /\ SyncOn(d)' <=> SyncOn(d) \/ (written /\ kind = "sync")
           /\ \A p : /\ ExitOn(d, p)' <=>
                          ExitOn(d, p) \/ (written /\ kind \in {"own", "lost"} /\ p \in S)
                     /\ RunsOn(d, p)' <=> RunsOn(d, p) \/ (written /\ kind = "PROCESS" /\ p \in S)
<1>1. \A d \in Conns : Sent(d)' = IF d = c /\ link[c] = "up"
                                  THEN Sent(d) \cup {[kind |-> kind, procs |-> S]} ELSE Sent(d)
  BY EmitSent
<1>2. ASSUME NEW d \in Conns, ~(d = c /\ link[c] = "up")
      PROVE  up'[d] = up[d]
  BY <1>2 DEF Emit, NetOK
<1> QED
  BY <1>1, <1>2 DEF SyncOn, ExitOn, RunsOn

LEMMA TakeTold ==
  ASSUME NetOK, Ordered, NEW c \in Conns, up[c] # <<>>, up' = [up EXCEPT ![c] = Tail(@)]
  PROVE  LET h == Head(up[c]) IN
         /\ \A d \in Conns : /\ d # c => up'[d] = up[d]
                             /\ SyncOn(d)' => SyncOn(d)
                             /\ SyncOn(d) => SyncOn(d)' \/ (d = c /\ h.kind = "sync")
         /\ \A d \in Conns : \A p :
              /\ ExitOn(d, p)' => ExitOn(d, p)
              /\ RunsOn(d, p)' => RunsOn(d, p)
              /\ ExitOn(d, p) => ExitOn(d, p)' \/ (d = c /\ h.kind \in {"own", "lost"} /\ p \in h.procs)
              /\ RunsOn(d, p) => RunsOn(d, p)' \/ (d = c /\ h.kind = "PROCESS" /\ p \in h.procs)
<1> DEFINE h == Head(up[c])
<1>1. /\ Sent(c) = Sent(c)' \cup {h}
      /\ \A d \in Conns \ {c} : Sent(d)' = Sent(d)
  BY TakeSent
<1>2. \A d \in Conns \ {c} : up'[d] = up[d]
  BY DEF NetOK
<1> HIDE DEF h
<1>3. \A d \in Conns : /\ SyncOn(d)' => SyncOn(d)
                       /\ SyncOn(d) => SyncOn(d)' \/ (d = c /\ h.kind = "sync")
  BY <1>1 DEF SyncOn
<1>4. \A d \in Conns : \A p :
        /\ ExitOn(d, p)' => ExitOn(d, p)
        /\ ExitOn(d, p) => ExitOn(d, p)' \/ (d = c /\ h.kind \in {"own", "lost"} /\ p \in h.procs)
  BY <1>1 DEF ExitOn
<1>5. \A d \in Conns : \A p :
        /\ RunsOn(d, p)' => RunsOn(d, p)
        /\ RunsOn(d, p) => RunsOn(d, p)' \/ (d = c /\ h.kind = "PROCESS" /\ p \in h.procs)
  BY <1>1 DEF RunsOn
<1> QED
  BY <1>2, <1>3, <1>4, <1>5 DEF h

LEMMA PrefixTold ==
  ASSUME NetOK, Ordered, NEW c \in Conns, NEW n \in 0 .. Len(up[c]),
         up' = [up EXCEPT ![c] = SubSeq(@, 1, n)]
  PROVE  /\ \A d \in Conns : /\ d # c => up'[d] = up[d]
                             /\ up[d] = <<>> => up'[d] = <<>>
                             /\ SyncOn(d)' => SyncOn(d)
         /\ \A d \in Conns : \A p :
              /\ ExitOn(d, p)' => ExitOn(d, p)
              /\ RunsOn(d, p)' => RunsOn(d, p)
              /\ d # c => (ExitOn(d, p) => ExitOn(d, p)') /\ (RunsOn(d, p) => RunsOn(d, p)')
<1>1. /\ Sent(c)' \subseteq Sent(c)
      /\ \A d \in Conns \ {c} : Sent(d)' = Sent(d)
  BY PrefixSent
<1>2. \A d \in Conns \ {c} : up'[d] = up[d]
  BY DEF NetOK
<1>3. up[c] = <<>> => up'[c] = <<>>
  BY DEF NetOK
<1> QED
  BY <1>1, <1>2, <1>3 DEF SyncOn, ExitOn, RunsOn

-----------------------------------------------------------------------------
(* What a connection number, a process of a job or its thread may be.      *)
LEMMA Ranges ==
  ASSUME IInv
  PROVE  /\ 0 \notin Conns /\ Conns \subseteq Nat
         /\ registry \in Conns \cup {0} /\ wconn \in Conns \cup {0} /\ ready \in Conns \cup {0}
         /\ \A p \in Procs : lconn[p] \in Conns \cup {0} /\ entry[p].conn \in Conns \cup {0}
         /\ \A j \in jobs : /\ j.p \in Procs /\ j.conn \in Conns \cup {0}
                            /\ j.by[1] \in {"dispatch", "cleanup", "launch"}
                            /\ j.by[1] # "launch" => j.by[2] \in Conns
                            /\ j.by = <<j.by[1], j.by[2]>>
         /\ \A c \in Conns : pend[c] \subseteq Procs /\ sync[c].todo \subseteq Procs
<1> TypeOK
  BY DEF IInv
<1>1. 0 \notin Conns /\ Conns \subseteq Nat /\ 0 .. MaxConn = Conns \cup {0}
  BY BoundsAssumption DEF Conns
<1>2. registry \in Conns \cup {0} /\ wconn \in Conns \cup {0} /\ ready \in Conns \cup {0}
  BY <1>1 DEF TypeOK, ConnOK, WorkerOK
<1>3. \A p \in Procs : lconn[p] \in Conns \cup {0} /\ entry[p].conn \in Conns \cup {0}
  BY <1>1 DEF TypeOK, RecOK, ReqOK
<1>4. \A j \in jobs : j \in Jobs /\ j.by \in Threads /\ j.p \in Procs /\ j.conn \in Conns \cup {0}
  BY <1>1 DEF TypeOK, RecOK, Jobs
<1>5. \A t \in Threads : /\ t[1] \in {"dispatch", "cleanup", "launch"}
                         /\ t[1] # "launch" => t[2] \in Conns
                         /\ t = <<t[1], t[2]>>
  BY DEF Threads
<1>6. \A c \in Conns : pend[c] \subseteq Procs /\ sync[c].todo \subseteq Procs
  BY DEF TypeOK, ConnOK
<1> QED
  BY <1>1, <1>2, <1>3, <1>4, <1>5, <1>6

(* Once the connection in use has registered, nothing is on another one.   *)
LEMMA OnlyHere ==
  ASSUME IInv, Core, NEW c \in Conns, link[c] = "up", reg[c] \in {"answered", "synced", "done"}
  PROVE  /\ registry = c
         /\ \A d \in Conns \ {c} : /\ up[d] = <<>> /\ ~SyncOn(d)
                                   /\ \A p : ~ExitOn(d, p) /\ ~RunsOn(d, p)
<1>1. Links /\ Drained /\ Registered /\ NetOK
  BY DEF Core, IInv, TypeOK
<1>2. c \in Nat \ {0} /\ Conns \subseteq Nat \ {0}
  BY BoundsAssumption DEF Conns
<1>3. registry = c
  BY <1>1 DEF Registered, RegistryAt
<1>4. ASSUME NEW d \in Conns \ {c} PROVE up[d] = <<>>
  <2>1. CASE d < c
    BY <1>1, <1>2, <1>3, <2>1 DEF Registered, Drained, DrainedAt
  <2>2. CASE d > c
    BY <1>1, <1>2, <2>2 DEF Links, LinkAt
  <2> QED  BY <1>2, <2>1, <2>2
<1>5. \A d \in Conns \ {c} : Sent(d) = {}
  BY <1>1, <1>4, SentIn
<1> QED
  BY <1>3, <1>4, <1>5 DEF SyncOn, ExitOn, RunsOn

(* What the worker runs is open at the supervisor.                         *)
LEMMA LiveIsActive ==
  ASSUME IInv, Core, NEW p \in Procs, wp[p] \in {"attached", "running"}
  PROVE  /\ outcome[p] = "none" /\ Active(p)
         /\ \A j \in jobs : j.p = p => j.status \notin Exits
<1>1. LaunchOf(p) /\ OutcomeOf(p) /\ EndOf(p) /\ \A j \in jobs : Placed(j)
  BY DEF Core, Launches, Outcomes, Ends, JobPlaces
<1>2. outcome[p] = "none" /\ row[p].status \in Statuses
  BY <1>1 DEF IInv, TypeOK, WorkerOK, RecOK, OutcomeOf
<1>3. Active(p)
  BY <1>1, <1>2 DEF LaunchOf, EndOf, Gone, Active, Statuses, Exits
<1>4. ASSUME NEW j \in jobs, j.p = p PROVE j.status \notin Exits
  <2>1. Placed(j) /\ j.by[1] \in {"dispatch", "cleanup", "launch"}
    BY <1>1, Ranges
  <2>2. j.status # "notStarted"
    BY <1>1, <1>4, <2>1 DEF Placed, LaunchOf
  <2>3. j.status \notin {"own", "lost"}
    BY <1>1, <1>2, <1>4 DEF EndOf, Gone
  <2> QED  BY <2>2, <2>3 DEF Exits
<1> QED
  BY <1>2, <1>3, <1>4

(* An applyStatus that starts.                                             *)
LEMMA StartJob ==
  ASSUME Calm, NEW t, NEW p, NEW s, NEW then, Start(t, p, s, then)
  PROVE  /\ \A j \in jobs : j.by # t /\ j.p # p
         /\ \E k : /\ jobs' = jobs \cup {k} /\ k.by = t /\ k.p = p /\ k.status = s
                   /\ k.conn = entry[p].conn /\ (k.live <=> ~Ignored(p, s)) /\ k.then = then
<1> DEFINE k == [by |-> t, p |-> p, status |-> s, conn |-> entry[p].conn,
                 live |-> ~Ignored(p, s), then |-> then]
<1>1. /\ \A j \in jobs : j.by # t /\ j.p # p
      /\ jobs' = jobs \cup {k}
  BY DEF Start, Busy, Calm
<1>2. k.by = t /\ k.p = p /\ k.status = s /\ k.conn = entry[p].conn /\ k.then = then
  OBVIOUS
<1>3. k.live <=> ~Ignored(p, s)
  OBVIOUS
<1> HIDE DEF k
<1> QED  BY <1>1, <1>2, <1>3

-----------------------------------------------------------------------------
(* The worker and its holders.                                             *)

(* A new connection: nothing is on it, and no session is open besides.     *)
LEMMA DialCore ==
  ASSUME IInv, IInv', Core, Calm, NEW c \in Conns, Dial(c)
  PROVE  Core'
<1>a. /\ NetOK /\ WorkerOK /\ ConnOK /\ RecOK /\ ReqOK
      /\ NetOK' /\ WorkerOK' /\ ConnOK' /\ RecOK' /\ ReqOK'
  BY DEF IInv, TypeOK
<1>u. UNCHANGED <<up, edits, wup, ready, wp, holder, outcome, signalled, crashes, row, entry,
        seen, registry, auth, pend, sync, unreg, jobs, lpc, lconn, kpc, krec, kills, boots>>
  BY DEF Dial, recVars, reqVars
<1>g. /\ wup /\ link[c] = "unused" /\ \A d \in Conns : d < c => link[d] # "unused"
      /\ \A d \in Conns : ~session[d]
      /\ wconn' = c
      /\ \A d \in Conns : link'[d] = IF d = c THEN "up" ELSE link[d]
      /\ \A d \in Conns : session'[d] <=> (d = c \/ session[d])
      /\ \A d \in Conns : reg'[d] = IF d = c THEN "asked" ELSE reg[d]
      /\ \A d \in Conns : srv'[d] = IF d = c THEN "serving" ELSE srv[d]
  BY <1>a DEF Dial, NetOK, WorkerOK, ConnOK, Idle
<1>s. /\ \A d \in Conns : Sent(d)' = Sent(d) /\ (SyncOn(d)' <=> SyncOn(d))
      /\ \A d \in Conns, q \in Procs : ExitOn(d, q)' <=> ExitOn(d, q)
      /\ \A d \in Conns, q \in Procs : RunsOn(d, q)' <=> RunsOn(d, q)
      /\ \A q \in Procs : Untold(q)' <=> Untold(q)
  BY <1>u, SentKept
<1>n. Sent(c) = {} /\ ~SyncOn(c) /\ \A q \in Procs : ~ExitOn(c, q)
  BY <1>g, <1>a, SentIn DEF Core, SyncOn, ExitOn, Links, LinkAt
<1>k. Ordered' /\ Outcomes' /\ Running' /\ SyncTells' /\ Listed' /\ JobsFit' /\ Bound' /\
      EditsBehind'
  BY <1>u, CoreKept
<1>1. Links'
  <2> SUFFICES ASSUME NEW d \in Conns PROVE LinkAt(d)'
    BY DEF Links
  <2>1. LinkAt(d) /\ LinkAt(c) /\ d \in Nat /\ c \in Nat
    BY Ranges DEF Core, Links
  <2>2. CASE d = c
    BY <1>g, <1>u, <2>1 DEF LinkAt
  <2>3. CASE d # c
    <3> QED
      BY <1>g, <1>u, <2>1 DEF LinkAt
  <2> QED  BY <2>2, <2>3
<1>2. Drained'
  <2> SUFFICES ASSUME NEW d \in Conns PROVE DrainedAt(d)'
    BY DEF Drained
  <2>1. DrainedAt(d) /\ LinkAt(c)
    BY DEF Core, Drained, Links
  <2> QED
    BY <1>g, <1>u, <2>1 DEF DrainedAt
<1>3. Registered'
  <2>1. ASSUME NEW d \in Conns PROVE RegistryAt(d)'
    <3>1. RegistryAt(d) /\ LinkAt(d) /\ LinkAt(c)
      BY DEF Core, Registered, Links
    <3> QED
      BY <1>g, <1>u, <3>1 DEF RegistryAt, Past, LinkAt
  <2>2. registry' # 0 => /\ Past(registry)' /\ srv'[registry'] \in {"serving", "ended"}
                          /\ \A d \in Conns : d < registry' => srv'[d] = "closed"
    <3>1. LinkAt(c) /\ (registry # 0 => LinkAt(registry))
      BY Ranges DEF Core, Links
    <3> QED
      BY <1>g, <1>u, <3>1, Ranges DEF Core, Registered, Past, LinkAt
  <2> QED  BY <2>1, <2>2 DEF Registered
<1>4. Synced'
  <2> SUFFICES ASSUME NEW d \in Conns PROVE SyncedAt(d)'
    BY DEF Synced
  <2>1. SyncedAt(d) /\ LinkAt(d) /\ LinkAt(c)
    BY DEF Core, Synced, Links
  <2> QED
    BY <1>g, <1>u, <1>s, <2>1 DEF SyncedAt, LinkAt
<1>5. JobPlaces'
  <2>1. ASSUME NEW k \in jobs' PROVE Placed(k)'
    <3>1. Placed(k) /\ LinkAt(c)
      BY <1>u DEF Core, JobPlaces, Links
    <3> QED
      BY <1>g, <1>u, <3>1, Ranges DEF Placed, LinkAt
  <2>2. \A k, l \in jobs' : k.p = l.p => k = l
    BY <1>u DEF Core, JobPlaces
  <2> QED  BY <2>1, <2>2 DEF JobPlaces
<1>6. Launches'
  <2> SUFFICES ASSUME NEW q \in Procs PROVE LaunchOf(q)'
    BY DEF Launches
  <2>1. LaunchOf(q) /\ LinkAt(c)
    BY DEF Core, Launches, Links
  <2>2. Launching(q) => lconn[q] # c /\ lconn[q] \in Conns
    BY <1>g, <2>1, Ranges DEF LaunchOf, LinkAt
  <2>3. Launching(q) => (Past(lconn[q]) => Past(lconn[q])') /\ link'[lconn[q]] = link[lconn[q]]
    BY <1>g, <1>u, <2>2 DEF Past
  <2> QED
    BY <1>u, <2>1, <2>3 DEF LaunchOf, Launching
<1>7. Carried'
  <2> SUFFICES ASSUME NEW d \in Conns, NEW f \in Sent(d)' PROVE About(d, f)'
    BY DEF Carried
  <2>1. About(d, f) /\ d # c
    BY <1>n, <1>s DEF Core, Carried
  <2> QED
    BY <1>g, <1>u, <2>1 DEF About, Admitted
<1>8. Ends'
  <2> SUFFICES ASSUME NEW q \in Procs PROVE EndOf(q)'
    BY DEF Ends
  <2>1. EndOf(q) /\ LinkAt(c)
    BY DEF Core, Ends, Links
  <2> QED
    BY <1>g, <1>u, <1>s, <2>1, Ranges DEF EndOf, Gone, Past, Active, LinkAt
<1> QED
  BY <1>k, <1>1, <1>2, <1>3, <1>4, <1>5, <1>6, <1>7, <1>8 DEF Core

(* The worker leaves a connection; what is on it stays.                    *)
LEMMA EndSessionCore ==
  ASSUME IInv, IInv', Core, Calm, NEW c \in Conns, EndSession(c)
  PROVE  Core'
<1>a. /\ NetOK /\ WorkerOK /\ ConnOK /\ RecOK /\ ReqOK
      /\ NetOK' /\ WorkerOK' /\ ConnOK' /\ RecOK' /\ ReqOK'
  BY DEF IInv, TypeOK
<1>u. UNCHANGED <<up, edits, wup, wconn, reg, wp, holder, outcome, signalled, crashes, row,
        entry, seen, registry, auth, srv, pend, sync, unreg, jobs, lpc, lconn, kpc, krec,
        kills, boots>>
  BY DEF EndSession, connVars, recVars, reqVars, supVars
<1>g. /\ session[c] /\ (link[c] = "down" \/ reg[c] = "refused")
      /\ \A d \in Conns : session'[d] <=> (d # c /\ session[d])
      /\ ready' = (IF ready = c THEN 0 ELSE ready)
      /\ \A d \in Conns : link'[d] = IF d = c THEN "down" ELSE link[d]
  BY <1>a DEF EndSession, NetOK, WorkerOK
<1>s. /\ \A d \in Conns : Sent(d)' = Sent(d) /\ (SyncOn(d)' <=> SyncOn(d))
      /\ \A d \in Conns, q \in Procs : ExitOn(d, q)' <=> ExitOn(d, q)
      /\ \A d \in Conns, q \in Procs : RunsOn(d, q)' <=> RunsOn(d, q)
      /\ \A q \in Procs : Untold(q)' <=> Untold(q)
  BY <1>u, SentKept
<1>k. Ordered' /\ Drained' /\ Synced' /\ JobPlaces' /\ Outcomes' /\ Ends' /\ Running' /\
      SyncTells' /\ Listed' /\ JobsFit' /\ Bound' /\ EditsBehind'
  BY <1>u, CoreKept
<1>1. Links'
  <2> SUFFICES ASSUME NEW d \in Conns PROVE LinkAt(d)'
    BY DEF Links
  <2>1. LinkAt(d) /\ LinkAt(c) /\ \A e \in Conns : LinkAt(e)
    BY DEF Core, Links
  <2> QED
    BY <1>g, <1>u, <2>1, Ranges DEF LinkAt
<1>2. Registered'
  <2>1. ASSUME NEW d \in Conns PROVE RegistryAt(d)'
    <3>1. RegistryAt(d) /\ LinkAt(d)
      BY DEF Core, Registered, Links
    <3> QED
      BY <1>g, <1>u, <3>1 DEF RegistryAt, Past, LinkAt
  <2>2. registry' # 0 => /\ Past(registry)' /\ srv'[registry'] \in {"serving", "ended"}
                          /\ \A d \in Conns : d < registry' => srv'[d] = "closed"
    BY <1>u DEF Core, Registered, Past
  <2> QED  BY <2>1, <2>2 DEF Registered
<1>3. Launches'
  <2> SUFFICES ASSUME NEW q \in Procs PROVE LaunchOf(q)'
    BY DEF Launches
  <2>1. LaunchOf(q)
    BY DEF Core, Launches
  <2> QED
    BY <1>g, <1>u, <2>1, Ranges DEF LaunchOf, Launching, Past
<1>4. Carried'
  <2> SUFFICES ASSUME NEW d \in Conns, NEW f \in Sent(d)' PROVE About(d, f)'
    BY DEF Carried
  <2>1. About(d, f)
    BY <1>s DEF Core, Carried
  <2> QED
    BY <1>g, <1>u, <2>1 DEF About, Admitted
<1> QED
  BY <1>k, <1>1, <1>2, <1>3, <1>4 DEF Core

(* The sync lists what the worker has: what it leaves out is told nowhere. *)
LEMMA SendSyncCore ==
  ASSUME IInv, IInv', Core, Calm, NEW c \in Conns, SendSync(c)
  PROVE  Core'
<1>a. /\ NetOK /\ WorkerOK /\ ConnOK /\ RecOK /\ ReqOK
      /\ NetOK' /\ WorkerOK' /\ ConnOK' /\ RecOK' /\ ReqOK'
  BY DEF IInv, TypeOK
<1>u. UNCHANGED <<link, edits, wup, wconn, ready, session, wp, holder, outcome, signalled,
        crashes, row, entry, seen, registry, auth, srv, pend, sync, unreg, jobs, lpc, lconn,
        kpc, krec, kills, boots>>
  BY DEF SendSync, netVars, wVars, connVars, recVars, reqVars, supVars
<1>g. /\ wup /\ reg[c] = "answered" /\ c \in 0 .. MaxConn
      /\ Emit(c, "sync", procs)
      /\ \A d \in Conns : reg'[d] = IF d = c THEN "synced" ELSE reg[d]
  BY <1>a, Ranges DEF SendSync, ConnOK, WorkerOK, Reported, Conns
<1>n. sync[c].at = "no" /\ ~SyncOn(c) /\ \A q \in Procs : ~ExitOn(c, q)
  BY <1>g DEF Core, Synced, SyncedAt
<1>f. c # 0 /\ link[c] = "up" =>
        \A f \in Sent(c) : Follows(f, [kind |-> "sync", procs |-> procs])
  <2> SUFFICES ASSUME NEW f \in Sent(c) PROVE f.kind = "PROCESS"
    BY DEF Follows
  <2>1. About(c, f) /\ f \in Frames
    BY <1>a, SentIn DEF Core, Carried
  <2> QED
    BY <1>n, <2>1 DEF About, ExitOn, SyncOn, Frames
<1>s. /\ Ordered'
      /\ \A d \in Conns : Sent(d)' = IF d = c /\ link[c] = "up"
                          THEN Sent(d) \cup {[kind |-> "sync", procs |-> procs]} ELSE Sent(d)
      /\ \A d \in Conns : ~(d = c /\ link[c] = "up") => up'[d] = up[d]
      /\ \A d \in Conns : SyncOn(d)' <=> (SyncOn(d) \/ (d = c /\ link[c] = "up"))
      /\ \A d \in Conns, q \in Procs : ExitOn(d, q)' <=> ExitOn(d, q)
      /\ \A d \in Conns, q \in Procs : RunsOn(d, q)' <=> RunsOn(d, q)
  <2>1. /\ Ordered'
        /\ \A d \in Conns : Sent(d)' = IF d = c /\ link[c] = "up"
                            THEN Sent(d) \cup {[kind |-> "sync", procs |-> procs]} ELSE Sent(d)
    BY <1>a, <1>f, <1>g, EmitSent DEF Core
  <2>2. \A d \in Conns :
          LET written == d = c /\ link[c] = "up" IN
          /\ ~written => up'[d] = up[d]
          /\ SyncOn(d)' <=> SyncOn(d) \/ (written /\ "sync" = "sync")
          /\ \A q : /\ ExitOn(d, q)' <=>
                         ExitOn(d, q) \/ (written /\ "sync" \in {"own", "lost"} /\ q \in procs)
                    /\ RunsOn(d, q)' <=> RunsOn(d, q) \/ (written /\ "sync" = "PROCESS" /\ q \in procs)
    BY <1>a, <1>f, <1>g, EmitTold DEF Core
  <2> QED
    BY <2>1, <2>2
<1>k. JobPlaces' /\ Outcomes' /\ Listed' /\ JobsFit'
  BY <1>u, CoreKept
<1>2. Links'
  <2> SUFFICES ASSUME NEW d \in Conns PROVE LinkAt(d)'
    BY DEF Links
  <2>1. LinkAt(d) /\ LinkAt(c)
    BY Ranges DEF Core, Links
  <2> QED
    BY <1>g, <1>u, <1>s, <1>n, <2>1, Ranges DEF LinkAt
<1>3. Drained'
  <2> SUFFICES ASSUME NEW d \in Conns PROVE DrainedAt(d)'
    BY DEF Drained
  <2>1. DrainedAt(d) /\ LinkAt(c)
    BY Ranges DEF Core, Drained, Links
  <2> QED
    BY <1>g, <1>u, <1>s, <1>n, <2>1, Ranges DEF DrainedAt, LinkAt
<1>4. Registered'
  <2>1. ASSUME NEW d \in Conns PROVE RegistryAt(d)'
    <3>1. RegistryAt(d) /\ LinkAt(d)
      BY Ranges DEF Core, Registered, Links
    <3> QED
      BY <1>g, <1>u, <1>s, <1>n, <3>1, Ranges DEF RegistryAt, Past, LinkAt
  <2>2. registry' # 0 => /\ Past(registry)' /\ srv'[registry'] \in {"serving", "ended"}
                          /\ \A d \in Conns : d < registry' => srv'[d] = "closed"
    BY <1>g, <1>u, <1>s, <1>n, Ranges DEF Core, Registered, Past
  <2> QED  BY <2>1, <2>2 DEF Registered
<1>5. Synced'
  <2> SUFFICES ASSUME NEW d \in Conns PROVE SyncedAt(d)'
    BY DEF Synced
  <2>1. SyncedAt(d) /\ SyncedAt(c) /\ LinkAt(c) /\ RegistryAt(c) /\ (registry # 0 => Past(registry))
    BY Ranges DEF Core, Synced, Links, Registered, Registered
  <2> QED
    BY <1>g, <1>u, <1>s, <1>n, <2>1, Ranges DEF SyncedAt, LinkAt, RegistryAt, Past
<1>6. Launches'
  <2> SUFFICES ASSUME NEW q \in Procs PROVE LaunchOf(q)'
    BY DEF Launches
  <2>1. LaunchOf(q)
    BY Ranges DEF Core, Launches
  <2> QED
    BY <1>g, <1>u, <1>s, <1>n, <2>1, Ranges DEF LaunchOf, Launching, Past
<1>7. Carried'
  BY <1>s, <1>u DEF Core, Carried, About, Admitted
<1>8. Ends'
  <2> SUFFICES ASSUME NEW q \in Procs PROVE EndOf(q)'
    BY DEF Ends
  <2>1. EndOf(q)
    BY Ranges DEF Core, Ends
  <2> QED
    BY <1>g, <1>u, <1>s, <1>n, <2>1, Ranges DEF EndOf, Gone, Past, Active, Untold
<1>9. Running'
  <2> SUFFICES ASSUME NEW d \in Conns, NEW q \in Procs PROVE RunningOn(d, q)'
    BY DEF Running
  <2>1. RunningOn(d, q)
    BY Ranges DEF Core, Running
  <2> QED
    BY <1>g, <1>u, <1>s, <1>n, <2>1, Ranges DEF RunningOn, Active
<1>10. SyncTells'
  <2>1. ASSUME NEW q \in Procs, link[c] = "up", q \notin procs
        PROVE  /\ wp[q] \in {"none", "rejected", "over"}
               /\ \A e \in Conns : ~ExitOn(e, q) /\ (e # c => ~RunsOn(e, q))
    <3>1. \A e \in Conns \ {c} : ~ExitOn(e, q) /\ ~RunsOn(e, q)
      BY <1>g, <2>1, OnlyHere
    <3>5. LaunchOf(q)
      BY DEF Core, Launches
    <3>6. Launching(q) => lconn[q] \in Conns
      BY <3>5, Ranges DEF LaunchOf
    <3>2. LaunchOf(q) /\ OutcomeOf(q) /\ LinkAt(c) /\ (Launching(q) => LinkAt(lconn[q]))
      BY <3>5, <3>6 DEF Core, Outcomes, Links
    <3>3. lpc[q] # "called" \/ link[lconn[q]] # "up" \/ lconn[q] = c
      BY <2>1, <3>2, Ranges DEF LinkAt, LaunchOf, Launching
    <3>4. wp[q] \notin {"asked", "spawning", "held", "orphan"}
      BY <1>g, <1>n, <3>2, <3>3 DEF LaunchOf, Launching, OutcomeOf
    <3> QED
      BY <1>a, <1>n, <2>1, <3>1, <3>4 DEF WorkerOK, procs, Attached
  <2> SUFFICES ASSUME NEW d \in Conns, NEW q \in Procs PROVE Told(d, q)'
    BY DEF SyncTells
  <2>2. Told(d, q)
    BY DEF Core, SyncTells
  <2> QED
    BY <1>s, <1>u, <2>1, <2>2 DEF Told, Unlisted, Untold
<1>11. Bound'
  <2> SUFFICES ASSUME NEW q \in Procs PROVE BoundTo(q)'
    BY DEF Bound
  <2>1. BoundTo(q)
    BY Ranges DEF Core, Bound
  <2> QED
    BY <1>g, <1>u, <1>s, <1>n, <2>1, Ranges DEF BoundTo, Active, procs, Attached
<1>12. EditsBehind'
  <2> SUFFICES ASSUME NEW q \in Procs, NEW d \in Conns PROVE Behind(q, d)'
    BY DEF EditsBehind
  <2>1. Behind(q, d)
    BY Ranges DEF Core, EditsBehind
  <2> QED
    BY <1>g, <1>u, <1>s, <1>n, <2>1, Ranges DEF Behind
<1> QED
  BY <1>k, <1>2, <1>3, <1>4, <1>5, <1>6, <1>7, <1>8, <1>9, <1>10, <1>11, <1>12, <1>s
  DEF Core

(* Finish may use the connection once its sync is sent.                    *)
LEMMA StoreReadyCore ==
  ASSUME IInv, IInv', Core, Calm, NEW c \in Conns, StoreReady(c)
  PROVE  Core'
<1>a. /\ NetOK /\ WorkerOK /\ ConnOK /\ RecOK /\ ReqOK
      /\ NetOK' /\ WorkerOK' /\ ConnOK' /\ RecOK' /\ ReqOK'
  BY DEF IInv, TypeOK
<1>u. UNCHANGED <<link, up, edits, wup, wconn, session, wp, holder, outcome, signalled,
        crashes, row, entry, seen, registry, auth, srv, pend, sync, unreg, jobs, lpc, lconn,
        kpc, krec, kills, boots>>
  BY DEF StoreReady, netVars, wVars, connVars, recVars, reqVars, supVars
<1>g. /\ wup /\ reg[c] = "synced" /\ ready' = c
      /\ \A d \in Conns : reg'[d] = IF d = c THEN "done" ELSE reg[d]
  BY <1>a, Ranges DEF StoreReady, ConnOK, WorkerOK, NewReady
<1>s. /\ \A d \in Conns : Sent(d)' = Sent(d) /\ (SyncOn(d)' <=> SyncOn(d))
      /\ \A d \in Conns, q \in Procs : ExitOn(d, q)' <=> ExitOn(d, q)
      /\ \A d \in Conns, q \in Procs : RunsOn(d, q)' <=> RunsOn(d, q)
      /\ \A q \in Procs : Untold(q)' <=> Untold(q)
  BY <1>u, SentKept
<1>k. Ordered' /\ Drained' /\ JobPlaces' /\ Outcomes' /\ Carried' /\ Running' /\ SyncTells' /\
      Listed' /\ JobsFit' /\ Bound' /\ EditsBehind'
  BY <1>u, CoreKept
<1>1. Links'
  <2> SUFFICES ASSUME NEW d \in Conns PROVE LinkAt(d)'
    BY DEF Links
  <2>1. LinkAt(d) /\ LinkAt(c)
    BY Ranges DEF Core, Links
  <2> QED
    BY <1>g, <1>u, <1>s, <2>1, Ranges DEF LinkAt
<1>2. Registered'
  <2>1. ASSUME NEW d \in Conns PROVE RegistryAt(d)'
    <3>1. RegistryAt(d)
      BY Ranges DEF Core, Registered
    <3> QED
      BY <1>g, <1>u, <1>s, <3>1, Ranges DEF RegistryAt, Past
  <2>2. registry' # 0 => /\ Past(registry)' /\ srv'[registry'] \in {"serving", "ended"}
                          /\ \A d \in Conns : d < registry' => srv'[d] = "closed"
    BY <1>g, <1>u, <1>s, Ranges DEF Core, Registered, Past
  <2> QED  BY <2>1, <2>2 DEF Registered
<1>3. Synced'
  <2> SUFFICES ASSUME NEW d \in Conns PROVE SyncedAt(d)'
    BY DEF Synced
  <2>1. SyncedAt(d)
    BY Ranges DEF Core, Synced
  <2> QED
    BY <1>g, <1>u, <1>s, <2>1, Ranges DEF SyncedAt
<1>4. Launches'
  <2> SUFFICES ASSUME NEW q \in Procs PROVE LaunchOf(q)'
    BY DEF Launches
  <2>1. LaunchOf(q)
    BY Ranges DEF Core, Launches
  <2> QED
    BY <1>g, <1>u, <1>s, <2>1, Ranges DEF LaunchOf, Launching, Past
<1>5. Ends'
  <2> SUFFICES ASSUME NEW q \in Procs PROVE EndOf(q)'
    BY DEF Ends
  <2>1. EndOf(q)
    BY Ranges DEF Core, Ends
  <2> QED
    BY <1>g, <1>u, <1>s, <2>1, Ranges DEF EndOf, Gone, Past, Active
<1> QED
  BY <1>k, <1>1, <1>2, <1>3, <1>4, <1>5 DEF Core

(* What is lost of a connection is the end of it: the order stays.         *)
LEMMA BreakCore ==
  ASSUME IInv, IInv', Core, Calm, NEW c \in Conns, Break(c)
  PROVE  Core'
<1>a. /\ NetOK /\ WorkerOK /\ ConnOK /\ RecOK /\ ReqOK
      /\ NetOK' /\ WorkerOK' /\ ConnOK' /\ RecOK' /\ ReqOK'
  BY DEF IInv, TypeOK
<1>u. UNCHANGED <<wup, wconn, ready, session, reg, wp, holder, outcome, signalled, crashes,
        row, entry, seen, registry, auth, srv, pend, sync, unreg, jobs, lpc, lconn, kpc,
        krec, kills, boots>>
  BY DEF Break, wVars, connVars, recVars, reqVars, supVars
<1>g. /\ link[c] = "up" /\ edits' \subseteq edits
      /\ \A q \in Procs : /\ entry[q].conn = c => entry[q].status # "PENDING"
                          /\ lconn[q] = c => lpc[q] # "called"
      /\ \A d \in Conns : link'[d] = IF d = c THEN "down" ELSE link[d]
  BY <1>a DEF Break, NetOK, Calm, Settled
<1>s. /\ Ordered' /\ \A d \in Conns : Sent(d)' \subseteq Sent(d)
      /\ \A d \in Conns : (SyncOn(d)' => SyncOn(d)) /\ (up[d] = <<>> => up'[d] = <<>>)
      /\ \A d \in Conns, q \in Procs : ExitOn(d, q)' => ExitOn(d, q)
      /\ \A d \in Conns, q \in Procs : RunsOn(d, q)' => RunsOn(d, q)
      /\ \A d \in Conns, q \in Procs : <<q, d>> \in edits' => (ExitOn(d, q) => ExitOn(d, q)')
  <2>1. CASE UNCHANGED up
    BY <2>1, SentKept DEF Core
  <2>2. CASE /\ \E n \in 0 .. Len(up[c]) : up' = [up EXCEPT ![c] = SubSeq(@, 1, n)]
             /\ edits' = {e \in edits : e[2] # c}
    BY <1>a, <2>2, PrefixSent, PrefixTold DEF Core
  <2> QED  BY <2>1, <2>2 DEF Break
<1>k. JobPlaces' /\ Outcomes' /\ Listed' /\ JobsFit'
  BY <1>u, CoreKept
<1>2. Links'
  <2> SUFFICES ASSUME NEW d \in Conns PROVE LinkAt(d)'
    BY DEF Links
  <2>1. LinkAt(d) /\ \A e \in Conns : LinkAt(e)
    BY DEF Core, Links
  <2> QED
    BY <1>g, <1>u, <1>s, <2>1 DEF LinkAt
<1>3. Drained'
  <2> SUFFICES ASSUME NEW d \in Conns PROVE DrainedAt(d)'
    BY DEF Drained
  <2>1. DrainedAt(d)
    BY DEF Core, Drained
  <2> QED
    BY <1>u, <1>s, <2>1 DEF DrainedAt
<1>4. Registered'
  <2>1. ASSUME NEW d \in Conns PROVE RegistryAt(d)'
    <3>1. RegistryAt(d)
      BY DEF Core, Registered
    <3> QED
      BY <1>g, <1>u, <3>1 DEF RegistryAt, Past
  <2>2. registry' # 0 => /\ Past(registry)' /\ srv'[registry'] \in {"serving", "ended"}
                          /\ \A d \in Conns : d < registry' => srv'[d] = "closed"
    BY <1>u DEF Core, Registered, Past
  <2> QED  BY <2>1, <2>2 DEF Registered
<1>5. Synced'
  <2> SUFFICES ASSUME NEW d \in Conns PROVE SyncedAt(d)'
    BY DEF Synced
  <2>1. SyncedAt(d)
    BY DEF Core, Synced
  <2> QED
    BY <1>u, <1>s, <2>1 DEF SyncedAt
<1>6. Launches'
  <2> SUFFICES ASSUME NEW q \in Procs PROVE LaunchOf(q)'
    BY DEF Launches
  <2>1. LaunchOf(q)
    BY DEF Core, Launches
  <2> QED
    BY <1>g, <1>u, <2>1, Ranges DEF LaunchOf, Launching, Past
<1>7. Carried'
  BY <1>g, <1>s, <1>u DEF Core, Carried, About, Admitted
<1>8. Ends'
  <2> SUFFICES ASSUME NEW q \in Procs PROVE EndOf(q)'
    BY DEF Ends
  <2>1. EndOf(q)
    BY DEF Core, Ends
  <2> QED
    BY <1>u, <1>s, <2>1 DEF EndOf, Gone, Past, Active, Untold
<1>9. Running'
  <2> SUFFICES ASSUME NEW d \in Conns, NEW q \in Procs PROVE RunningOn(d, q)'
    BY DEF Running
  <2>1. RunningOn(d, q)
    BY DEF Core, Running
  <2> QED
    BY <1>u, <1>s, <2>1 DEF RunningOn, Active
<1>10. SyncTells'
  <2> SUFFICES ASSUME NEW d \in Conns, NEW q \in Procs PROVE Told(d, q)'
    BY DEF SyncTells
  <2>1. Told(d, q)
    BY DEF Core, SyncTells
  <2> QED
    BY <1>u, <1>s, <2>1 DEF Told, Unlisted, Untold
<1>11. Bound'
  <2> SUFFICES ASSUME NEW q \in Procs PROVE BoundTo(q)'
    BY DEF Bound
  <2>1. BoundTo(q)
    BY DEF Core, Bound
  <2> QED
    BY <1>u, <1>s, <2>1, Ranges DEF BoundTo, Active, procs
<1>12. EditsBehind'
  <2> SUFFICES ASSUME NEW q \in Procs, NEW d \in Conns PROVE Behind(q, d)'
    BY DEF EditsBehind
  <2>1. Behind(q, d)
    BY DEF Core, EditsBehind
  <2> QED
    BY <1>g, <1>u, <1>s, <2>1 DEF Behind
<1> QED
  BY <1>k, <1>2, <1>3, <1>4, <1>5, <1>6, <1>7, <1>8, <1>9, <1>10, <1>11, <1>12, <1>s
  DEF Core

(* The worker was asked on the connection that is up.                      *)
LEMMA ExecSpawnCore ==
  ASSUME IInv, IInv', Core, Calm, NEW p \in Procs, ExecSpawn(p)
  PROVE  Core'
<1>a. /\ NetOK /\ WorkerOK /\ ConnOK /\ RecOK /\ ReqOK
      /\ NetOK' /\ WorkerOK' /\ ConnOK' /\ RecOK' /\ ReqOK'
  BY DEF IInv, TypeOK
<1>u. UNCHANGED <<link, up, edits, wup, wconn, ready, session, reg, outcome, signalled,
        crashes, row, entry, seen, registry, auth, srv, pend, sync, unreg, jobs, lpc, lconn,
        kpc, krec, kills, boots>>
  BY DEF ExecSpawn, netVars, wVars, connVars, recVars, reqVars, supVars
<1>g. /\ wup /\ wp[p] = "asked"
      /\ \A q \in Procs : q # p => wp'[q] = wp[q] /\ holder'[q] = holder[q]
      /\ wp'[p] \in {"spawning", "rejected"}
  BY <1>a, Ranges DEF ExecSpawn, WorkerOK
<1>s. /\ \A d \in Conns : Sent(d)' = Sent(d) /\ (SyncOn(d)' <=> SyncOn(d))
      /\ \A d \in Conns, q \in Procs : ExitOn(d, q)' <=> ExitOn(d, q)
      /\ \A d \in Conns, q \in Procs : RunsOn(d, q)' <=> RunsOn(d, q)
      /\ \A q \in Procs : Untold(q)' <=> Untold(q)
  BY <1>u, SentKept
<1>k. Ordered' /\ Links' /\ Drained' /\ Registered' /\ Synced' /\ JobPlaces' /\ Running' /\
      Listed' /\ JobsFit' /\ EditsBehind'
  BY <1>u, CoreKept
<1>1. Launches'
  <2> SUFFICES ASSUME NEW q \in Procs PROVE LaunchOf(q)'
    BY DEF Launches
  <2>1. LaunchOf(q) /\ LaunchOf(p)
    BY Ranges DEF Core, Launches
  <2> QED
    BY <1>g, <1>u, <1>s, <2>1, Ranges DEF LaunchOf, Launching, Past
<1>2. Outcomes'
  <2> SUFFICES ASSUME NEW q \in Procs PROVE OutcomeOf(q)'
    BY DEF Outcomes
  <2>1. OutcomeOf(q) /\ OutcomeOf(p)
    BY Ranges DEF Core, Outcomes
  <2> QED
    BY <1>g, <1>u, <1>s, <2>1, Ranges DEF OutcomeOf
<1>3. Carried'
  <2> SUFFICES ASSUME NEW d \in Conns, NEW f \in Sent(d)' PROVE About(d, f)'
    BY DEF Carried
  <2>1. About(d, f)
    BY <1>u, <1>s, Ranges DEF Core, Carried
  <2> QED
    BY <1>g, <1>u, <1>s, <2>1, Ranges DEF About, Admitted
<1>4. Ends'
  <2> SUFFICES ASSUME NEW q \in Procs PROVE EndOf(q)'
    BY DEF Ends
  <2>1. EndOf(q) /\ LaunchOf(p)
    BY Ranges DEF Core, Ends, Launches
  <2> QED
    BY <1>g, <1>u, <1>s, <2>1, Ranges DEF EndOf, Gone, Past, Active, LaunchOf
<1>5. SyncTells'
  <2> SUFFICES ASSUME NEW d \in Conns, NEW q \in Procs PROVE Told(d, q)'
    BY DEF SyncTells
  <2>1. Told(d, q)
    BY Ranges DEF Core, SyncTells
  <2> QED
    BY <1>g, <1>u, <1>s, <2>1, Ranges DEF Told, Unlisted
<1>6. Bound'
  <2> SUFFICES ASSUME NEW q \in Procs PROVE BoundTo(q)'
    BY DEF Bound
  <2>1. BoundTo(q)
    BY Ranges DEF Core, Bound
  <2> QED
    BY <1>g, <1>u, <1>s, <1>a, <2>1, Ranges DEF BoundTo, Active, procs, Attached, WorkerOK
<1> QED
  BY <1>k, <1>1, <1>2, <1>3, <1>4, <1>5, <1>6 DEF Core

(* From here on the worker has the process, and no launch of it fails.     *)
LEMMA ExecAdmitCore ==
  ASSUME IInv, IInv', Core, Calm, NEW p \in Procs, ExecAdmit(p)
  PROVE  Core'
<1>a. /\ NetOK /\ WorkerOK /\ ConnOK /\ RecOK /\ ReqOK
      /\ NetOK' /\ WorkerOK' /\ ConnOK' /\ RecOK' /\ ReqOK'
  BY DEF IInv, TypeOK
<1>u. UNCHANGED <<link, up, edits, wup, wconn, ready, session, reg, signalled, crashes, row,
        entry, seen, registry, auth, srv, pend, sync, unreg, jobs, lpc, lconn, kpc, krec,
        kills, boots>>
  BY DEF ExecAdmit, netVars, wVars, connVars, recVars, reqVars, supVars
<1>g. /\ wup /\ wp[p] = "spawning"
      /\ \A q \in Procs : q # p => wp'[q] = wp[q] /\ holder'[q] = holder[q] /\ outcome'[q] = outcome[q]
      /\ \/ /\ wp'[p] = "attached" /\ outcome'[p] = outcome[p] /\ holder'[p] = holder[p]
         \/ wp'[p] = "finishing" /\ outcome'[p] = "own" /\ holder'[p] = holder[p]
         \/ wp'[p] = "rejected" /\ outcome'[p] = outcome[p]
  BY <1>a, Ranges DEF ExecAdmit, WorkerOK, AfterHello, LearntByHello
<1>s. /\ \A d \in Conns : Sent(d)' = Sent(d) /\ (SyncOn(d)' <=> SyncOn(d))
      /\ \A d \in Conns, q \in Procs : ExitOn(d, q)' <=> ExitOn(d, q)
      /\ \A d \in Conns, q \in Procs : RunsOn(d, q)' <=> RunsOn(d, q)
      /\ \A q \in Procs : Untold(q)' <=> Untold(q)
  BY <1>u, SentKept
<1>n. outcome[p] = "none" /\ Launching(p) /\ entry[p].conn # 0 /\ row[p].status = "PENDING"
      /\ \A k \in jobs : k.p = p => k.status \notin {"own", "lost"}
  <2>1. LaunchOf(p) /\ OutcomeOf(p) /\ EndOf(p)
    BY DEF Core, Launches, Outcomes, Ends
  <2>2. outcome[p] = "none"
    BY <1>a, <1>g, <2>1 DEF OutcomeOf, WorkerOK
  <2>3. Launching(p) /\ entry[p].conn # 0 /\ row[p].status = "PENDING"
    BY <1>g, <2>1 DEF LaunchOf, Launching
  <2> QED
    BY <1>g, <2>1, <2>2, <2>3 DEF EndOf, Gone
<1>k. Ordered' /\ Links' /\ Drained' /\ Registered' /\ Synced' /\ JobPlaces' /\ Running' /\
      Listed' /\ JobsFit' /\ EditsBehind'
  BY <1>u, CoreKept
<1>1. Launches'
  <2> SUFFICES ASSUME NEW q \in Procs PROVE LaunchOf(q)'
    BY DEF Launches
  <2>1. LaunchOf(q)
    BY Ranges DEF Core, Launches
  <2> QED
    BY <1>g, <1>u, <1>s, <1>n, <2>1, Ranges DEF LaunchOf, Launching, Past
<1>2. Outcomes'
  <2> SUFFICES ASSUME NEW q \in Procs PROVE OutcomeOf(q)'
    BY DEF Outcomes
  <2>1. OutcomeOf(q)
    BY Ranges DEF Core, Outcomes
  <2> QED
    BY <1>g, <1>u, <1>s, <1>n, <2>1, Ranges DEF OutcomeOf
<1>3. Carried'
  <2> SUFFICES ASSUME NEW d \in Conns, NEW f \in Sent(d)' PROVE About(d, f)'
    BY DEF Carried
  <2>1. About(d, f)
    BY <1>u, <1>s, Ranges DEF Core, Carried
  <2> QED
    BY <1>g, <1>u, <1>s, <1>n, <2>1, Ranges DEF About, Admitted
<1>4. Ends'
  <2> SUFFICES ASSUME NEW q \in Procs PROVE EndOf(q)'
    BY DEF Ends
  <2>1. EndOf(q)
    BY Ranges DEF Core, Ends
  <2> QED
    BY <1>g, <1>u, <1>s, <1>n, <2>1, Ranges DEF EndOf, Gone, Past, Active
<1>5. SyncTells'
  <2> SUFFICES ASSUME NEW d \in Conns, NEW q \in Procs PROVE Told(d, q)'
    BY DEF SyncTells
  <2>1. Told(d, q)
    BY Ranges DEF Core, SyncTells
  <2> QED
    BY <1>g, <1>u, <1>s, <1>n, <2>1, Ranges DEF Told, Unlisted
<1>6. Bound'
  <2> SUFFICES ASSUME NEW q \in Procs PROVE BoundTo(q)'
    BY DEF Bound
  <2>1. BoundTo(q)
    BY Ranges DEF Core, Bound
  <2> QED
    BY <1>g, <1>u, <1>s, <1>n, <2>1, Ranges DEF BoundTo, Active, procs, Attached
<1> QED
  BY <1>k, <1>1, <1>2, <1>3, <1>4, <1>5, <1>6 DEF Core

(* PROCESS goes out before any end of the process is known.                *)
LEMMA ForwardProcessCore ==
  ASSUME IInv, IInv', Core, Calm, NEW p \in Procs, ForwardProcess(p)
  PROVE  Core'
<1>a. /\ NetOK /\ WorkerOK /\ ConnOK /\ RecOK /\ ReqOK
      /\ NetOK' /\ WorkerOK' /\ ConnOK' /\ RecOK' /\ ReqOK'
  BY DEF IInv, TypeOK
<1>u. UNCHANGED <<link, edits, wup, wconn, ready, session, reg, holder, outcome, signalled,
        crashes, row, entry, seen, registry, auth, srv, pend, sync, unreg, jobs, lpc, lconn,
        kpc, krec, kills, boots>>
  BY DEF ForwardProcess, netVars, wVars, connVars, recVars, reqVars, supVars
<1>g. /\ wup /\ wp[p] = "attached" /\ wconn \in 0 .. MaxConn
      /\ Emit(wconn, "PROCESS", {p})
      /\ \A q \in Procs : wp'[q] = IF q = p THEN "running" ELSE wp[q]
  BY <1>a, Ranges DEF ForwardProcess, WorkerOK
<1>n. outcome[p] = "none" /\ Active(p) /\ \A k \in jobs : k.p = p => k.status \notin Exits
  BY <1>a, <1>g, Ranges, LiveIsActive DEF Core
<1>f. wconn # 0 /\ link[wconn] = "up" =>
        \A f \in Sent(wconn) : Follows(f, [kind |-> "PROCESS", procs |-> {p}])
  <2> SUFFICES ASSUME wconn \in Conns, NEW f \in Sent(wconn)
               PROVE  Follows(f, [kind |-> "PROCESS", procs |-> {p}])
    BY Ranges
  <2>1. About(wconn, f) /\ Told(wconn, p) /\ f \in Frames
    BY <1>a, SentIn DEF Core, Carried, SyncTells
  <2>2. f.kind = "sync" => p \in f.procs
    BY <1>g, <2>1 DEF Told, Unlisted
  <2>3. p \in f.procs /\ f.kind # "sync" => f.kind = "PROCESS"
    BY <1>n, <2>1 DEF About, Frames
  <2> QED
    BY <2>2, <2>3 DEF Follows
<1>s. /\ Ordered'
      /\ \A d \in Conns : Sent(d)' = IF d = wconn /\ link[wconn] = "up"
                          THEN Sent(d) \cup {[kind |-> "PROCESS", procs |-> {p}]} ELSE Sent(d)
      /\ \A d \in Conns : ~(d = wconn /\ link[wconn] = "up") => up'[d] = up[d]
      /\ \A d \in Conns : SyncOn(d)' <=> SyncOn(d)
      /\ \A d \in Conns, q \in Procs : ExitOn(d, q)' <=> ExitOn(d, q)
      /\ \A d \in Conns, q \in Procs : RunsOn(d, q)' <=> (RunsOn(d, q) \/ (d = wconn /\ link[wconn] = "up" /\ q = p))
  <2>1. /\ Ordered'
        /\ \A d \in Conns : Sent(d)' = IF d = wconn /\ link[wconn] = "up"
                            THEN Sent(d) \cup {[kind |-> "PROCESS", procs |-> {p}]} ELSE Sent(d)
    BY <1>a, <1>f, <1>g, EmitSent DEF Core
  <2>2. \A d \in Conns :
          LET written == d = wconn /\ link[wconn] = "up" IN
          /\ ~written => up'[d] = up[d]
          /\ SyncOn(d)' <=> SyncOn(d) \/ (written /\ "PROCESS" = "sync")
          /\ \A q : /\ ExitOn(d, q)' <=>
                         ExitOn(d, q) \/ (written /\ "PROCESS" \in {"own", "lost"} /\ q \in {p})
                    /\ RunsOn(d, q)' <=> RunsOn(d, q) \/ (written /\ "PROCESS" = "PROCESS" /\ q \in {p})
    BY <1>a, <1>f, <1>g, EmitTold DEF Core
  <2> QED
    BY <2>1, <2>2
<1>k. Registered' /\ JobPlaces' /\ Listed' /\ JobsFit'
  BY <1>u, CoreKept
<1>2. Links'
  <2> SUFFICES ASSUME NEW d \in Conns PROVE LinkAt(d)'
    BY DEF Links
  <2>1. LinkAt(d)
    BY Ranges DEF Core, Links
  <2> QED
    BY <1>g, <1>u, <1>s, <1>n, <2>1, Ranges DEF LinkAt
<1>3. Drained'
  <2> SUFFICES ASSUME NEW d \in Conns PROVE DrainedAt(d)'
    BY DEF Drained
  <2>1. DrainedAt(d) /\ LinkAt(d)
    BY Ranges DEF Core, Drained, Links
  <2> QED
    BY <1>g, <1>u, <1>s, <1>n, <2>1, Ranges DEF DrainedAt, LinkAt
<1>4. Synced'
  <2> SUFFICES ASSUME NEW d \in Conns PROVE SyncedAt(d)'
    BY DEF Synced
  <2>1. SyncedAt(d)
    BY Ranges DEF Core, Synced
  <2> QED
    BY <1>g, <1>u, <1>s, <1>n, <2>1, Ranges DEF SyncedAt
<1>5. Launches'
  <2> SUFFICES ASSUME NEW q \in Procs PROVE LaunchOf(q)'
    BY DEF Launches
  <2>1. LaunchOf(q)
    BY Ranges DEF Core, Launches
  <2> QED
    BY <1>g, <1>u, <1>s, <1>n, <2>1, Ranges DEF LaunchOf, Launching, Past
<1>6. Outcomes'
  <2> SUFFICES ASSUME NEW q \in Procs PROVE OutcomeOf(q)'
    BY DEF Outcomes
  <2>1. OutcomeOf(q)
    BY Ranges DEF Core, Outcomes
  <2> QED
    BY <1>g, <1>u, <1>s, <1>n, <2>1, Ranges DEF OutcomeOf
<1>7. Carried'
  BY <1>g, <1>s, <1>u DEF Core, Carried, About, Admitted
<1>8. Ends'
  <2> SUFFICES ASSUME NEW q \in Procs PROVE EndOf(q)'
    BY DEF Ends
  <2>1. EndOf(q)
    BY Ranges DEF Core, Ends
  <2> QED
    BY <1>g, <1>u, <1>s, <1>n, <2>1, Ranges DEF EndOf, Gone, Past, Active, Untold
<1>9. Running'
  <2> SUFFICES ASSUME NEW d \in Conns, NEW q \in Procs PROVE RunningOn(d, q)'
    BY DEF Running
  <2>1. RunningOn(d, q)
    BY DEF Core, Running
  <2>2. \A e \in Conns : ~ExitOn(e, p)
    BY <1>n DEF Core, ExitOn, Carried, About
  <2> QED
    BY <1>n, <1>s, <1>u, <2>1, <2>2 DEF RunningOn, Active
<1>10. SyncTells'
  <2> SUFFICES ASSUME NEW d \in Conns, NEW q \in Procs PROVE Told(d, q)'
    BY DEF SyncTells
  <2>1. Told(d, q)
    BY DEF Core, SyncTells
  <2>2. \A f \in Sent(d)' : f.kind = "sync" => f \in Sent(d)
    BY <1>s
  <2>3. Unlisted(q) => q # p /\ Unlisted(q)'
    BY <1>g, <1>s DEF Unlisted, Untold
  <2> QED
    BY <1>s, <1>u, <2>1, <2>2, <2>3 DEF Told
<1>11. Bound'
  <2> SUFFICES ASSUME NEW q \in Procs PROVE BoundTo(q)'
    BY DEF Bound
  <2>1. BoundTo(q)
    BY Ranges DEF Core, Bound
  <2> QED
    BY <1>g, <1>u, <1>s, <1>n, <2>1, Ranges DEF BoundTo, Active, procs, Attached
<1>12. EditsBehind'
  <2> SUFFICES ASSUME NEW q \in Procs, NEW d \in Conns PROVE Behind(q, d)'
    BY DEF EditsBehind
  <2>1. Behind(q, d)
    BY Ranges DEF Core, EditsBehind
  <2> QED
    BY <1>g, <1>u, <1>s, <1>n, <2>1, Ranges DEF Behind
<1> QED
  BY <1>k, <1>2, <1>3, <1>4, <1>5, <1>6, <1>7, <1>8, <1>9, <1>10, <1>11, <1>12, <1>s
  DEF Core

(* The end is learnt once, and is what the holder says.                    *)
LEMMA ForwardExitCore ==
  ASSUME IInv, IInv', Core, Calm, NEW p \in Procs, ForwardExit(p)
  PROVE  Core'
<1>a. /\ NetOK /\ WorkerOK /\ ConnOK /\ RecOK /\ ReqOK
      /\ NetOK' /\ WorkerOK' /\ ConnOK' /\ RecOK' /\ ReqOK'
  BY DEF IInv, TypeOK
<1>u. UNCHANGED <<link, up, edits, wup, wconn, ready, session, reg, holder, signalled,
        crashes, row, entry, seen, registry, auth, srv, pend, sync, unreg, jobs, lpc, lconn,
        kpc, krec, kills, boots>>
  BY DEF ForwardExit, netVars, wVars, connVars, recVars, reqVars, supVars
<1>g. /\ wup /\ wp[p] \in {"attached", "running"}
      /\ \A q \in Procs : q # p => wp'[q] = wp[q] /\ outcome'[q] = outcome[q]
      /\ wp'[p] = "finishing" /\ outcome'[p] \in {"own", "lost"}
      /\ outcome'[p] = "lost" => holder[p] = "gone"
  BY <1>a, Ranges DEF ForwardExit, WorkerOK, LearntExit
<1>s. /\ \A d \in Conns : Sent(d)' = Sent(d) /\ (SyncOn(d)' <=> SyncOn(d))
      /\ \A d \in Conns, q \in Procs : ExitOn(d, q)' <=> ExitOn(d, q)
      /\ \A d \in Conns, q \in Procs : RunsOn(d, q)' <=> RunsOn(d, q)
      /\ \A q \in Procs : Untold(q)' <=> Untold(q)
  BY <1>u, SentKept
<1>n. outcome[p] = "none" /\ Active(p) /\ \A k \in jobs : k.p = p => k.status \notin Exits
  BY <1>a, <1>g, Ranges, LiveIsActive DEF Core
<1>k. Ordered' /\ Links' /\ Drained' /\ Registered' /\ Synced' /\ JobPlaces' /\ Running' /\
      Listed' /\ JobsFit' /\ EditsBehind'
  BY <1>u, CoreKept
<1>1. Launches'
  <2> SUFFICES ASSUME NEW q \in Procs PROVE LaunchOf(q)'
    BY DEF Launches
  <2>1. LaunchOf(q)
    BY Ranges DEF Core, Launches
  <2> QED
    BY <1>g, <1>u, <1>s, <1>n, <2>1, Ranges DEF LaunchOf, Launching, Past
<1>2. Outcomes'
  <2> SUFFICES ASSUME NEW q \in Procs PROVE OutcomeOf(q)'
    BY DEF Outcomes
  <2>1. OutcomeOf(q)
    BY Ranges DEF Core, Outcomes
  <2> QED
    BY <1>g, <1>u, <1>s, <1>n, <2>1, Ranges DEF OutcomeOf
<1>3. Carried'
  <2> SUFFICES ASSUME NEW d \in Conns, NEW f \in Sent(d) PROVE About(d, f)'
    BY <1>s DEF Carried
  <2>1. About(d, f) /\ f \in Frames
    BY <1>a, SentIn DEF Core, Carried
  <2> QED
    BY <1>g, <1>n, <1>u, <2>1 DEF About, Admitted, Frames
<1>4. Ends'
  <2> SUFFICES ASSUME NEW q \in Procs PROVE EndOf(q)'
    BY DEF Ends
  <2>1. EndOf(q)
    BY Ranges DEF Core, Ends
  <2> QED
    BY <1>g, <1>u, <1>s, <1>n, <2>1, Ranges DEF EndOf, Gone, Past, Active
<1>5. SyncTells'
  <2> SUFFICES ASSUME NEW d \in Conns, NEW q \in Procs PROVE Told(d, q)'
    BY DEF SyncTells
  <2>1. Told(d, q)
    BY Ranges DEF Core, SyncTells
  <2> QED
    BY <1>g, <1>u, <1>s, <1>n, <2>1, Ranges DEF Told, Unlisted
<1>6. Bound'
  <2> SUFFICES ASSUME NEW q \in Procs PROVE BoundTo(q)'
    BY DEF Bound
  <2>1. BoundTo(q)
    BY Ranges DEF Core, Bound
  <2> QED
    BY <1>g, <1>u, <1>s, <1>n, <2>1, Ranges DEF BoundTo, Active, procs, Attached
<1> QED
  BY <1>k, <1>1, <1>2, <1>3, <1>4, <1>5, <1>6 DEF Core

(* The exit is behind the sync, and behind the PROCESS if there was one.   *)
LEMMA FinishCore ==
  ASSUME IInv, IInv', Core, Calm, NEW p \in Procs, Finish(p)
  PROVE  Core'
<1>a. /\ NetOK /\ WorkerOK /\ ConnOK /\ RecOK /\ ReqOK
      /\ NetOK' /\ WorkerOK' /\ ConnOK' /\ RecOK' /\ ReqOK'
  BY DEF IInv, TypeOK
<1>u. UNCHANGED <<link, wup, wconn, ready, session, reg, holder, outcome, signalled, crashes,
        row, entry, seen, registry, auth, srv, pend, sync, unreg, jobs, lpc, lconn, kpc,
        krec, kills, boots>>
  BY DEF Finish, netVars, wVars, connVars, recVars, reqVars, supVars
<1>g. /\ wup /\ wp[p] = "finishing" /\ ready \in Conns
      /\ Emit(ready, outcome[p], {p}) /\ ready \in 0 .. MaxConn
      /\ edits' \subseteq edits \cup {<<p, ready>>}
      /\ <<p, ready>> \in edits' => <<p, ready>> \in edits \/ link[ready] = "up"
      /\ \A q \in Procs : wp'[q] = IF q = p THEN "reported" ELSE wp[q]
  BY <1>a, Ranges DEF Finish, WorkerOK, ReportConn
<1>n. /\ outcome[p] \in {"own", "lost"}
      /\ link[ready] = "up" =>
           /\ registry = ready /\ reg[ready] = "done" /\ auth[ready]
           /\ \A d \in Conns \ {ready} : up[d] = <<>> /\ \A q \in Procs : ~RunsOn(d, q)
  <2>1. outcome[p] \in {"own", "lost"}
    BY <1>a, <1>g DEF IInv, Safety, Finishing, WorkerOK
  <2>2. ASSUME link[ready] = "up" PROVE reg[ready] = "done"
    BY <1>g, <2>2 DEF Core, Registered, RegistryAt
  <2>3. ASSUME link[ready] = "up"
        PROVE  /\ registry = ready
               /\ \A d \in Conns \ {ready} : up[d] = <<>> /\ \A q \in Procs : ~RunsOn(d, q)
    BY <1>g, <2>2, <2>3, OnlyHere
  <2> QED  BY <1>g, <2>1, <2>2, <2>3, Ranges DEF Core, Registered, Past
<1>f. ready # 0 /\ link[ready] = "up" =>
        \A f \in Sent(ready) : Follows(f, [kind |-> outcome[p], procs |-> {p}])
  <2> SUFFICES ASSUME link[ready] = "up", NEW f \in Sent(ready)
               PROVE  Follows(f, [kind |-> outcome[p], procs |-> {p}])
    OBVIOUS
  <2>1. About(ready, f) /\ Told(ready, p)
    BY <1>g DEF Core, Carried, SyncTells
  <2> QED
    BY <1>g, <1>n, <2>1 DEF About, Told, Unlisted, Follows
<1>s. /\ Ordered'
      /\ \A d \in Conns : Sent(d)' = IF d = ready /\ link[ready] = "up"
                          THEN Sent(d) \cup {[kind |-> outcome[p], procs |-> {p}]} ELSE Sent(d)
      /\ \A d \in Conns : ~(d = ready /\ link[ready] = "up") => up'[d] = up[d]
      /\ \A d \in Conns : SyncOn(d)' <=> SyncOn(d)
      /\ \A d \in Conns, q \in Procs : ExitOn(d, q)' <=> (ExitOn(d, q) \/ (d = ready /\ link[ready] = "up" /\ q = p))
      /\ \A d \in Conns, q \in Procs : RunsOn(d, q)' <=> RunsOn(d, q)
  <2>1. /\ Ordered'
        /\ \A d \in Conns : Sent(d)' = IF d = ready /\ link[ready] = "up"
                            THEN Sent(d) \cup {[kind |-> outcome[p], procs |-> {p}]} ELSE Sent(d)
    BY <1>a, <1>f, <1>g, EmitSent DEF Core
  <2>2. \A d \in Conns :
          LET written == d = ready /\ link[ready] = "up" IN
          /\ ~written => up'[d] = up[d]
          /\ SyncOn(d)' <=> SyncOn(d) \/ (written /\ outcome[p] = "sync")
          /\ \A q : /\ ExitOn(d, q)' <=>
                         ExitOn(d, q) \/ (written /\ outcome[p] \in {"own", "lost"} /\ q \in {p})
                    /\ RunsOn(d, q)' <=> RunsOn(d, q) \/ (written /\ outcome[p] = "PROCESS" /\ q \in {p})
    BY <1>a, <1>f, <1>g, EmitTold DEF Core
  <2> QED
    BY <2>1, <2>2, <1>n
<1>k. Registered' /\ JobPlaces' /\ Listed' /\ JobsFit'
  BY <1>u, CoreKept
<1>2. Links'
  <2> SUFFICES ASSUME NEW d \in Conns PROVE LinkAt(d)'
    BY DEF Links
  <2>1. LinkAt(d)
    BY Ranges DEF Core, Links
  <2> QED
    BY <1>g, <1>u, <1>s, <1>n, <2>1, Ranges DEF LinkAt
<1>3. Drained'
  <2> SUFFICES ASSUME NEW d \in Conns PROVE DrainedAt(d)'
    BY DEF Drained
  <2>1. DrainedAt(d) /\ LinkAt(d)
    BY Ranges DEF Core, Drained, Links
  <2> QED
    BY <1>g, <1>u, <1>s, <1>n, <2>1, Ranges DEF DrainedAt, LinkAt
<1>4. Synced'
  <2> SUFFICES ASSUME NEW d \in Conns PROVE SyncedAt(d)'
    BY DEF Synced
  <2>1. SyncedAt(d)
    BY Ranges DEF Core, Synced
  <2> QED
    BY <1>g, <1>u, <1>s, <1>n, <2>1, Ranges DEF SyncedAt
<1>5. Launches'
  <2> SUFFICES ASSUME NEW q \in Procs PROVE LaunchOf(q)'
    BY DEF Launches
  <2>1. LaunchOf(q)
    BY Ranges DEF Core, Launches
  <2> QED
    BY <1>g, <1>u, <1>s, <1>n, <2>1, Ranges DEF LaunchOf, Launching, Past
<1>6. Outcomes'
  <2> SUFFICES ASSUME NEW q \in Procs PROVE OutcomeOf(q)'
    BY DEF Outcomes
  <2>1. OutcomeOf(q)
    BY Ranges DEF Core, Outcomes
  <2> QED
    BY <1>g, <1>u, <1>s, <1>n, <2>1, Ranges DEF OutcomeOf
<1>7. Carried'
  <2>1. \A d \in Conns : \A f \in Sent(d) : About(d, f)
    BY DEF Core, Carried
  <2> QED
    BY <1>g, <1>n, <1>s, <1>u, <2>1 DEF Carried, About, Admitted
<1>8. Ends'
  <2> SUFFICES ASSUME NEW q \in Procs PROVE EndOf(q)'
    BY DEF Ends
  <2>1. EndOf(q)
    BY Ranges DEF Core, Ends
  <2> QED
    BY <1>g, <1>u, <1>s, <1>n, <2>1, Ranges DEF EndOf, Gone, Past, Active, Untold
<1>9. Running'
  <2> SUFFICES ASSUME NEW d \in Conns, NEW q \in Procs PROVE RunningOn(d, q)'
    BY DEF Running
  <2>1. RunningOn(d, q)
    BY Ranges DEF Core, Running
  <2> QED
    BY <1>g, <1>u, <1>s, <1>n, <2>1, Ranges DEF RunningOn, Active
<1>10. SyncTells'
  <2> SUFFICES ASSUME NEW d \in Conns, NEW q \in Procs PROVE Told(d, q)'
    BY DEF SyncTells
  <2>1. Told(d, q)
    BY Ranges DEF Core, SyncTells
  <2> QED
    BY <1>g, <1>u, <1>s, <1>n, <2>1, Ranges DEF Told, Unlisted, Untold
<1>11. Bound'
  <2> SUFFICES ASSUME NEW q \in Procs PROVE BoundTo(q)'
    BY DEF Bound
  <2>1. BoundTo(q)
    BY Ranges DEF Core, Bound
  <2> QED
    BY <1>g, <1>u, <1>s, <1>n, <2>1, Ranges DEF BoundTo, Active, procs, Attached
<1>12. EditsBehind'
  <2> SUFFICES ASSUME NEW q \in Procs, NEW d \in Conns PROVE Behind(q, d)'
    BY DEF EditsBehind
  <2>1. Behind(q, d)
    BY Ranges DEF Core, EditsBehind
  <2> QED
    BY <1>g, <1>u, <1>s, <1>n, <2>1, Ranges DEF Behind
<1> QED
  BY <1>k, <1>2, <1>3, <1>4, <1>5, <1>6, <1>7, <1>8, <1>9, <1>10, <1>11, <1>12, <1>s
  DEF Core

(* What is forgotten has been reported.                                    *)
LEMMA ForgetCore ==
  ASSUME IInv, IInv', Core, Calm, NEW p \in Procs, Forget(p)
  PROVE  Core'
<1>a. /\ NetOK /\ WorkerOK /\ ConnOK /\ RecOK /\ ReqOK
      /\ NetOK' /\ WorkerOK' /\ ConnOK' /\ RecOK' /\ ReqOK'
  BY DEF IInv, TypeOK
<1>u. UNCHANGED <<link, up, edits, wup, wconn, ready, session, reg, outcome, signalled,
        crashes, row, entry, seen, registry, auth, srv, pend, sync, unreg, jobs, lpc, lconn,
        kpc, krec, kills, boots>>
  BY DEF Forget, netVars, wVars, connVars, recVars, reqVars, supVars
<1>g. /\ wup /\ wp[p] = "reported"
      /\ \A q \in Procs : wp'[q] = IF q = p THEN "over" ELSE wp[q]
      /\ \A q \in Procs : outcome[q] = "lost" => holder'[q] = holder[q]
  BY <1>a, Ranges DEF Forget, WorkerOK, Released
<1>s. /\ \A d \in Conns : Sent(d)' = Sent(d) /\ (SyncOn(d)' <=> SyncOn(d))
      /\ \A d \in Conns, q \in Procs : ExitOn(d, q)' <=> ExitOn(d, q)
      /\ \A d \in Conns, q \in Procs : RunsOn(d, q)' <=> RunsOn(d, q)
      /\ \A q \in Procs : Untold(q)' <=> Untold(q)
  BY <1>u, SentKept
<1>k. Ordered' /\ Links' /\ Drained' /\ Registered' /\ Synced' /\ JobPlaces' /\ Running' /\
      Listed' /\ JobsFit' /\ EditsBehind'
  BY <1>u, CoreKept
<1>1. Launches'
  <2> SUFFICES ASSUME NEW q \in Procs PROVE LaunchOf(q)'
    BY DEF Launches
  <2>1. LaunchOf(q)
    BY Ranges DEF Core, Launches
  <2> QED
    BY <1>g, <1>u, <1>s, <2>1, Ranges DEF LaunchOf, Launching, Past
<1>2. Outcomes'
  <2> SUFFICES ASSUME NEW q \in Procs PROVE OutcomeOf(q)'
    BY DEF Outcomes
  <2>1. OutcomeOf(q)
    BY Ranges DEF Core, Outcomes
  <2> QED
    BY <1>g, <1>u, <1>s, <2>1, Ranges DEF OutcomeOf
<1>3. Carried'
  <2> SUFFICES ASSUME NEW d \in Conns, NEW f \in Sent(d)' PROVE About(d, f)'
    BY DEF Carried
  <2>1. About(d, f)
    BY <1>u, <1>s, Ranges DEF Core, Carried
  <2> QED
    BY <1>g, <1>u, <1>s, <2>1, Ranges DEF About, Admitted
<1>4. Ends'
  <2> SUFFICES ASSUME NEW q \in Procs PROVE EndOf(q)'
    BY DEF Ends
  <2>1. EndOf(q)
    BY Ranges DEF Core, Ends
  <2> QED
    BY <1>g, <1>u, <1>s, <2>1, Ranges DEF EndOf, Gone, Past, Active
<1>5. SyncTells'
  <2> SUFFICES ASSUME NEW d \in Conns, NEW q \in Procs PROVE Told(d, q)'
    BY DEF SyncTells
  <2>1. Told(d, q)
    BY Ranges DEF Core, SyncTells
  <2> QED
    BY <1>g, <1>u, <1>s, <2>1, Ranges DEF Told, Unlisted
<1>6. Bound'
  <2> SUFFICES ASSUME NEW q \in Procs PROVE BoundTo(q)'
    BY DEF Bound
  <2>1. BoundTo(q)
    BY Ranges DEF Core, Bound
  <2> QED
    BY <1>g, <1>u, <1>s, <2>1, Ranges DEF BoundTo, Active, procs, Attached
<1> QED
  BY <1>k, <1>1, <1>2, <1>3, <1>4, <1>5, <1>6 DEF Core

(* Nothing is recorded of an end the worker has not learnt.                *)
LEMMA ExitCore ==
  ASSUME IInv, IInv', Core, Calm, NEW p \in Procs, Exit(p)
  PROVE  Core'
<1>a. /\ NetOK /\ WorkerOK /\ ConnOK /\ RecOK /\ ReqOK
      /\ NetOK' /\ WorkerOK' /\ ConnOK' /\ RecOK' /\ ReqOK'
  BY DEF IInv, TypeOK
<1>u. UNCHANGED <<link, up, edits, wup, wconn, ready, session, reg, wp, outcome, signalled,
        crashes, row, entry, seen, registry, auth, srv, pend, sync, unreg, jobs, lpc, lconn,
        kpc, krec, kills, boots>>
  BY DEF Exit, netVars, wVars, connVars, recVars, reqVars, supVars
<1>g. /\ holder[p] = "running"
      /\ \A q \in Procs : holder'[q] = IF q = p THEN "exited" ELSE holder[q]
  BY <1>a, Ranges DEF Exit, WorkerOK
<1>s. /\ \A d \in Conns : Sent(d)' = Sent(d) /\ (SyncOn(d)' <=> SyncOn(d))
      /\ \A d \in Conns, q \in Procs : ExitOn(d, q)' <=> ExitOn(d, q)
      /\ \A d \in Conns, q \in Procs : RunsOn(d, q)' <=> RunsOn(d, q)
      /\ \A q \in Procs : Untold(q)' <=> Untold(q)
  BY <1>u, SentKept
<1>k. Ordered' /\ Links' /\ Drained' /\ Registered' /\ Synced' /\ JobPlaces' /\ Launches' /\
      Carried' /\ Ends' /\ Running' /\ SyncTells' /\ Listed' /\ JobsFit' /\ Bound' /\
      EditsBehind'
  BY <1>u, CoreKept
<1>1. Outcomes'
  <2> SUFFICES ASSUME NEW q \in Procs PROVE OutcomeOf(q)'
    BY DEF Outcomes
  <2>1. OutcomeOf(q)
    BY Ranges DEF Core, Outcomes
  <2> QED
    BY <1>g, <1>u, <1>s, <2>1, Ranges DEF OutcomeOf
<1> QED
  BY <1>k, <1>1 DEF Core

(* As for Exit.                                                            *)
LEMMA HolderDiesCore ==
  ASSUME IInv, IInv', Core, Calm, NEW p \in Procs, HolderDies(p)
  PROVE  Core'
<1>a. /\ NetOK /\ WorkerOK /\ ConnOK /\ RecOK /\ ReqOK
      /\ NetOK' /\ WorkerOK' /\ ConnOK' /\ RecOK' /\ ReqOK'
  BY DEF IInv, TypeOK
<1>u. UNCHANGED <<link, up, edits, wup, wconn, ready, session, reg, wp, outcome, signalled,
        crashes, row, entry, seen, registry, auth, srv, pend, sync, unreg, jobs, lpc, lconn,
        kpc, krec, kills, boots>>
  BY DEF HolderDies, netVars, wVars, connVars, recVars, reqVars, supVars
<1>g. /\ holder[p] = "running"
      /\ \A q \in Procs : holder'[q] = IF q = p THEN "gone" ELSE holder[q]
  BY <1>a, Ranges DEF HolderDies, WorkerOK
<1>s. /\ \A d \in Conns : Sent(d)' = Sent(d) /\ (SyncOn(d)' <=> SyncOn(d))
      /\ \A d \in Conns, q \in Procs : ExitOn(d, q)' <=> ExitOn(d, q)
      /\ \A d \in Conns, q \in Procs : RunsOn(d, q)' <=> RunsOn(d, q)
      /\ \A q \in Procs : Untold(q)' <=> Untold(q)
  BY <1>u, SentKept
<1>k. Ordered' /\ Links' /\ Drained' /\ Registered' /\ Synced' /\ JobPlaces' /\ Launches' /\
      Carried' /\ Ends' /\ Running' /\ SyncTells' /\ Listed' /\ JobsFit' /\ Bound' /\
      EditsBehind'
  BY <1>u, CoreKept
<1>1. Outcomes'
  <2> SUFFICES ASSUME NEW q \in Procs PROVE OutcomeOf(q)'
    BY DEF Outcomes
  <2>1. OutcomeOf(q)
    BY Ranges DEF Core, Outcomes
  <2> QED
    BY <1>g, <1>u, <1>s, <2>1, Ranges DEF OutcomeOf
<1> QED
  BY <1>k, <1>1 DEF Core

(* As for Exit.                                                            *)
LEMMA DoneWaitCore ==
  ASSUME IInv, IInv', Core, Calm, NEW p \in Procs, DoneWait(p)
  PROVE  Core'
<1>a. /\ NetOK /\ WorkerOK /\ ConnOK /\ RecOK /\ ReqOK
      /\ NetOK' /\ WorkerOK' /\ ConnOK' /\ RecOK' /\ ReqOK'
  BY DEF IInv, TypeOK
<1>u. UNCHANGED <<link, up, edits, wup, wconn, ready, session, reg, wp, outcome, signalled,
        crashes, row, entry, seen, registry, auth, srv, pend, sync, unreg, jobs, lpc, lconn,
        kpc, krec, kills, boots>>
  BY DEF DoneWait, netVars, connVars, recVars, reqVars, supVars
<1>g. /\ holder[p] = "exited"
      /\ \A q \in Procs : holder'[q] = IF q = p THEN "expired" ELSE holder[q]
  BY <1>a DEF DoneWait, WorkerOK
<1>k. Ordered' /\ Links' /\ Drained' /\ Registered' /\ Synced' /\ JobPlaces' /\ Launches' /\
      Carried' /\ Ends' /\ Running' /\ SyncTells' /\ Listed' /\ JobsFit' /\ Bound' /\
      EditsBehind'
  BY <1>u, CoreKept
<1>1. Outcomes'
  <2> SUFFICES ASSUME NEW q \in Procs PROVE OutcomeOf(q)'
    BY DEF Outcomes
  <2>1. OutcomeOf(q)
    BY DEF Core, Outcomes
  <2> QED
    BY <1>g, <1>u, <2>1 DEF OutcomeOf
<1> QED
  BY <1>k, <1>1 DEF Core

(* A kill only reaches the holder.                                         *)
LEMMA KillCore ==
  ASSUME IInv, IInv', Core, Calm, NEW p \in Procs, NEW c \in Conns, Kill(p, c)
  PROVE  Core'
<1>u. UNCHANGED <<link, up, edits, wup, wconn, ready, session, reg, wp, holder, outcome,
        crashes, row, entry, seen, registry, auth, srv, pend, sync, unreg, jobs, lpc, lconn,
        kpc, krec, kills, boots>>
  BY DEF Kill, netVars, wVars, connVars, recVars, reqVars, supVars
<1>k. Ordered' /\ Links' /\ Drained' /\ Registered' /\ Synced' /\ JobPlaces' /\ Launches' /\
      Outcomes' /\ Carried' /\ Ends' /\ Running' /\ SyncTells' /\ Listed' /\ JobsFit' /\
      Bound' /\ EditsBehind'
  BY <1>u, CoreKept
<1> QED
  BY <1>k DEF Core

(* The list keeps what was attached; connections go down, frames stay.     *)
LEMMA WorkerStopsCore ==
  ASSUME IInv, IInv', Core, Calm, WorkerStops
  PROVE  Core'
<1>a. /\ NetOK /\ WorkerOK /\ ConnOK /\ RecOK /\ ReqOK
      /\ NetOK' /\ WorkerOK' /\ ConnOK' /\ RecOK' /\ ReqOK'
  BY DEF IInv, TypeOK
<1>u. UNCHANGED <<up, edits, holder, outcome, signalled, row, entry, seen, registry, auth,
        srv, pend, sync, unreg, jobs, lpc, lconn, kpc, krec, kills, boots>>
  BY DEF WorkerStops, netVars, wVars, connVars, recVars, reqVars, supVars
<1>g. /\ wup /\ ~wup' /\ wconn' = 0 /\ ready' = 0
      /\ \A d \in Conns : /\ Settled(d)
                          /\ link'[d] = IF link[d] = "up" THEN "down" ELSE link[d]
                          /\ ~session'[d]
                          /\ reg'[d] = IF reg[d] \in {"answered", "synced"} THEN "done" ELSE reg[d]
      /\ \A q \in Procs : wp'[q] = AfterStop(q)
  BY <1>a, Ranges DEF WorkerStops, NetOK, WorkerOK
<1>s. /\ \A d \in Conns : Sent(d)' = Sent(d) /\ (SyncOn(d)' <=> SyncOn(d))
      /\ \A d \in Conns, q \in Procs : ExitOn(d, q)' <=> ExitOn(d, q)
      /\ \A d \in Conns, q \in Procs : RunsOn(d, q)' <=> RunsOn(d, q)
      /\ \A q \in Procs : Untold(q)' <=> Untold(q)
  BY <1>u, SentKept
<1>m. \A q \in Procs :
        /\ wp[q] \in {"attached", "running", "finishing", "reported"} => wp'[q] = "held"
        /\ wp[q] \in {"none", "rejected", "held", "orphan", "over"} => wp'[q] = wp[q]
  BY <1>g DEF AfterStop, Attached
<1>n. \A q \in Procs : wp[q] \notin {"asked", "spawning"} /\ (Launching(q) => wp[q] = "none")
  <2> SUFFICES ASSUME NEW q \in Procs
               PROVE  wp[q] \notin {"asked", "spawning"} /\ (Launching(q) => wp[q] = "none")
    OBVIOUS
  <2>1. LaunchOf(q) /\ (Launching(q) => lconn[q] \in Conns)
    BY Ranges DEF Core, Launches, LaunchOf
  <2>2. Launching(q) => Settled(lconn[q])
    BY <1>g, <2>1
  <2>3. Launching(q) /\ link[lconn[q]] = "up" => entry[q].conn # lconn[q] \/ entry[q].status # "PENDING"
    BY <2>2 DEF Settled, Calm
  <2>4. Launching(q) /\ link[lconn[q]] = "up" => lpc[q] # "called"
    BY <2>2 DEF Settled, Calm
  <2> QED
    BY <2>1, <2>3, <2>4 DEF LaunchOf, Launching
<1>o. \A q \in Procs : wp[q] \in {"none", "rejected", "held", "over", "attached", "running", "finishing", "reported"}
  <2>1. \A q \in Procs : wp[q] # "orphan"
    BY DEF Core, Launches, LaunchOf
  <2> QED  BY <1>a, <1>n, <2>1 DEF WorkerOK
<1>k. Ordered' /\ Drained' /\ JobPlaces' /\ Running' /\ Listed' /\ JobsFit' /\ EditsBehind'
  BY <1>u, CoreKept
<1>1. Links'
  <2> SUFFICES ASSUME NEW d \in Conns PROVE LinkAt(d)'
    BY DEF Links
  <2>1. LinkAt(d)
    BY Ranges DEF Core, Links
  <2> QED
    BY <1>g, <1>u, <1>s, <1>m, <1>n, <1>o, <2>1, Ranges DEF LinkAt
<1>2. Registered'
  <2>1. ASSUME NEW d \in Conns PROVE RegistryAt(d)'
    <3>1. RegistryAt(d)
      BY Ranges DEF Core, Registered
    <3> QED
      BY <1>g, <1>u, <1>s, <1>m, <1>n, <1>o, <3>1, Ranges DEF RegistryAt, Past
  <2>2. registry' # 0 => /\ Past(registry)' /\ srv'[registry'] \in {"serving", "ended"}
                          /\ \A d \in Conns : d < registry' => srv'[d] = "closed"
    BY <1>g, <1>u, <1>s, <1>m, <1>n, <1>o, Ranges DEF Core, Registered, Past
  <2> QED  BY <2>1, <2>2 DEF Registered
<1>3. Synced'
  <2> SUFFICES ASSUME NEW d \in Conns PROVE SyncedAt(d)'
    BY DEF Synced
  <2>1. SyncedAt(d)
    BY Ranges DEF Core, Synced
  <2> QED
    BY <1>g, <1>u, <1>s, <1>m, <1>n, <1>o, <2>1, Ranges DEF SyncedAt
<1>4. Launches'
  <2> SUFFICES ASSUME NEW q \in Procs PROVE LaunchOf(q)'
    BY DEF Launches
  <2>1. LaunchOf(q)
    BY Ranges DEF Core, Launches
  <2> QED
    BY <1>g, <1>u, <1>s, <1>m, <1>n, <1>o, <2>1, Ranges DEF LaunchOf, Launching, Past
<1>5. Outcomes'
  <2> SUFFICES ASSUME NEW q \in Procs PROVE OutcomeOf(q)'
    BY DEF Outcomes
  <2>1. OutcomeOf(q)
    BY Ranges DEF Core, Outcomes
  <2> QED
    BY <1>g, <1>u, <1>s, <1>m, <1>n, <1>o, <2>1, Ranges DEF OutcomeOf
<1>6. Carried'
  <2> SUFFICES ASSUME NEW d \in Conns, NEW f \in Sent(d)' PROVE About(d, f)'
    BY DEF Carried
  <2>1. About(d, f)
    BY <1>u, <1>s, Ranges DEF Core, Carried
  <2> QED
    BY <1>g, <1>u, <1>s, <1>m, <1>n, <1>o, <2>1, Ranges DEF About, Admitted
<1>7. Ends'
  <2> SUFFICES ASSUME NEW q \in Procs PROVE EndOf(q)'
    BY DEF Ends
  <2>1. EndOf(q)
    BY Ranges DEF Core, Ends
  <2> QED
    BY <1>g, <1>u, <1>s, <1>m, <1>n, <1>o, <2>1, Ranges DEF EndOf, Gone, Past, Active
<1>8. SyncTells'
  <2> SUFFICES ASSUME NEW d \in Conns, NEW q \in Procs PROVE Told(d, q)'
    BY DEF SyncTells
  <2>1. Told(d, q)
    BY Ranges DEF Core, SyncTells
  <2> QED
    BY <1>g, <1>u, <1>s, <1>m, <1>n, <1>o, <2>1, Ranges DEF Told, Unlisted
<1>9. Bound'
  <2> SUFFICES ASSUME NEW q \in Procs PROVE BoundTo(q)'
    BY DEF Bound
  <2>1. BoundTo(q)
    BY Ranges DEF Core, Bound
  <2> QED
    BY <1>g, <1>u, <1>s, <1>m, <1>n, <1>o, <2>1, Ranges DEF BoundTo, Active, procs, Attached
<1> QED
  BY <1>k, <1>1, <1>2, <1>3, <1>4, <1>5, <1>6, <1>7, <1>8, <1>9 DEF Core

(* What is recovered is what was held; nothing of it was reported.         *)
LEMMA WorkerStartsCore ==
  ASSUME IInv, IInv', Core, Calm, WorkerStarts
  PROVE  Core'
<1>a. /\ NetOK /\ WorkerOK /\ ConnOK /\ RecOK /\ ReqOK
      /\ NetOK' /\ WorkerOK' /\ ConnOK' /\ RecOK' /\ ReqOK'
  BY DEF IInv, TypeOK
<1>u. UNCHANGED <<link, up, edits, wconn, ready, session, reg, holder, signalled, crashes,
        row, entry, seen, registry, auth, srv, pend, sync, unreg, jobs, lpc, lconn, kpc,
        krec, kills, boots>>
  BY DEF WorkerStarts, netVars, wVars, connVars, recVars, reqVars, supVars
<1>g. /\ ~wup /\ wup'
      /\ \A q \in Procs :
           \/ wp[q] # "held" /\ wp'[q] = wp[q] /\ outcome'[q] = outcome[q]
           \/ /\ wp[q] = "held" /\ holder[q] = "running"
              /\ wp'[q] = "attached" /\ outcome'[q] = outcome[q]
           \/ wp[q] = "held" /\ holder[q] = "exited" /\ wp'[q] = "finishing" /\ outcome'[q] = "own"
           \/ /\ wp[q] = "held" /\ holder[q] \notin {"running", "exited"}
              /\ wp'[q] = "over" /\ outcome'[q] = outcome[q]
  BY <1>a, Ranges DEF WorkerStarts, WorkerOK, Recovered, AfterHello, LearntByHello
<1>s. /\ \A d \in Conns : Sent(d)' = Sent(d) /\ (SyncOn(d)' <=> SyncOn(d))
      /\ \A d \in Conns, q \in Procs : ExitOn(d, q)' <=> ExitOn(d, q)
      /\ \A d \in Conns, q \in Procs : RunsOn(d, q)' <=> RunsOn(d, q)
      /\ \A q \in Procs : Untold(q)' <=> Untold(q)
  BY <1>u, SentKept
<1>n. /\ \A q \in Procs : /\ outcome[q] = "own" => holder[q] \in {"exited", "released", "expired"}
                          /\ outcome[q] = "lost" => holder[q] = "gone"
                          /\ outcome[q] \in {"none", "own", "lost"}
      /\ \A d \in Conns : link[d] # "up"
  <2>1. \A q \in Procs : outcome[q] = "own" => holder[q] \in {"exited", "released", "expired"}
    BY DEF IInv, Safety, OwnIsEnded, OutcomesTrue, Ended
  <2>2. \A q \in Procs : outcome[q] = "lost" => holder[q] = "gone"
    BY DEF Core, Outcomes, OutcomeOf
  <2>3. \A d \in Conns : link[d] # "up"
    BY <1>g DEF Core, Links, LinkAt
  <2> QED  BY <1>a, <2>1, <2>2, <2>3 DEF WorkerOK
<1>k. Ordered' /\ Drained' /\ Registered' /\ Synced' /\ JobPlaces' /\ Running' /\ Listed' /\
      JobsFit' /\ EditsBehind'
  BY <1>u, CoreKept
<1>1. Links'
  <2> SUFFICES ASSUME NEW d \in Conns PROVE LinkAt(d)'
    BY DEF Links
  <2>1. LinkAt(d)
    BY Ranges DEF Core, Links
  <2> QED
    BY <1>g, <1>u, <1>s, <1>n, <2>1, Ranges DEF LinkAt
<1>2. Launches'
  <2> SUFFICES ASSUME NEW q \in Procs PROVE LaunchOf(q)'
    BY DEF Launches
  <2>1. LaunchOf(q)
    BY Ranges DEF Core, Launches
  <2> QED
    BY <1>g, <1>u, <1>s, <1>n, <2>1, Ranges DEF LaunchOf, Launching, Past
<1>3. Outcomes'
  <2> SUFFICES ASSUME NEW q \in Procs PROVE OutcomeOf(q)'
    BY DEF Outcomes
  <2>1. OutcomeOf(q)
    BY Ranges DEF Core, Outcomes
  <2> QED
    BY <1>g, <1>u, <1>s, <1>n, <2>1, Ranges DEF OutcomeOf
<1>4. Carried'
  <2> SUFFICES ASSUME NEW d \in Conns, NEW f \in Sent(d) PROVE About(d, f)'
    BY <1>s DEF Carried
  <2>1. About(d, f) /\ f \in Frames
    BY <1>a, SentIn DEF Core, Carried
  <2> QED
    BY <1>g, <1>n, <1>u, <2>1 DEF About, Admitted, Frames
<1>5. Ends'
  <2> SUFFICES ASSUME NEW q \in Procs PROVE EndOf(q)'
    BY DEF Ends
  <2>1. EndOf(q)
    BY Ranges DEF Core, Ends
  <2> QED
    BY <1>g, <1>u, <1>s, <1>n, <2>1, Ranges DEF EndOf, Gone, Past, Active
<1>6. SyncTells'
  <2> SUFFICES ASSUME NEW d \in Conns, NEW q \in Procs PROVE Told(d, q)'
    BY DEF SyncTells
  <2>1. Told(d, q)
    BY Ranges DEF Core, SyncTells
  <2> QED
    BY <1>g, <1>u, <1>s, <1>n, <2>1, Ranges DEF Told, Unlisted
<1>7. Bound'
  <2> SUFFICES ASSUME NEW q \in Procs PROVE BoundTo(q)'
    BY DEF Bound
  <2>1. BoundTo(q)
    BY Ranges DEF Core, Bound
  <2> QED
    BY <1>g, <1>u, <1>s, <1>n, <2>1, Ranges DEF BoundTo, Active, procs, Attached
<1> QED
  BY <1>k, <1>1, <1>2, <1>3, <1>4, <1>5, <1>6, <1>7 DEF Core

-----------------------------------------------------------------------------
(* The supervisor.                                                         *)

(* Only a connection that is served is bound.                              *)
LEMMA BindRegisterCore ==
  ASSUME IInv, IInv', Core, Calm, NEW c \in Conns, BindRegister(c)
  PROVE  Core'
<1>a. /\ NetOK /\ WorkerOK /\ ConnOK /\ RecOK /\ ReqOK
      /\ NetOK' /\ WorkerOK' /\ ConnOK' /\ RecOK' /\ ReqOK'
  BY DEF IInv, TypeOK
<1>u. UNCHANGED <<link, up, edits, wup, wconn, ready, session, reg, wp, holder, outcome,
        signalled, crashes, row, entry, seen, registry, srv, pend, sync, unreg, jobs, lpc,
        lconn, kpc, krec, kills, boots>>
  BY DEF BindRegister, netVars, wVars, recVars, reqVars
<1>g. /\ reg[c] = "asked" /\ ~auth[c] /\ srv[c] = "serving"
      /\ \A d \in Conns : auth'[d] <=> (d = c \/ auth[d])
  <2>1. /\ reg[c] = "asked" /\ ~auth[c] /\ srv[c] = "serving"
        /\ auth' = [auth EXCEPT ![c] = TRUE]
    BY DEF BindRegister, Calm
  <2> QED
    BY <1>a, <2>1 DEF ConnOK
<1>s. /\ \A d \in Conns : Sent(d)' = Sent(d) /\ (SyncOn(d)' <=> SyncOn(d))
      /\ \A d \in Conns, q \in Procs : ExitOn(d, q)' <=> ExitOn(d, q)
      /\ \A d \in Conns, q \in Procs : RunsOn(d, q)' <=> RunsOn(d, q)
      /\ \A q \in Procs : Untold(q)' <=> Untold(q)
  BY <1>u, SentKept
<1>k. Ordered' /\ Drained' /\ JobPlaces' /\ Outcomes' /\ Carried' /\ Running' /\ SyncTells' /\
      Listed' /\ JobsFit' /\ Bound' /\ EditsBehind'
  BY <1>u, CoreKept
<1>1. Links'
  <2> SUFFICES ASSUME NEW d \in Conns PROVE LinkAt(d)'
    BY DEF Links
  <2>1. LinkAt(d) /\ LinkAt(c)
    BY DEF Core, Links
  <2> QED
    BY <1>g, <1>u, <2>1 DEF LinkAt
<1>2. Registered'
  <2>1. ASSUME NEW d \in Conns PROVE RegistryAt(d)'
    <3>1. RegistryAt(d)
      BY DEF Core, Registered
    <3> QED
      BY <1>g, <1>u, <3>1 DEF RegistryAt, Past
  <2>2. registry' # 0 => /\ Past(registry)' /\ srv'[registry'] \in {"serving", "ended"}
                          /\ \A d \in Conns : d < registry' => srv'[d] = "closed"
    BY <1>g, <1>u, Ranges DEF Core, Registered, Past
  <2> QED  BY <2>1, <2>2 DEF Registered
<1>3. Synced'
  <2> SUFFICES ASSUME NEW d \in Conns PROVE SyncedAt(d)'
    BY DEF Synced
  <2>1. SyncedAt(d)
    BY DEF Core, Synced
  <2> QED
    BY <1>g, <1>u, <1>s, <2>1 DEF SyncedAt
<1>4. Launches'
  <2> SUFFICES ASSUME NEW q \in Procs PROVE LaunchOf(q)'
    BY DEF Launches
  <2>1. LaunchOf(q)
    BY DEF Core, Launches
  <2> QED
    BY <1>g, <1>u, <2>1, Ranges DEF LaunchOf, Launching, Past
<1>5. Ends'
  <2> SUFFICES ASSUME NEW q \in Procs PROVE EndOf(q)'
    BY DEF Ends
  <2>1. EndOf(q)
    BY DEF Core, Ends
  <2> QED
    BY <1>g, <1>u, <1>s, <2>1, Ranges DEF EndOf, Gone, Past, Active
<1> QED
  BY <1>k, <1>1, <1>2, <1>3, <1>4, <1>5 DEF Core

(* Registered while no older connection is served or cleaned up.           *)
LEMMA FinishRegisterCore ==
  ASSUME IInv, IInv', Core, Calm, NEW c \in Conns, FinishRegister(c)
  PROVE  Core'
<1>a. /\ NetOK /\ WorkerOK /\ ConnOK /\ RecOK /\ ReqOK
      /\ NetOK' /\ WorkerOK' /\ ConnOK' /\ RecOK' /\ ReqOK'
  BY DEF IInv, TypeOK
<1>u. UNCHANGED <<link, up, edits, wup, wconn, ready, session, wp, holder, outcome,
        signalled, crashes, row, entry, seen, srv, pend, sync, unreg, jobs, lpc, lconn, kpc,
        krec, kills, boots>>
  BY DEF FinishRegister, netVars, wVars, connVars, recVars, reqVars, supVars
<1>g. /\ reg[c] = "asked" /\ auth[c] /\ srv[c] = "serving" /\ registry # c
      /\ \A d \in Conns : srv[d] \in {"unused", "serving", "closed"}
      /\ \A q \in Procs : Launching(q) => srv[lconn[q]] = "serving"
      /\ \/ /\ registry = 0 /\ registry' = c /\ auth' = auth
            /\ \A d \in Conns : d < c => srv[d] # "serving"
            /\ \A d \in Conns : d # c => reg'[d] = reg[d]
            /\ reg'[c] \in {"answered", "done"}
         \/ /\ registry # 0 /\ registry' = registry
            /\ \A d \in Conns : auth'[d] <=> (d # c /\ auth[d])
            /\ \A d \in Conns : reg'[d] = IF d = c THEN "refused" ELSE reg[d]
  <2>1. /\ \A d \in Conns : srv[d] \notin {"ended", "removed", "pending"}
        /\ \A q \in Procs : Launching(q) => srv[lconn[q]] = "serving"
    BY DEF FinishRegister, Calm, CleaningUp, Launching
  <2>2. Free => \A d \in Conns : d < c => srv[d] # "serving"
    BY DEF FinishRegister, Calm, Older
  <2>3. \A d \in Conns : srv[d] \in {"unused", "serving", "closed"}
    BY <1>a, <2>1 DEF ConnOK
  <2>4. CASE Free /\ registry' = c
    BY <1>a, <2>1, <2>2, <2>3, <2>4 DEF FinishRegister, WorkerOK, Calm, Free
  <2>5. CASE ~Free
    <3>1. /\ auth' = [auth EXCEPT ![c] = FALSE] /\ reg' = [reg EXCEPT ![c] = "refused"]
          /\ registry' = registry /\ registry # 0
      BY <2>5 DEF FinishRegister, Free
    <3>2. \A d \in Conns : auth'[d] <=> (d # c /\ auth[d])
      BY <1>a, <3>1 DEF ConnOK
    <3>3. \A d \in Conns : reg'[d] = IF d = c THEN "refused" ELSE reg[d]
      BY <1>a, <3>1 DEF WorkerOK
    <3> QED
      BY <2>1, <2>3, <2>5, <3>1, <3>2, <3>3 DEF FinishRegister, Calm
  <2> QED
    BY <2>4, <2>5 DEF FinishRegister
<1>s. /\ \A d \in Conns : Sent(d)' = Sent(d) /\ (SyncOn(d)' <=> SyncOn(d))
      /\ \A d \in Conns, q \in Procs : ExitOn(d, q)' <=> ExitOn(d, q)
      /\ \A d \in Conns, q \in Procs : RunsOn(d, q)' <=> RunsOn(d, q)
      /\ \A q \in Procs : Untold(q)' <=> Untold(q)
  BY <1>u, SentKept
<1>k. Ordered' /\ Drained' /\ Outcomes' /\ Carried' /\ Running' /\ SyncTells' /\ Listed' /\
      JobsFit' /\ EditsBehind'
  BY <1>u, CoreKept
<1>1. Links'
  <2> SUFFICES ASSUME NEW d \in Conns PROVE LinkAt(d)'
    BY DEF Links
  <2>1. LinkAt(d)
    BY Ranges DEF Core, Links
  <2> QED
    BY <1>g, <1>u, <1>s, <2>1, Ranges DEF LinkAt
<1>2. Registered'
  <2>1. ASSUME NEW d \in Conns PROVE RegistryAt(d)'
    <3>1. RegistryAt(d)
      BY Ranges DEF Core, Registered
    <3> QED
      BY <1>g, <1>u, <1>s, <3>1, Ranges DEF RegistryAt, Past
  <2>2. registry' # 0 => /\ Past(registry)' /\ srv'[registry'] \in {"serving", "ended"}
                          /\ \A d \in Conns : d < registry' => srv'[d] = "closed"
    <3>1. \A e \in Conns : LinkAt(e) /\ RegistryAt(e)
      BY Ranges DEF Core, Registered, Links, Registered
    <3> QED
      BY <1>g, <1>u, <1>s, <3>1, Ranges DEF Core, Registered, Past, LinkAt, RegistryAt
  <2> QED  BY <2>1, <2>2 DEF Registered
<1>3. Synced'
  <2> SUFFICES ASSUME NEW d \in Conns PROVE SyncedAt(d)'
    BY DEF Synced
  <2>1. SyncedAt(d)
    BY Ranges DEF Core, Synced
  <2> QED
    BY <1>g, <1>u, <1>s, <2>1, Ranges DEF SyncedAt
<1>4. JobPlaces'
  <2>1. ASSUME NEW k \in jobs' PROVE Placed(k)'
    <3>1. Placed(k)
      BY <1>g, <1>u, Ranges DEF Core, JobPlaces
    <3> QED
      BY <1>g, <1>u, <1>s, <3>1, Ranges DEF Placed
  <2>2. \A k, l \in jobs' : k.p = l.p => k = l
    BY <1>g, <1>u DEF Core, JobPlaces
  <2> QED  BY <2>1, <2>2 DEF JobPlaces
<1>5. Launches'
  <2> SUFFICES ASSUME NEW q \in Procs PROVE LaunchOf(q)'
    BY DEF Launches
  <2>1. LaunchOf(q) /\ (lconn[q] # 0 => RegistryAt(lconn[q]))
    BY Ranges DEF Core, Launches, Registered
  <2> QED
    BY <1>g, <1>u, <1>s, <2>1, Ranges DEF LaunchOf, Launching, Past, RegistryAt
<1>6. Ends'
  <2> SUFFICES ASSUME NEW q \in Procs PROVE EndOf(q)'
    BY DEF Ends
  <2>1. EndOf(q)
    BY Ranges DEF Core, Ends
  <2> QED
    BY <1>g, <1>u, <1>s, <2>1, Ranges DEF EndOf, Gone, Past, Active
<1>7. Bound'
  <2> SUFFICES ASSUME NEW q \in Procs PROVE BoundTo(q)'
    BY DEF Bound
  <2>1. BoundTo(q) /\ SyncedAt(c)
    BY Ranges DEF Core, Bound, Synced
  <2> QED
    BY <1>g, <1>u, <1>s, <2>1, Ranges DEF BoundTo, Active, procs, Attached, SyncedAt
<1> QED
  BY <1>k, <1>1, <1>2, <1>3, <1>4, <1>5, <1>6, <1>7 DEF Core

(* The connection is drained when its clean-up begins.                     *)
LEMMA ServeEndsCore ==
  ASSUME IInv, IInv', Core, Calm, NEW c \in Conns, ServeEnds(c)
  PROVE  Core'
<1>a. /\ NetOK /\ WorkerOK /\ ConnOK /\ RecOK /\ ReqOK
      /\ NetOK' /\ WorkerOK' /\ ConnOK' /\ RecOK' /\ ReqOK'
  BY DEF IInv, TypeOK
<1>u. UNCHANGED <<link, up, edits, wup, wconn, ready, session, reg, wp, holder, outcome,
        signalled, crashes, row, entry, seen, registry, auth, pend, sync, unreg, jobs, lpc,
        lconn, kpc, krec, kills, boots>>
  BY DEF ServeEnds, netVars, wVars, connVars, recVars, reqVars, supVars
<1>g. /\ srv[c] = "serving" /\ link[c] = "down" /\ up[c] = <<>>
      /\ sync[c].at # "on" /\ \A k \in jobs : k.by # <<"dispatch", c>>
      /\ reg[c] # "asked" \/ ~auth[c]
      /\ \A d \in Conns : d # c => srv'[d] = srv[d]
      /\ srv'[c] = IF auth[c] THEN "ended" ELSE "closed"
  BY <1>a, Ranges DEF ServeEnds, ConnOK, Calm, Between, Busy
<1>s. /\ \A d \in Conns : Sent(d)' = Sent(d) /\ (SyncOn(d)' <=> SyncOn(d))
      /\ \A d \in Conns, q \in Procs : ExitOn(d, q)' <=> ExitOn(d, q)
      /\ \A d \in Conns, q \in Procs : RunsOn(d, q)' <=> RunsOn(d, q)
      /\ \A q \in Procs : Untold(q)' <=> Untold(q)
  BY <1>u, SentKept
<1>k. Ordered' /\ Synced' /\ Launches' /\ Outcomes' /\ Carried' /\ Ends' /\ Running' /\
      SyncTells' /\ Listed' /\ JobsFit' /\ Bound' /\ EditsBehind'
  BY <1>u, CoreKept
<1>1. Links'
  <2> SUFFICES ASSUME NEW d \in Conns PROVE LinkAt(d)'
    BY DEF Links
  <2>1. LinkAt(d)
    BY Ranges DEF Core, Links
  <2> QED
    BY <1>g, <1>u, <1>s, <2>1, Ranges DEF LinkAt
<1>2. Drained'
  <2> SUFFICES ASSUME NEW d \in Conns PROVE DrainedAt(d)'
    BY DEF Drained
  <2>1. DrainedAt(d)
    BY Ranges DEF Core, Drained
  <2> QED
    BY <1>g, <1>u, <1>s, <2>1, Ranges DEF DrainedAt
<1>3. Registered'
  <2>1. ASSUME NEW d \in Conns PROVE RegistryAt(d)'
    <3>1. RegistryAt(d) /\ RegistryAt(c)
      BY Ranges DEF Core, Registered
    <3> QED
      BY <1>g, <1>u, <1>s, <3>1, Ranges DEF RegistryAt, Past
  <2>2. registry' # 0 => /\ Past(registry)' /\ srv'[registry'] \in {"serving", "ended"}
                          /\ \A d \in Conns : d < registry' => srv'[d] = "closed"
    BY <1>g, <1>u, <1>s, Ranges DEF Core, Registered, Past
  <2> QED  BY <2>1, <2>2 DEF Registered
<1>4. JobPlaces'
  <2>1. ASSUME NEW k \in jobs' PROVE Placed(k)'
    <3>1. Placed(k)
      BY <1>g, <1>u, Ranges DEF Core, JobPlaces
    <3> QED
      BY <1>g, <1>u, <1>s, <3>1, Ranges DEF Placed
  <2>2. \A k, l \in jobs' : k.p = l.p => k = l
    BY <1>g, <1>u DEF Core, JobPlaces
  <2> QED  BY <2>1, <2>2 DEF JobPlaces
<1> QED
  BY <1>k, <1>1, <1>2, <1>3, <1>4 DEF Core

(* The registry is left to the next connection.                            *)
LEMMA UnregisterCore ==
  ASSUME IInv, IInv', Core, Calm, NEW c \in Conns, Unregister(c)
  PROVE  Core'
<1>a. /\ NetOK /\ WorkerOK /\ ConnOK /\ RecOK /\ ReqOK
      /\ NetOK' /\ WorkerOK' /\ ConnOK' /\ RecOK' /\ ReqOK'
  BY DEF IInv, TypeOK
<1>u. UNCHANGED <<link, up, edits, wup, wconn, ready, session, reg, wp, holder, outcome,
        signalled, crashes, row, entry, seen, auth, pend, sync, jobs, lpc, lconn, kpc, krec,
        kills, boots>>
  BY DEF Unregister, netVars, wVars, connVars, recVars, reqVars, supVars
<1>g. /\ srv[c] = "ended" /\ registry' = 0
      /\ \A d \in Conns : srv'[d] = IF d = c THEN "removed" ELSE srv[d]
  BY <1>a, Ranges DEF Unregister, ConnOK, AfterRemove
<1>s. /\ \A d \in Conns : Sent(d)' = Sent(d) /\ (SyncOn(d)' <=> SyncOn(d))
      /\ \A d \in Conns, q \in Procs : ExitOn(d, q)' <=> ExitOn(d, q)
      /\ \A d \in Conns, q \in Procs : RunsOn(d, q)' <=> RunsOn(d, q)
      /\ \A q \in Procs : Untold(q)' <=> Untold(q)
  BY <1>u, SentKept
<1>n. registry = c /\ link[c] # "up"
  BY <1>g DEF Core, Registered, RegistryAt, Past, Links, LinkAt
<1>k. Ordered' /\ Synced' /\ Outcomes' /\ Carried' /\ Ends' /\ Running' /\ SyncTells' /\
      Listed' /\ JobsFit' /\ EditsBehind'
  BY <1>u, CoreKept
<1>1. Links'
  <2> SUFFICES ASSUME NEW d \in Conns PROVE LinkAt(d)'
    BY DEF Links
  <2>1. LinkAt(d)
    BY Ranges DEF Core, Links
  <2> QED
    BY <1>g, <1>u, <1>s, <1>n, <2>1, Ranges DEF LinkAt
<1>2. Drained'
  <2> SUFFICES ASSUME NEW d \in Conns PROVE DrainedAt(d)'
    BY DEF Drained
  <2>1. DrainedAt(d)
    BY Ranges DEF Core, Drained
  <2> QED
    BY <1>g, <1>u, <1>s, <1>n, <2>1, Ranges DEF DrainedAt
<1>3. Registered'
  <2>1. ASSUME NEW d \in Conns PROVE RegistryAt(d)'
    <3>1. RegistryAt(d) /\ \A e \in Conns : RegistryAt(e)
      BY Ranges DEF Core, Registered
    <3> QED
      BY <1>g, <1>u, <1>s, <1>n, <3>1, Ranges DEF RegistryAt, Past
  <2>2. registry' # 0 => /\ Past(registry)' /\ srv'[registry'] \in {"serving", "ended"}
                          /\ \A d \in Conns : d < registry' => srv'[d] = "closed"
    BY <1>g, <1>u, <1>s, <1>n, Ranges DEF Core, Registered, Past
  <2> QED  BY <2>1, <2>2 DEF Registered
<1>4. JobPlaces'
  <2>1. ASSUME NEW k \in jobs' PROVE Placed(k)'
    <3>1. Placed(k)
      BY <1>g, <1>u, Ranges DEF Core, JobPlaces
    <3> QED
      BY <1>g, <1>u, <1>s, <1>n, <3>1, Ranges DEF Placed
  <2>2. \A k, l \in jobs' : k.p = l.p => k = l
    BY <1>g, <1>u DEF Core, JobPlaces
  <2> QED  BY <2>1, <2>2 DEF JobPlaces
<1>5. Launches'
  <2> SUFFICES ASSUME NEW q \in Procs PROVE LaunchOf(q)'
    BY DEF Launches
  <2>1. LaunchOf(q)
    BY Ranges DEF Core, Launches
  <2> QED
    BY <1>g, <1>u, <1>s, <1>n, <2>1, Ranges DEF LaunchOf, Launching, Past
<1>6. Bound'
  <2> SUFFICES ASSUME NEW q \in Procs PROVE BoundTo(q)'
    BY DEF Bound
  <2>1. BoundTo(q)
    BY Ranges DEF Core, Bound
  <2> QED
    BY <1>g, <1>u, <1>s, <1>n, <2>1, Ranges DEF BoundTo, Active, procs, Attached
<1> QED
  BY <1>k, <1>1, <1>2, <1>3, <1>4, <1>5, <1>6 DEF Core

(* What is active is listed for the clean-up.                              *)
LEMMA ListActiveCore ==
  ASSUME IInv, IInv', Core, Calm, NEW c \in Conns, ListActive(c)
  PROVE  Core'
<1>a. /\ NetOK /\ WorkerOK /\ ConnOK /\ RecOK /\ ReqOK
      /\ NetOK' /\ WorkerOK' /\ ConnOK' /\ RecOK' /\ ReqOK'
  BY DEF IInv, TypeOK
<1>u. UNCHANGED <<link, up, edits, wup, wconn, ready, session, reg, wp, holder, outcome,
        signalled, crashes, row, entry, seen, registry, auth, sync, unreg, jobs, lpc, lconn,
        kpc, krec, kills, boots>>
  BY DEF ListActive, netVars, wVars, connVars, recVars, reqVars, supVars
<1>g. /\ srv[c] = "removed"
      /\ pend'[c] = {q \in Procs : Active(q)}
      /\ \A d \in Conns : d # c => pend'[d] = pend[d]
      /\ \A d \in Conns : srv'[d] = IF d = c THEN "pending" ELSE srv[d]
  BY <1>a, Ranges DEF ListActive, ConnOK
<1>s. /\ \A d \in Conns : Sent(d)' = Sent(d) /\ (SyncOn(d)' <=> SyncOn(d))
      /\ \A d \in Conns, q \in Procs : ExitOn(d, q)' <=> ExitOn(d, q)
      /\ \A d \in Conns, q \in Procs : RunsOn(d, q)' <=> RunsOn(d, q)
      /\ \A q \in Procs : Untold(q)' <=> Untold(q)
  BY <1>u, SentKept
<1>k. Ordered' /\ Synced' /\ Launches' /\ Outcomes' /\ Carried' /\ Ends' /\ Running' /\
      SyncTells' /\ JobsFit' /\ Bound' /\ EditsBehind'
  BY <1>u, CoreKept
<1>1. Links'
  <2> SUFFICES ASSUME NEW d \in Conns PROVE LinkAt(d)'
    BY DEF Links
  <2>1. LinkAt(d)
    BY Ranges DEF Core, Links
  <2> QED
    BY <1>g, <1>u, <1>s, <2>1, Ranges DEF LinkAt
<1>2. Drained'
  <2> SUFFICES ASSUME NEW d \in Conns PROVE DrainedAt(d)'
    BY DEF Drained
  <2>1. DrainedAt(d)
    BY Ranges DEF Core, Drained
  <2> QED
    BY <1>g, <1>u, <1>s, <2>1, Ranges DEF DrainedAt
<1>3. Registered'
  <2>1. ASSUME NEW d \in Conns PROVE RegistryAt(d)'
    <3>1. RegistryAt(d) /\ RegistryAt(c) /\ \A e \in Conns : RegistryAt(e)
      BY Ranges DEF Core, Registered
    <3> QED
      BY <1>g, <1>u, <1>s, <3>1, Ranges DEF RegistryAt, Past
  <2>2. registry' # 0 => /\ Past(registry)' /\ srv'[registry'] \in {"serving", "ended"}
                          /\ \A d \in Conns : d < registry' => srv'[d] = "closed"
    BY <1>g, <1>u, <1>s, Ranges DEF Core, Registered, Past
  <2> QED  BY <2>1, <2>2 DEF Registered
<1>4. JobPlaces'
  <2>1. ASSUME NEW k \in jobs' PROVE Placed(k)'
    <3>1. Placed(k)
      BY <1>g, <1>u, Ranges DEF Core, JobPlaces
    <3> QED
      BY <1>g, <1>u, <1>s, <3>1, Ranges DEF Placed
  <2>2. \A k, l \in jobs' : k.p = l.p => k = l
    BY <1>g, <1>u DEF Core, JobPlaces
  <2> QED  BY <2>1, <2>2 DEF JobPlaces
<1>5. Listed'
  <2> SUFFICES ASSUME NEW d \in Conns PROVE ListedAt(d)'
    BY DEF Listed
  <2>1. ListedAt(d)
    BY Ranges DEF Core, Listed
  <2> QED
    BY <1>g, <1>u, <1>s, <2>1, Ranges DEF ListedAt, Active
<1> QED
  BY <1>k, <1>1, <1>2, <1>3, <1>4, <1>5 DEF Core

(* There is nothing left to throw away.                                    *)
LEMMA CloseConnCore ==
  ASSUME IInv, IInv', Core, Calm, NEW c \in Conns, CloseConn(c)
  PROVE  Core'
<1>a. /\ NetOK /\ WorkerOK /\ ConnOK /\ RecOK /\ ReqOK
      /\ NetOK' /\ WorkerOK' /\ ConnOK' /\ RecOK' /\ ReqOK'
  BY DEF IInv, TypeOK
<1>u. UNCHANGED <<link, wup, wconn, ready, session, reg, wp, holder, outcome, signalled,
        crashes, row, entry, seen, registry, auth, pend, sync, unreg, jobs, lpc, lconn, kpc,
        krec, kills, boots>>
  BY DEF CloseConn, wVars, recVars, reqVars
<1>g. /\ srv[c] = "pending" /\ pend[c] = {} /\ \A k \in jobs : k.by # <<"cleanup", c>>
      /\ \A d \in Conns : srv'[d] = IF d = c THEN "closed" ELSE srv[d]
      /\ edits' \subseteq edits
  BY <1>a DEF CloseConn, ConnOK, Busy
<1>n. up[c] = <<>>
  BY <1>g DEF Core, Drained, DrainedAt
<1>m. up' = up
  BY <1>a, <1>n DEF CloseConn, NetOK
<1>s. /\ \A d \in Conns : Sent(d)' = Sent(d) /\ (SyncOn(d)' <=> SyncOn(d))
      /\ \A d \in Conns, q \in Procs : ExitOn(d, q)' <=> ExitOn(d, q)
      /\ \A d \in Conns, q \in Procs : RunsOn(d, q)' <=> RunsOn(d, q)
      /\ Ordered' /\ \A q \in Procs : Untold(q)' <=> Untold(q)
  BY <1>m, SentKept DEF Core
<1>k. Launches' /\ Outcomes' /\ Listed' /\ JobsFit'
  BY <1>u, CoreKept
<1>2. Links'
  <2> SUFFICES ASSUME NEW d \in Conns PROVE LinkAt(d)'
    BY DEF Links
  <2>1. LinkAt(d)
    BY DEF Core, Links
  <2> QED
    BY <1>g, <1>u, <1>m, <2>1 DEF LinkAt
<1>3. Drained'
  <2> SUFFICES ASSUME NEW d \in Conns PROVE DrainedAt(d)'
    BY DEF Drained
  <2>1. DrainedAt(d)
    BY DEF Core, Drained
  <2> QED
    BY <1>g, <1>u, <1>m, <2>1 DEF DrainedAt
<1>4. Registered'
  <2>1. ASSUME NEW d \in Conns PROVE RegistryAt(d)'
    <3>1. RegistryAt(d)
      BY DEF Core, Registered
    <3> QED
      BY <1>g, <1>u, <3>1 DEF RegistryAt, Past
  <2>2. registry' # 0 => /\ Past(registry)' /\ srv'[registry'] \in {"serving", "ended"}
                          /\ \A d \in Conns : d < registry' => srv'[d] = "closed"
    BY <1>g, <1>u, Ranges DEF Core, Registered, Past
  <2> QED  BY <2>1, <2>2 DEF Registered
<1>5. Synced'
  <2> SUFFICES ASSUME NEW d \in Conns PROVE SyncedAt(d)'
    BY DEF Synced
  <2>1. SyncedAt(d)
    BY DEF Core, Synced
  <2> QED
    BY <1>u, <1>s, <2>1 DEF SyncedAt
<1>6. JobPlaces'
  <2>1. ASSUME NEW k \in jobs' PROVE Placed(k)'
    <3>1. Placed(k)
      BY <1>u DEF Core, JobPlaces
    <3> QED
      BY <1>g, <1>u, <3>1, Ranges DEF Placed
  <2>2. \A k, l \in jobs' : k.p = l.p => k = l
    BY <1>u DEF Core, JobPlaces
  <2> QED  BY <2>1, <2>2 DEF JobPlaces
<1>7. Carried'
  BY <1>s, <1>u DEF Core, Carried, About, Admitted
<1>8. Ends'
  <2> SUFFICES ASSUME NEW q \in Procs PROVE EndOf(q)'
    BY DEF Ends
  <2>1. EndOf(q)
    BY DEF Core, Ends
  <2> QED
    BY <1>u, <1>s, <2>1 DEF EndOf, Gone, Past, Active
<1>9. Running'
  <2> SUFFICES ASSUME NEW d \in Conns, NEW q \in Procs PROVE RunningOn(d, q)'
    BY DEF Running
  <2>1. RunningOn(d, q)
    BY DEF Core, Running
  <2> QED
    BY <1>u, <1>s, <2>1 DEF RunningOn, Active
<1>10. SyncTells'
  <2> SUFFICES ASSUME NEW d \in Conns, NEW q \in Procs PROVE Told(d, q)'
    BY DEF SyncTells
  <2>1. Told(d, q)
    BY DEF Core, SyncTells
  <2> QED
    BY <1>u, <1>s, <2>1 DEF Told, Unlisted
<1>11. Bound'
  <2> SUFFICES ASSUME NEW q \in Procs PROVE BoundTo(q)'
    BY DEF Bound
  <2>1. BoundTo(q)
    BY DEF Core, Bound
  <2> QED
    BY <1>u, <1>s, <2>1, Ranges DEF BoundTo, Active, procs
<1>12. EditsBehind'
  <2> SUFFICES ASSUME NEW q \in Procs, NEW d \in Conns PROVE Behind(q, d)'
    BY DEF EditsBehind
  <2>1. Behind(q, d)
    BY DEF Core, EditsBehind
  <2> QED
    BY <1>g, <1>u, <1>s, <2>1 DEF Behind
<1> QED
  BY <1>k, <1>2, <1>3, <1>4, <1>5, <1>6, <1>7, <1>8, <1>9, <1>10, <1>11, <1>12, <1>s
  DEF Core

(* From here on what the sync left out may be closed.                      *)
LEMMA SyncCore ==
  ASSUME IInv, IInv', Core, Calm, NEW c \in Conns, Sync(c)
  PROVE  Core'
<1>a. /\ NetOK /\ WorkerOK /\ ConnOK /\ RecOK /\ ReqOK
      /\ NetOK' /\ WorkerOK' /\ ConnOK' /\ RecOK' /\ ReqOK'
  BY DEF IInv, TypeOK
<1>u. UNCHANGED <<link, edits, wup, wconn, ready, session, reg, wp, holder, outcome,
        signalled, crashes, row, entry, seen, registry, auth, srv, pend, unreg, jobs, lpc,
        lconn, kpc, krec, kills, boots>>
  BY DEF Sync, netVars, wVars, connVars, recVars, reqVars, supVars
<1>g. /\ srv[c] # "unused" /\ sync[c].at # "on" /\ Head(up[c]).kind = "sync"
      /\ \A d \in Conns : d # c => sync'[d] = sync[d]
      /\ auth[c] => /\ sync'[c].at = "on" /\ sync'[c].todo = {q \in Procs : Active(q)}
                    /\ sync'[c].has = Head(up[c]).procs
      /\ Sync(c)
  BY <1>a, Ranges DEF Sync, ConnOK, Take, Between
<1>t. up[c] # <<>> /\ up' = [up EXCEPT ![c] = Tail(@)]
  BY <1>g DEF Sync, Take
<1>s. /\ Ordered' /\ \A d \in Conns : Sent(d)' \subseteq Sent(d)
      /\ \A d \in Conns : (SyncOn(d)' => SyncOn(d)) /\ (d # c => up'[d] = up[d])
      /\ \A d \in Conns, q \in Procs : ExitOn(d, q)' => ExitOn(d, q)
      /\ \A d \in Conns, q \in Procs : RunsOn(d, q)' => RunsOn(d, q)
      /\ \A d \in Conns, q \in Procs : (ExitOn(d, q) => ExitOn(d, q)') /\ (RunsOn(d, q) => RunsOn(d, q)')
      /\ \A f \in Sent(c)' : Follows(Head(up[c]), f)
      /\ Head(up[c]) \in Sent(c)
  <2>1. /\ Ordered' /\ Head(up[c]) \in Sent(c)
        /\ Sent(c) = Sent(c)' \cup {Head(up[c])}
        /\ \A f \in Sent(c)' : Follows(Head(up[c]), f)
        /\ \A d \in Conns \ {c} : Sent(d)' = Sent(d)
    BY <1>a, <1>t, TakeSent DEF Core
  <2>2. LET h == Head(up[c]) IN
        /\ \A d \in Conns : /\ d # c => up'[d] = up[d]
                            /\ SyncOn(d)' => SyncOn(d)
                            /\ SyncOn(d) => SyncOn(d)' \/ (d = c /\ h.kind = "sync")
        /\ \A d \in Conns : \A q :
             /\ ExitOn(d, q)' => ExitOn(d, q)
             /\ RunsOn(d, q)' => RunsOn(d, q)
             /\ ExitOn(d, q) => ExitOn(d, q)' \/ (d = c /\ h.kind \in {"own", "lost"} /\ q \in h.procs)
             /\ RunsOn(d, q) => RunsOn(d, q)' \/ (d = c /\ h.kind = "PROCESS" /\ q \in h.procs)
    BY <1>a, <1>t, TakeTold DEF Core
  <2> QED
    BY <1>g, <2>1, <2>2
<1>v. srv[c] = "serving" /\ link[c] # "unused"
  <2>1. LinkAt(c) /\ DrainedAt(c)
    BY DEF Core, Links, Drained
  <2> QED  BY <1>g, <1>t, <2>1 DEF LinkAt, DrainedAt
<1>n. /\ auth[c] /\ reg[c] \in {"synced", "done"} /\ sync[c].at = "no" /\ registry = c
      /\ SyncOn(c) /\ ~SyncOn(c)'
  <2>1. SyncOn(c) /\ ~SyncOn(c)'
    BY <1>g, <1>s DEF SyncOn, Follows
  <2>2. auth[c] /\ reg[c] \in {"synced", "done"} /\ sync[c].at = "no"
    BY <1>a, <2>1 DEF Core, Synced, SyncedAt, ConnOK
  <2>3. RegistryAt(c)
    BY DEF Core, Registered
  <2> QED  BY <1>v, <2>1, <2>2, <2>3 DEF RegistryAt
<1>k. Registered' /\ Outcomes' /\ JobsFit'
  BY <1>u, CoreKept
<1>1. Ordered'
  BY <1>s
<1>2. Links'
  <2> SUFFICES ASSUME NEW d \in Conns PROVE LinkAt(d)'
    BY DEF Links
  <2>1. LinkAt(d)
    BY Ranges DEF Core, Links
  <2> QED
    BY <1>g, <1>u, <1>s, <1>v, <1>n, <2>1, Ranges DEF LinkAt
<1>3. Drained'
  <2> SUFFICES ASSUME NEW d \in Conns PROVE DrainedAt(d)'
    BY DEF Drained
  <2>1. DrainedAt(d)
    BY Ranges DEF Core, Drained
  <2> QED
    BY <1>g, <1>u, <1>s, <1>v, <1>n, <2>1, Ranges DEF DrainedAt
<1>4. Synced'
  <2> SUFFICES ASSUME NEW d \in Conns PROVE SyncedAt(d)'
    BY DEF Synced
  <2>1. SyncedAt(d)
    BY Ranges DEF Core, Synced
  <2> QED
    BY <1>g, <1>u, <1>s, <1>v, <1>n, <2>1, Ranges DEF SyncedAt
<1>5. JobPlaces'
  <2>1. ASSUME NEW k \in jobs' PROVE Placed(k)'
    <3>1. Placed(k)
      BY <1>g, <1>u, Ranges DEF Core, JobPlaces
    <3> QED
      BY <1>g, <1>u, <1>s, <1>v, <1>n, <3>1, Ranges DEF Placed
  <2>2. \A k, l \in jobs' : k.p = l.p => k = l
    BY <1>g, <1>u DEF Core, JobPlaces
  <2> QED  BY <2>1, <2>2 DEF JobPlaces
<1>6. Launches'
  <2> SUFFICES ASSUME NEW q \in Procs PROVE LaunchOf(q)'
    BY DEF Launches
  <2>1. LaunchOf(q)
    BY Ranges DEF Core, Launches
  <2> QED
    BY <1>g, <1>u, <1>s, <1>v, <1>n, <2>1, Ranges DEF LaunchOf, Launching, Past
<1>7. Carried'
  <2> SUFFICES ASSUME NEW d \in Conns, NEW f \in Sent(d)' PROVE About(d, f)'
    BY DEF Carried
  <2>1. About(d, f)
    BY <1>s DEF Core, Carried
  <2> QED
    BY <1>u, <2>1 DEF About, Admitted
<1>8. Ends'
  <2> SUFFICES ASSUME NEW q \in Procs PROVE EndOf(q)'
    BY DEF Ends
  <2>1. EndOf(q)
    BY Ranges DEF Core, Ends
  <2> QED
    BY <1>g, <1>u, <1>s, <1>v, <1>n, <2>1, Ranges DEF EndOf, Gone, Past, Active, Untold
<1>9. Running'
  <2> SUFFICES ASSUME NEW d \in Conns, NEW q \in Procs PROVE RunningOn(d, q)'
    BY DEF Running
  <2>1. RunningOn(d, q)
    BY Ranges DEF Core, Running
  <2> QED
    BY <1>g, <1>u, <1>s, <1>v, <1>n, <2>1, Ranges DEF RunningOn, Active
<1>10. SyncTells'
  <2> SUFFICES ASSUME NEW d \in Conns, NEW q \in Procs PROVE Told(d, q)'
    BY DEF SyncTells
  <2>1. Told(d, q) /\ Told(c, q)
    BY DEF Core, SyncTells
  <2>2. Unlisted(q) => Unlisted(q)'
    BY <1>s, <1>u DEF Unlisted, Untold
  <2>3. ASSUME q \notin Head(up[c]).procs PROVE Unlisted(q)' /\ \A e \in Conns : ~RunsOn(e, q)'
    <3>1. Unlisted(q) /\ \A e \in Conns \ {c} : ~RunsOn(e, q)
      BY <1>g, <1>s, <2>1, <2>3 DEF Told
    <3>2. ~RunsOn(c, q)'
      BY <1>g, <1>s, <2>3 DEF RunsOn, Follows
    <3> QED  BY <1>s, <2>2, <3>1, <3>2
  <2> QED
    BY <1>g, <1>n, <1>s, <2>1, <2>2, <2>3 DEF Told
<1>11. Listed'
  <2> SUFFICES ASSUME NEW d \in Conns PROVE ListedAt(d)'
    BY DEF Listed
  <2>1. ListedAt(d)
    BY DEF Core, Listed
  <2>2. ASSUME NEW k \in jobs, k.p \in Procs, Active(k.p) PROVE k.status = "PROCESS"
    <3>1. Placed(k) /\ LaunchOf(k.p) /\ (k.by[1] = "launch" \/ RegistryAt(k.by[2]))
      BY Ranges DEF Core, JobPlaces, Launches, Registered
    <3>2. k.by[1] # "launch"
      BY <1>n, <3>1, Ranges DEF Placed, LaunchOf, Launching
    <3>3. k.by[1] # "cleanup"
      BY <1>n, <3>1, <3>2, Ranges DEF Placed, RegistryAt
    <3> QED
      BY <1>n, <3>1, <3>2, <3>3, Ranges DEF Placed
  <2> QED
    BY <1>g, <1>n, <1>u, <2>1, <2>2, Ranges DEF ListedAt, Active
<1>12. Bound'
  <2> SUFFICES ASSUME NEW q \in Procs PROVE BoundTo(q)'
    BY DEF Bound
  <2>1. BoundTo(q)
    BY Ranges DEF Core, Bound
  <2> QED
    BY <1>g, <1>u, <1>s, <1>v, <1>n, <2>1, Ranges DEF BoundTo, Active, procs, Attached
<1>13. EditsBehind'
  <2> SUFFICES ASSUME NEW q \in Procs, NEW d \in Conns PROVE Behind(q, d)'
    BY DEF EditsBehind
  <2>1. Behind(q, d)
    BY Ranges DEF Core, EditsBehind
  <2> QED
    BY <1>g, <1>u, <1>s, <1>v, <1>n, <2>1, Ranges DEF Behind
<1> QED
  BY <1>k, <1>1, <1>2, <1>3, <1>4, <1>5, <1>6, <1>7, <1>8, <1>9, <1>10, <1>11, <1>12,
     <1>13 DEF Core

(* All of it is bound.                                                     *)
LEMMA SyncEndCore ==
  ASSUME IInv, IInv', Core, Calm, NEW c \in Conns, SyncEnd(c)
  PROVE  Core'
<1>a. /\ NetOK /\ WorkerOK /\ ConnOK /\ RecOK /\ ReqOK
      /\ NetOK' /\ WorkerOK' /\ ConnOK' /\ RecOK' /\ ReqOK'
  BY DEF IInv, TypeOK
<1>u. UNCHANGED <<link, up, edits, wup, wconn, ready, session, reg, wp, holder, outcome,
        signalled, crashes, row, entry, seen, registry, auth, srv, pend, jobs, lpc, lconn,
        kpc, krec, kills, boots>>
  BY DEF SyncEnd, netVars, wVars, connVars, recVars, reqVars, supVars
<1>g. /\ sync[c].at = "on" /\ sync[c].todo = {} /\ sync'[c].at = "done"
      /\ \A d \in Conns : d # c => sync'[d] = sync[d]
      /\ \A k \in jobs : k.by # <<"dispatch", c>>
  BY <1>a, Ranges DEF SyncEnd, ConnOK, NoSync, Busy
<1>s. /\ \A d \in Conns : Sent(d)' = Sent(d) /\ (SyncOn(d)' <=> SyncOn(d))
      /\ \A d \in Conns, q \in Procs : ExitOn(d, q)' <=> ExitOn(d, q)
      /\ \A d \in Conns, q \in Procs : RunsOn(d, q)' <=> RunsOn(d, q)
      /\ \A q \in Procs : Untold(q)' <=> Untold(q)
  BY <1>u, SentKept
<1>n. /\ auth[c] /\ reg[c] \in {"synced", "done"} /\ registry = c /\ srv[c] = "serving"
      /\ \A d \in Conns : sync[d].at = "on" => d = c
  <2>1. ASSUME NEW d \in Conns, sync[d].at = "on"
        PROVE  registry = d /\ srv[d] = "serving" /\ auth[d] /\ reg[d] \in {"synced", "done"}
    <3>1. SyncedAt(d) /\ DrainedAt(d) /\ RegistryAt(d) /\ LinkAt(d)
      BY DEF Core, Synced, Drained, Registered, Links
    <3>2. srv[d] = "serving"
      BY <2>1, <3>1 DEF DrainedAt, LinkAt
    <3> QED
      BY <2>1, <3>1, <3>2 DEF SyncedAt, RegistryAt
  <2> QED  BY <1>g, <2>1
<1>k. Ordered' /\ Registered' /\ Outcomes' /\ Carried' /\ Ends' /\ Running' /\ JobsFit' /\
      EditsBehind'
  BY <1>u, CoreKept
<1>1. Links'
  <2> SUFFICES ASSUME NEW d \in Conns PROVE LinkAt(d)'
    BY DEF Links
  <2>1. LinkAt(d)
    BY Ranges DEF Core, Links
  <2> QED
    BY <1>g, <1>u, <1>s, <1>n, <2>1, Ranges DEF LinkAt
<1>2. Drained'
  <2> SUFFICES ASSUME NEW d \in Conns PROVE DrainedAt(d)'
    BY DEF Drained
  <2>1. DrainedAt(d)
    BY Ranges DEF Core, Drained
  <2> QED
    BY <1>g, <1>u, <1>s, <1>n, <2>1, Ranges DEF DrainedAt
<1>3. Synced'
  <2> SUFFICES ASSUME NEW d \in Conns PROVE SyncedAt(d)'
    BY DEF Synced
  <2>1. SyncedAt(d)
    BY Ranges DEF Core, Synced
  <2> QED
    BY <1>g, <1>u, <1>s, <1>n, <2>1, Ranges DEF SyncedAt
<1>4. JobPlaces'
  <2>1. ASSUME NEW k \in jobs' PROVE Placed(k)'
    <3>1. Placed(k)
      BY <1>g, <1>u, Ranges DEF Core, JobPlaces
    <3> QED
      BY <1>g, <1>u, <1>s, <1>n, <3>1, Ranges DEF Placed
  <2>2. \A k, l \in jobs' : k.p = l.p => k = l
    BY <1>g, <1>u DEF Core, JobPlaces
  <2> QED  BY <2>1, <2>2 DEF JobPlaces
<1>5. Launches'
  <2> SUFFICES ASSUME NEW q \in Procs PROVE LaunchOf(q)'
    BY DEF Launches
  <2>1. LaunchOf(q)
    BY Ranges DEF Core, Launches
  <2> QED
    BY <1>g, <1>u, <1>s, <1>n, <2>1, Ranges DEF LaunchOf, Launching, Past
<1>6. SyncTells'
  <2> SUFFICES ASSUME NEW d \in Conns, NEW q \in Procs PROVE Told(d, q)'
    BY DEF SyncTells
  <2>1. Told(d, q)
    BY Ranges DEF Core, SyncTells
  <2> QED
    BY <1>g, <1>u, <1>s, <1>n, <2>1, Ranges DEF Told, Unlisted
<1>7. Listed'
  <2> SUFFICES ASSUME NEW d \in Conns PROVE ListedAt(d)'
    BY DEF Listed
  <2>1. ListedAt(d)
    BY Ranges DEF Core, Listed
  <2> QED
    BY <1>g, <1>u, <1>s, <1>n, <2>1, Ranges DEF ListedAt, Active
<1>8. Bound'
  <2> SUFFICES ASSUME NEW q \in Procs PROVE BoundTo(q)'
    BY DEF Bound
  <2>1. BoundTo(q) /\ Told(c, q)
    BY Ranges DEF Core, Bound, SyncTells
  <2> QED
    BY <1>g, <1>u, <1>s, <1>n, <2>1, Ranges
    DEF BoundTo, Active, procs, Attached, Told, Unlisted, Untold
<1> QED
  BY <1>k, <1>1, <1>2, <1>3, <1>4, <1>5, <1>6, <1>7, <1>8 DEF Core

(* A clean-up detaches: a row that ended meanwhile has no entry.           *)
LEMMA PendCore ==
  ASSUME IInv, IInv', Core, Calm, NEW c \in Conns, NEW p \in Procs, Pend(c, p)
  PROVE  Core'
<1>a. /\ NetOK /\ WorkerOK /\ ConnOK /\ RecOK /\ ReqOK
      /\ NetOK' /\ WorkerOK' /\ ConnOK' /\ RecOK' /\ ReqOK'
  BY DEF IInv, TypeOK
<1>u. UNCHANGED <<link, up, edits, wup, wconn, ready, session, reg, wp, holder, outcome,
        signalled, crashes, row, entry, seen, registry, auth, srv, sync, unreg, lpc, lconn,
        kpc, krec, kills, boots>>
  BY DEF Pend, netVars, wVars, connVars, recVars, reqVars, supVars
<1>g. /\ p \in pend[c]
      /\ \A d \in Conns : pend'[d] = IF d = c THEN pend[c] \ {p} ELSE pend[d]
  BY <1>a, Ranges DEF Pend, ConnOK
<1>s. /\ \A d \in Conns : Sent(d)' = Sent(d) /\ (SyncOn(d)' <=> SyncOn(d))
      /\ \A d \in Conns, q \in Procs : ExitOn(d, q)' <=> ExitOn(d, q)
      /\ \A d \in Conns, q \in Procs : RunsOn(d, q)' <=> RunsOn(d, q)
      /\ \A q \in Procs : Untold(q)' <=> Untold(q)
  BY <1>u, SentKept
<1>i. Start(<<"cleanup", c>>, p, "PENDING", "none")
  BY <1>g DEF Pend
<1>o. \A k \in jobs : k.by # <<"cleanup", c>> /\ k.p # p
  BY <1>i, StartJob
<1>j. PICK job : /\ jobs' = jobs \cup {job} /\ job.by = <<"cleanup", c>> /\ job.p = p /\ job.status = "PENDING"
                 /\ job.conn = entry[p].conn /\ (job.live <=> ~Ignored(p, "PENDING"))
                 /\ job.then = "none" /\ job \in jobs' /\ job.by[1] = <<"cleanup", c>>[1]
  BY <1>i, StartJob
<1>n. /\ srv[c] = "pending" /\ registry = 0
      /\ row[p].status # "none" /\ (entry[p].conn = 0 \/ Active(p))
      /\ \A d \in Conns : sync[d].at # "on"
  <2>1. srv[c] = "pending" /\ registry = 0
    BY <1>g DEF Core, Registered, RegistryAt
  <2>2. row[p].status # "none" /\ (entry[p].conn = 0 \/ Active(p))
    BY <1>g DEF Core, Listed, ListedAt, Active
  <2>3. ASSUME NEW d \in Conns PROVE sync[d].at # "on"
    <3>1. SyncedAt(d) /\ DrainedAt(d) /\ RegistryAt(d) /\ LinkAt(d)
      BY DEF Core, Synced, Drained, Registered, Links
    <3> QED
      BY <2>1, <3>1, Ranges DEF SyncedAt, DrainedAt, RegistryAt, LinkAt
  <2> QED  BY <2>1, <2>2, <2>3
<1>m. job.live => Active(p)
  BY <1>j, <1>n DEF Ignored
<1>k. Ordered' /\ Links' /\ Synced' /\ Outcomes' /\ Carried' /\ SyncTells' /\ Bound'
  BY <1>u, CoreKept
<1>1. Drained'
  <2> SUFFICES ASSUME NEW d \in Conns PROVE DrainedAt(d)'
    BY DEF Drained
  <2>1. DrainedAt(d)
    BY Ranges DEF Core, Drained
  <2> QED
    BY <1>g, <1>u, <1>s, <1>j, <1>o, <1>n, <1>m, <2>1, Ranges DEF DrainedAt
<1>2. Registered'
  <2>1. ASSUME NEW d \in Conns PROVE RegistryAt(d)'
    <3>1. RegistryAt(d)
      BY Ranges DEF Core, Registered
    <3> QED
      BY <1>g, <1>u, <1>s, <1>j, <1>o, <1>n, <1>m, <3>1, Ranges DEF RegistryAt, Past
  <2>2. registry' # 0 => /\ Past(registry)' /\ srv'[registry'] \in {"serving", "ended"}
                          /\ \A d \in Conns : d < registry' => srv'[d] = "closed"
    BY <1>g, <1>u, <1>s, <1>j, <1>o, <1>n, <1>m, Ranges DEF Core, Registered, Past
  <2> QED  BY <2>1, <2>2 DEF Registered
<1>3. JobPlaces'
  <2>1. Placed(job)'
    BY <1>j, <1>g, <1>u, <1>n DEF Placed
  <2>2. ASSUME NEW k \in jobs PROVE Placed(k)'
    <3>1. Placed(k)
      BY DEF Core, JobPlaces
    <3> QED
      BY <1>g, <1>u, <1>o, <1>n, <3>1, Ranges DEF Placed
  <2> QED
    BY <1>j, <1>o, <2>1, <2>2 DEF Core, JobPlaces
<1>4. Launches'
  <2> SUFFICES ASSUME NEW q \in Procs PROVE LaunchOf(q)'
    BY DEF Launches
  <2>1. LaunchOf(q)
    BY Ranges DEF Core, Launches
  <2> QED
    BY <1>g, <1>u, <1>s, <1>j, <1>o, <1>n, <1>m, <2>1, Ranges
    DEF LaunchOf, Launching, Past, Ignored, Shown
<1>5. Ends'
  <2> SUFFICES ASSUME NEW q \in Procs PROVE EndOf(q)'
    BY DEF Ends
  <2>1. EndOf(q)
    BY Ranges DEF Core, Ends
  <2> QED
    BY <1>g, <1>u, <1>s, <1>j, <1>o, <1>n, <1>m, <2>1, Ranges DEF EndOf, Gone, Past, Active
<1>6. Running'
  <2> SUFFICES ASSUME NEW d \in Conns, NEW q \in Procs PROVE RunningOn(d, q)'
    BY DEF Running
  <2>1. RunningOn(d, q)
    BY Ranges DEF Core, Running
  <2> QED
    BY <1>g, <1>u, <1>s, <1>j, <1>o, <1>n, <1>m, <2>1, Ranges DEF RunningOn, Active, Exits
<1>7. Listed'
  <2> SUFFICES ASSUME NEW d \in Conns PROVE ListedAt(d)'
    BY DEF Listed
  <2>1. ListedAt(d)
    BY Ranges DEF Core, Listed
  <2> QED
    BY <1>g, <1>u, <1>s, <1>j, <1>o, <1>n, <1>m, <2>1, Ranges DEF ListedAt, Active
<1>8. JobsFit'
  <2>1. Fits(job)'
    BY <1>j, <1>g, <1>u, <1>n, <1>m DEF Fits, Active, Exits
  <2>2. ASSUME NEW k \in jobs PROVE Fits(k)'
    BY <1>u DEF Core, JobsFit, Fits, Active
  <2> QED
    BY <1>j, <2>1, <2>2 DEF JobsFit
<1>9. EditsBehind'
  <2> SUFFICES ASSUME NEW q \in Procs, NEW d \in Conns PROVE Behind(q, d)'
    BY DEF EditsBehind
  <2>1. Behind(q, d)
    BY Ranges DEF Core, EditsBehind
  <2> QED
    BY <1>g, <1>u, <1>s, <1>j, <1>o, <1>n, <1>m, <2>1, Ranges DEF Behind
<1> QED
  BY <1>k, <1>1, <1>2, <1>3, <1>4, <1>5, <1>6, <1>7, <1>8, <1>9 DEF Core

(* What is closed as lost the worker does not have and never reports.      *)
LEMMA SyncLostCore ==
  ASSUME IInv, IInv', Core, Calm, NEW c \in Conns, NEW p \in Procs, SyncLost(c, p)
  PROVE  Core'
<1>a. /\ NetOK /\ WorkerOK /\ ConnOK /\ RecOK /\ ReqOK
      /\ NetOK' /\ WorkerOK' /\ ConnOK' /\ RecOK' /\ ReqOK'
  BY DEF IInv, TypeOK
<1>u. UNCHANGED <<link, up, edits, wup, wconn, ready, session, reg, wp, holder, outcome,
        signalled, crashes, row, entry, seen, registry, auth, srv, pend, unreg, lpc, lconn,
        kpc, krec, kills, boots>>
  BY DEF SyncLost, netVars, wVars, connVars, recVars, reqVars, supVars
<1>g. /\ sync[c].at = "on" /\ p \in sync[c].todo /\ p \notin sync[c].has
      /\ \A d \in Conns : d # c => sync'[d] = sync[d]
      /\ sync'[c].at = "on" /\ sync'[c].has = sync[c].has /\ sync'[c].todo = sync[c].todo \ {p}
      /\ SyncLost(c, p)
  BY <1>a, Ranges DEF SyncLost, ConnOK
<1>s. /\ \A d \in Conns : Sent(d)' = Sent(d) /\ (SyncOn(d)' <=> SyncOn(d))
      /\ \A d \in Conns, q \in Procs : ExitOn(d, q)' <=> ExitOn(d, q)
      /\ \A d \in Conns, q \in Procs : RunsOn(d, q)' <=> RunsOn(d, q)
      /\ \A q \in Procs : Untold(q)' <=> Untold(q)
  BY <1>u, SentKept
<1>i. Start(<<"dispatch", c>>, p, "lost", "publish")
  BY <1>g DEF SyncLost
<1>o. \A k \in jobs : k.by # <<"dispatch", c>> /\ k.p # p
  BY <1>i, StartJob
<1>j. PICK job : /\ jobs' = jobs \cup {job} /\ job.by = <<"dispatch", c>> /\ job.p = p /\ job.status = "lost"
                 /\ job.conn = entry[p].conn /\ (job.live <=> ~Ignored(p, "lost"))
                 /\ job.then = "publish" /\ job \in jobs' /\ job.by[1] = <<"dispatch", c>>[1]
  BY <1>i, StartJob
<1>n. /\ auth[c] /\ reg[c] \in {"synced", "done"} /\ registry = c /\ srv[c] = "serving"
      /\ \A d \in Conns : sync[d].at = "on" => d = c
  <2>1. ASSUME NEW d \in Conns, sync[d].at = "on"
        PROVE  registry = d /\ srv[d] = "serving" /\ auth[d] /\ reg[d] \in {"synced", "done"}
    <3>1. SyncedAt(d) /\ DrainedAt(d) /\ RegistryAt(d) /\ LinkAt(d)
      BY DEF Core, Synced, Drained, Registered, Links
    <3>2. srv[d] = "serving"
      BY <2>1, <3>1 DEF DrainedAt, LinkAt
    <3> QED
      BY <2>1, <3>1, <3>2 DEF SyncedAt, RegistryAt
  <2> QED  BY <1>g, <2>1
<1>m. /\ Active(p) /\ Unlisted(p) /\ Gone(p) /\ ~Launching(p)
      /\ \A d \in Conns : ~RunsOn(d, p)
      /\ entry[p].status \notin Exits
  <2>1. Told(c, p) /\ ListedAt(c) /\ LaunchOf(p) /\ EndOf(p)
    BY DEF Core, SyncTells, Listed, Launches, Ends
  <2>2. Active(p) /\ Unlisted(p) /\ \A d \in Conns : ~RunsOn(d, p)
    BY <1>g, <2>1 DEF Told, ListedAt
  <2>3. ~Launching(p)
    BY <1>g, <1>n, <2>1, Ranges DEF LaunchOf
  <2>4. lpc[p] = "done"
    BY <1>a, <2>1, <2>2, <2>3 DEF ReqOK, LaunchOf, Launching, Active
  <2>5. Gone(p)
    BY <2>1, <2>2, <2>4 DEF Gone, Unlisted, LaunchOf, Active
  <2> QED  BY <2>1, <2>2, <2>3, <2>5 DEF EndOf, Active, Exits
<1>l. job.live
  BY <1>a, <1>j, <1>m DEF Ignored, Shown, RecOK, Statuses, Exits
<1>k. Ordered' /\ Registered' /\ Outcomes' /\ Carried'
  BY <1>u, CoreKept
<1>1. Links'
  <2> SUFFICES ASSUME NEW d \in Conns PROVE LinkAt(d)'
    BY DEF Links
  <2>1. LinkAt(d)
    BY Ranges DEF Core, Links
  <2> QED
    BY <1>g, <1>u, <1>s, <1>j, <1>o, <1>n, <1>m, <1>l, <2>1, Ranges DEF LinkAt
<1>2. Drained'
  <2> SUFFICES ASSUME NEW d \in Conns PROVE DrainedAt(d)'
    BY DEF Drained
  <2>1. DrainedAt(d) /\ LinkAt(d)
    BY Ranges DEF Core, Drained, Links
  <2> QED
    BY <1>g, <1>u, <1>s, <1>j, <1>o, <1>n, <1>m, <1>l, <2>1, Ranges DEF DrainedAt, LinkAt
<1>3. Synced'
  <2> SUFFICES ASSUME NEW d \in Conns PROVE SyncedAt(d)'
    BY DEF Synced
  <2>1. SyncedAt(d)
    BY Ranges DEF Core, Synced
  <2> QED
    BY <1>g, <1>u, <1>s, <1>j, <1>o, <1>n, <1>m, <1>l, <2>1, Ranges DEF SyncedAt
<1>4. JobPlaces'
  <2>1. Placed(job)'
    BY <1>j, <1>g, <1>u, <1>n, <1>m DEF Placed
  <2>2. ASSUME NEW k \in jobs PROVE Placed(k)'
    <3>1. Placed(k)
      BY DEF Core, JobPlaces
    <3> QED
      BY <1>g, <1>u, <1>o, <1>n, <3>1, Ranges DEF Placed
  <2> QED
    BY <1>j, <1>o, <2>1, <2>2 DEF Core, JobPlaces
<1>5. Launches'
  <2> SUFFICES ASSUME NEW q \in Procs PROVE LaunchOf(q)'
    BY DEF Launches
  <2>1. LaunchOf(q)
    BY Ranges DEF Core, Launches
  <2> QED
    BY <1>g, <1>u, <1>s, <1>j, <1>o, <1>n, <1>m, <1>l, <2>1, Ranges
    DEF LaunchOf, Launching, Past
<1>6. Ends'
  <2> SUFFICES ASSUME NEW q \in Procs PROVE EndOf(q)'
    BY DEF Ends
  <2>1. EndOf(q)
    BY Ranges DEF Core, Ends
  <2> QED
    BY <1>g, <1>u, <1>s, <1>j, <1>o, <1>n, <1>m, <1>l, <2>1, Ranges
    DEF EndOf, Gone, Past, Active, Unlisted
<1>7. Running'
  <2> SUFFICES ASSUME NEW d \in Conns, NEW q \in Procs PROVE RunningOn(d, q)'
    BY DEF Running
  <2>1. RunningOn(d, q)
    BY Ranges DEF Core, Running
  <2> QED
    BY <1>g, <1>u, <1>s, <1>j, <1>o, <1>n, <1>m, <1>l, <2>1, Ranges DEF RunningOn, Active
<1>8. SyncTells'
  <2> SUFFICES ASSUME NEW d \in Conns, NEW q \in Procs PROVE Told(d, q)'
    BY DEF SyncTells
  <2>1. Told(d, q)
    BY Ranges DEF Core, SyncTells
  <2> QED
    BY <1>g, <1>u, <1>s, <1>j, <1>o, <1>n, <1>m, <1>l, <2>1, Ranges DEF Told, Unlisted
<1>9. Listed'
  <2> SUFFICES ASSUME NEW d \in Conns PROVE ListedAt(d)'
    BY DEF Listed
  <2>1. ListedAt(d)
    BY Ranges DEF Core, Listed
  <2> QED
    BY <1>g, <1>u, <1>s, <1>j, <1>o, <1>n, <1>m, <1>l, <2>1, Ranges DEF ListedAt, Active
<1>10. JobsFit'
  <2>1. Fits(job)'
    BY <1>j, <1>g, <1>u, <1>n, <1>m, <1>l DEF Fits, Active
  <2>2. ASSUME NEW k \in jobs PROVE Fits(k)'
    BY <1>u DEF Core, JobsFit, Fits, Active
  <2> QED
    BY <1>j, <2>1, <2>2 DEF JobsFit
<1>11. Bound'
  <2> SUFFICES ASSUME NEW q \in Procs PROVE BoundTo(q)'
    BY DEF Bound
  <2>1. BoundTo(q)
    BY Ranges DEF Core, Bound
  <2> QED
    BY <1>g, <1>u, <1>s, <1>j, <1>o, <1>n, <1>m, <1>l, <2>1, Ranges
    DEF BoundTo, Active, procs, Attached
<1>12. EditsBehind'
  <2> SUFFICES ASSUME NEW q \in Procs, NEW d \in Conns PROVE Behind(q, d)'
    BY DEF EditsBehind
  <2>1. Behind(q, d)
    BY Ranges DEF Core, EditsBehind
  <2> QED
    BY <1>g, <1>u, <1>s, <1>j, <1>o, <1>n, <1>m, <1>l, <2>1, Ranges DEF Behind
<1> QED
  BY <1>k, <1>1, <1>2, <1>3, <1>4, <1>5, <1>6, <1>7, <1>8, <1>9, <1>10, <1>11, <1>12
  DEF Core

(* What the worker has is bound to the new connection.                     *)
LEMMA SyncRebindCore ==
  ASSUME IInv, IInv', Core, Calm, NEW c \in Conns, NEW p \in Procs, SyncRebind(c, p)
  PROVE  Core'
<1>a. /\ NetOK /\ WorkerOK /\ ConnOK /\ RecOK /\ ReqOK
      /\ NetOK' /\ WorkerOK' /\ ConnOK' /\ RecOK' /\ ReqOK'
  BY DEF IInv, TypeOK
<1>u. UNCHANGED <<link, up, edits, wup, wconn, ready, session, reg, wp, holder, outcome,
        signalled, crashes, row, seen, registry, auth, srv, pend, unreg, lpc, lconn, kpc,
        krec, kills, boots>>
  BY DEF SyncRebind, netVars, wVars, connVars, recVars, reqVars, supVars
<1>g. /\ sync[c].at = "on" /\ p \in sync[c].todo /\ p \in sync[c].has
      /\ \A d \in Conns : d # c => sync'[d] = sync[d]
      /\ sync'[c].at = "on" /\ sync'[c].has = sync[c].has /\ sync'[c].todo = sync[c].todo \ {p}
      /\ SyncRebind(c, p)
  BY <1>a, Ranges DEF SyncRebind, ConnOK
<1>s. /\ \A d \in Conns : Sent(d)' = Sent(d) /\ (SyncOn(d)' <=> SyncOn(d))
      /\ \A d \in Conns, q \in Procs : ExitOn(d, q)' <=> ExitOn(d, q)
      /\ \A d \in Conns, q \in Procs : RunsOn(d, q)' <=> RunsOn(d, q)
      /\ \A q \in Procs : Untold(q)' <=> Untold(q)
  BY <1>u, SentKept
<1>n. /\ auth[c] /\ reg[c] \in {"synced", "done"} /\ registry = c /\ srv[c] = "serving"
      /\ \A d \in Conns : sync[d].at = "on" => d = c
  <2>1. ASSUME NEW d \in Conns, sync[d].at = "on"
        PROVE  registry = d /\ srv[d] = "serving" /\ auth[d] /\ reg[d] \in {"synced", "done"}
    <3>1. SyncedAt(d) /\ DrainedAt(d) /\ RegistryAt(d) /\ LinkAt(d)
      BY DEF Core, Synced, Drained, Registered, Links
    <3>2. srv[d] = "serving"
      BY <2>1, <3>1 DEF DrainedAt, LinkAt
    <3> QED
      BY <2>1, <3>1, <3>2 DEF SyncedAt, RegistryAt
  <2> QED  BY <1>g, <2>1
<1>m. Active(p) /\ ~Launching(p) /\ lpc[p] # "none"
  <2>1. ListedAt(c) /\ LaunchOf(p)
    BY DEF Core, Listed, Launches
  <2> QED
    BY <1>g, <1>n, <2>1, Ranges DEF ListedAt, LaunchOf, Active
<1>o. /\ \A k \in jobs : k.p # p
      /\ \A q \in Procs : q # p => entry'[q] = entry[q]
  BY <1>a DEF SyncRebind, RecOK, Calm
<1>j. /\ \A k \in jobs' \ jobs :
           /\ k.by = <<"dispatch", c>> /\ k.by[1] = "dispatch" /\ k.by[2] = c
           /\ k.p = p /\ k.status = "PROCESS" /\ k.conn = c
           /\ k.live => Active(p)
           /\ k.then \in {"none", "kill"}
           /\ entry'[p].conn = c
      /\ \A k, l \in jobs' \ jobs : k = l
      /\ jobs \subseteq jobs'
      /\ \A k \in jobs' : k \in jobs \/ (k.by = <<"dispatch", c>> /\ k.p = p /\ k.status = "PROCESS")
      /\ \/ entry'[p] = [conn |-> c, status |-> row[p].status, open |-> TRUE]
         \/ entry[p].conn # 0 /\ entry'[p] = entry[p]
  <2> DEFINE k == [by |-> <<"dispatch", c>>, p |-> p, status |-> "PROCESS",
                   conn |-> c, live |-> row[p].status # "PROCESS",
                   then |-> IF p \in sync[c].kill THEN "kill" ELSE "none"]
  <2>1. k.by = <<"dispatch", c>> /\ k.p = p /\ k.status = "PROCESS" /\ k.conn = c /\ k.then \in {"none", "kill"}
    OBVIOUS
  <2>2. \/ jobs' = jobs \cup {k} /\ entry'[p] = [conn |-> c, status |-> row[p].status, open |-> TRUE]
        \/ jobs' = jobs /\ entry[p].conn # 0 /\ entry'[p] = entry[p]
    BY <1>a DEF SyncRebind, RecOK, Rebindable
  <2> HIDE DEF k
  <2> QED  BY <1>m, <2>1, <2>2
<1>k. Ordered' /\ Registered' /\ Outcomes' /\ Carried'
  BY <1>u, CoreKept
<1>1. Links'
  <2> SUFFICES ASSUME NEW d \in Conns PROVE LinkAt(d)'
    BY DEF Links
  <2>1. LinkAt(d)
    BY Ranges DEF Core, Links
  <2> QED
    BY <1>g, <1>u, <1>s, <1>n, <1>m, <1>j, <1>o, <2>1, Ranges DEF LinkAt
<1>2. Drained'
  <2> SUFFICES ASSUME NEW d \in Conns, srv[d] \notin {"unused", "serving"} PROVE DrainedAt(d)'
    BY <1>u DEF Drained, DrainedAt
  <2>1. DrainedAt(d) /\ d # c
    BY <1>n DEF Core, Drained
  <2>2. \A k \in jobs' : k.by # <<"dispatch", d>>
    BY <1>j, <2>1 DEF DrainedAt
  <2> QED
    BY <1>g, <1>u, <2>1, <2>2 DEF DrainedAt
<1>3. Synced'
  <2> SUFFICES ASSUME NEW d \in Conns PROVE SyncedAt(d)'
    BY DEF Synced
  <2>1. SyncedAt(d)
    BY Ranges DEF Core, Synced
  <2> QED
    BY <1>g, <1>u, <1>s, <1>n, <1>m, <1>j, <1>o, <2>1, Ranges DEF SyncedAt
<1>4. JobPlaces'
  <2>1. ASSUME NEW k \in jobs' \ jobs PROVE Placed(k)'
    BY <1>g, <1>j, <1>n, <1>u DEF Placed
  <2>2. ASSUME NEW k \in jobs PROVE Placed(k)'
    <3>1. Placed(k)
      BY DEF Core, JobPlaces
    <3> QED
      BY <1>g, <1>u, <1>o, <3>1, Ranges DEF Placed
  <2> QED
    BY <1>j, <1>o, <2>1, <2>2 DEF Core, JobPlaces
<1>5. Launches'
  <2> SUFFICES ASSUME NEW q \in Procs PROVE LaunchOf(q)'
    BY DEF Launches
  <2>1. LaunchOf(q)
    BY Ranges DEF Core, Launches
  <2> QED
    BY <1>g, <1>u, <1>s, <1>n, <1>m, <1>j, <1>o, <2>1, Ranges DEF LaunchOf, Launching, Past
<1>6. Ends'
  <2> SUFFICES ASSUME NEW q \in Procs PROVE EndOf(q)'
    BY DEF Ends
  <2>1. EndOf(q)
    BY DEF Core, Ends
  <2>2. \A k \in jobs' : k.p = q => k \in jobs \/ k.status = "PROCESS"
    BY <1>j
  <2>3. CASE q # p
    BY <1>o, <1>s, <1>u, <2>1, <2>2, <2>3 DEF EndOf, Gone, Past, Active
  <2>4. CASE q = p
    BY <1>j, <1>m, <1>n, <1>s, <1>u, <2>1, <2>2, <2>4, Ranges
    DEF EndOf, Gone, Past, Active, Exits
  <2> QED  BY <2>3, <2>4
<1>7. Running'
  <2> SUFFICES ASSUME NEW d \in Conns, NEW q \in Procs PROVE RunningOn(d, q)'
    BY DEF Running
  <2>1. RunningOn(d, q)
    BY Ranges DEF Core, Running
  <2> QED
    BY <1>g, <1>u, <1>s, <1>n, <1>m, <1>j, <1>o, <2>1, Ranges DEF RunningOn, Active, Exits
<1>8. SyncTells'
  <2> SUFFICES ASSUME NEW d \in Conns, NEW q \in Procs PROVE Told(d, q)'
    BY DEF SyncTells
  <2>1. Told(d, q)
    BY Ranges DEF Core, SyncTells
  <2> QED
    BY <1>g, <1>u, <1>s, <1>n, <1>m, <1>j, <1>o, <2>1, Ranges DEF Told, Unlisted
<1>9. Listed'
  <2> SUFFICES ASSUME NEW d \in Conns PROVE ListedAt(d)'
    BY DEF Listed
  <2>1. ListedAt(d)
    BY DEF Core, Listed
  <2>2. ASSUME NEW q \in pend[d] PROVE Active(q) \/ (entry'[q].conn = 0 /\ row[q].status # "none")
    BY <1>m, <1>o, <2>1, Ranges DEF ListedAt
  <2>3. \A k \in jobs' : k \in jobs \/ k.status = "PROCESS"
    BY <1>j
  <2>4. sync'[d].todo \subseteq sync[d].todo /\ sync'[d].at = sync[d].at
    BY <1>g
  <2> QED
    BY <1>u, <2>1, <2>2, <2>3, <2>4 DEF ListedAt, Active
<1>10. JobsFit'
  <2>1. ASSUME NEW k \in jobs' \ jobs PROVE Fits(k)'
    BY <1>j, <1>m, <1>u DEF Fits, Active, Exits
  <2>2. ASSUME NEW k \in jobs PROVE Fits(k)'
    BY <1>u DEF Core, JobsFit, Fits, Active
  <2> QED
    BY <2>1, <2>2 DEF JobsFit
<1>11. Bound'
  <2> SUFFICES ASSUME NEW q \in Procs PROVE BoundTo(q)'
    BY DEF Bound
  <2>1. BoundTo(q)
    BY Ranges DEF Core, Bound
  <2> QED
    BY <1>g, <1>u, <1>s, <1>n, <1>m, <1>j, <1>o, <2>1, Ranges
    DEF BoundTo, Active, procs, Attached
<1>12. EditsBehind'
  <2> SUFFICES ASSUME NEW q \in Procs, NEW d \in Conns PROVE Behind(q, d)'
    BY DEF EditsBehind
  <2>1. Behind(q, d)
    BY Ranges DEF Core, EditsBehind
  <2> QED
    BY <1>g, <1>u, <1>s, <1>n, <1>m, <1>j, <1>o, <2>1, Ranges DEF Behind
<1> QED
  BY <1>k, <1>1, <1>2, <1>3, <1>4, <1>5, <1>6, <1>7, <1>8, <1>9, <1>10, <1>11, <1>12
  DEF Core

(* The read-back removes the entry of a process that has ended.            *)
LEMMA EditResultCore ==
  ASSUME IInv, IInv', Core, Calm, NEW c \in Conns, NEW p \in Procs, EditResult(p, c)
  PROVE  Core'
<1>a. /\ NetOK /\ WorkerOK /\ ConnOK /\ RecOK /\ ReqOK
      /\ NetOK' /\ WorkerOK' /\ ConnOK' /\ RecOK' /\ ReqOK'
  BY DEF IInv, TypeOK
<1>u. UNCHANGED <<link, up, wup, wconn, ready, session, reg, wp, holder, outcome, signalled,
        crashes, row, registry, auth, srv, pend, sync, unreg, jobs, lpc, lconn, kpc, krec,
        kills, boots>>
  BY DEF EditResult, wVars, connVars, reqVars
<1>g. /\ <<p, c>> \in edits /\ edits' \subseteq edits /\ up[c] = <<>>
      /\ \A k \in jobs : k.p # p
      /\ \A q \in Procs : q # p => entry'[q] = entry[q] /\ seen'[q] = seen[q]
      /\ entry'[p] \in {entry[p], NoEntry}
      /\ entry[p].open \/ seen'[p] = seen[p]
  BY <1>a DEF EditResult, NetOK, RecOK, Calm, ReadBacksWait
<1>s. /\ \A d \in Conns : Sent(d)' = Sent(d) /\ (SyncOn(d)' <=> SyncOn(d))
      /\ \A d \in Conns, q \in Procs : ExitOn(d, q)' <=> ExitOn(d, q)
      /\ \A d \in Conns, q \in Procs : RunsOn(d, q)' <=> RunsOn(d, q)
      /\ \A q \in Procs : Untold(q)' <=> Untold(q)
  BY <1>u, SentKept
<1>n. row[p].status \in Exits /\ ~entry[p].open
  <2>1. Behind(p, c) /\ EndOf(p)
    BY DEF Core, EditsBehind, Ends
  <2>2. ~ExitOn(c, p)
    BY <1>a, <1>g, SentIn DEF ExitOn
  <2> QED  BY <1>g, <2>1, <2>2 DEF Behind, EndOf
<1>k. Ordered' /\ Links' /\ Drained' /\ Registered' /\ Synced' /\ Outcomes' /\ Carried' /\
      Running' /\ SyncTells' /\ JobsFit'
  BY <1>u, CoreKept
<1>1. JobPlaces'
  <2>1. ASSUME NEW k \in jobs' PROVE Placed(k)'
    <3>1. Placed(k)
      BY <1>u DEF Core, JobPlaces
    <3> QED
      BY <1>g, <1>u, <3>1, Ranges DEF Placed
  <2>2. \A k, l \in jobs' : k.p = l.p => k = l
    BY <1>u DEF Core, JobPlaces
  <2> QED  BY <2>1, <2>2 DEF JobPlaces
<1>2. Launches'
  <2> SUFFICES ASSUME NEW q \in Procs PROVE LaunchOf(q)'
    BY DEF Launches
  <2>1. LaunchOf(q)
    BY DEF Core, Launches
  <2> QED
    BY <1>g, <1>u, <1>n, <2>1 DEF LaunchOf, Launching, Past
<1>3. Ends'
  <2> SUFFICES ASSUME NEW q \in Procs PROVE EndOf(q)'
    BY DEF Ends
  <2>1. EndOf(q)
    BY DEF Core, Ends
  <2>2. CASE q # p
    BY <1>g, <1>s, <1>u, <2>1, <2>2 DEF EndOf, Gone, Past, Active
  <2>3. CASE q = p
    <3>1. seen'[p] = seen[p] /\ ~Active(p)
      BY <1>g, <1>n DEF Active, Exits
    <3>2. CASE entry'[p] = entry[p]
      BY <1>s, <1>u, <2>1, <2>3, <3>1, <3>2 DEF EndOf, Gone, Past, Active
    <3>3. CASE entry'[p] = NoEntry
      BY <1>s, <1>u, <2>1, <2>3, <3>1, <3>3 DEF EndOf, Gone, Exits, NoEntry
    <3> QED  BY <1>g, <3>2, <3>3
  <2> QED  BY <2>2, <2>3
<1>4. Listed'
  <2> SUFFICES ASSUME NEW d \in Conns PROVE ListedAt(d)'
    BY DEF Listed
  <2>1. ListedAt(d)
    BY DEF Core, Listed
  <2> QED
    BY <1>g, <1>u, <2>1, Ranges DEF ListedAt, Active, NoEntry
<1>5. Bound'
  <2> SUFFICES ASSUME NEW q \in Procs PROVE BoundTo(q)'
    BY DEF Bound
  <2>1. BoundTo(q)
    BY DEF Core, Bound
  <2> QED
    BY <1>g, <1>u, <1>s, <1>n, <2>1, Ranges DEF BoundTo, Active, procs, Exits
<1>6. EditsBehind'
  <2> SUFFICES ASSUME NEW q \in Procs, NEW d \in Conns PROVE Behind(q, d)'
    BY DEF EditsBehind
  <2>1. Behind(q, d)
    BY DEF Core, EditsBehind
  <2> QED
    BY <1>g, <1>u, <1>s, <2>1 DEF Behind
<1> QED
  BY <1>k, <1>1, <1>2, <1>3, <1>4, <1>5, <1>6 DEF Core

(* A frame is true of its process, whose row is active or says the same.   *)
LEMMA StatusCore ==
  ASSUME IInv, IInv', Core, Calm, NEW c \in Conns, NEW p \in Procs,
         NEW kind \in {"PROCESS", "own", "lost"}, Status(c, p, kind)
  PROVE  Core'
<1>a. /\ NetOK /\ WorkerOK /\ ConnOK /\ RecOK /\ ReqOK
      /\ NetOK' /\ WorkerOK' /\ ConnOK' /\ RecOK' /\ ReqOK'
  BY DEF IInv, TypeOK
<1>u. UNCHANGED <<link, edits, wup, wconn, ready, session, reg, wp, holder, outcome,
        signalled, crashes, row, entry, seen, registry, auth, srv, pend, sync, lpc, lconn,
        kpc, krec, kills, boots>>
  BY DEF Status, netVars, wVars, connVars, recVars, reqVars, supVars
<1>g. /\ srv[c] # "unused" /\ sync[c].at # "on" /\ Head(up[c]).kind = kind /\ Head(up[c]).procs = {p}
      /\ kind \in {"PROCESS", "own", "lost"}
      /\ ~auth[c] => jobs' = jobs
      /\ auth[c] => Start(<<"dispatch", c>>, p, kind, "none")
  BY <1>a, Ranges DEF Status, Take, Between
<1>t. up[c] # <<>> /\ up' = [up EXCEPT ![c] = Tail(@)]
  BY <1>g DEF Status, Take
<1>s. /\ Ordered' /\ \A d \in Conns : Sent(d)' \subseteq Sent(d)
      /\ \A d \in Conns : (SyncOn(d)' => SyncOn(d)) /\ (d # c => up'[d] = up[d])
      /\ \A d \in Conns, q \in Procs : ExitOn(d, q)' => ExitOn(d, q)
      /\ \A d \in Conns, q \in Procs : RunsOn(d, q)' => RunsOn(d, q)
      /\ \A d \in Conns : SyncOn(d) => SyncOn(d)'
      /\ \A d \in Conns, q \in Procs : ExitOn(d, q) => ExitOn(d, q)' \/ (d = c /\ q = p /\ kind # "PROCESS")
      /\ \A f \in Sent(c)' : Follows(Head(up[c]), f)
      /\ Head(up[c]) \in Sent(c)
  <2>1. /\ Ordered' /\ Head(up[c]) \in Sent(c)
        /\ Sent(c) = Sent(c)' \cup {Head(up[c])}
        /\ \A f \in Sent(c)' : Follows(Head(up[c]), f)
        /\ \A d \in Conns \ {c} : Sent(d)' = Sent(d)
    BY <1>a, <1>t, TakeSent DEF Core
  <2>2. LET h == Head(up[c]) IN
        /\ \A d \in Conns : /\ d # c => up'[d] = up[d]
                            /\ SyncOn(d)' => SyncOn(d)
                            /\ SyncOn(d) => SyncOn(d)' \/ (d = c /\ h.kind = "sync")
        /\ \A d \in Conns : \A q :
             /\ ExitOn(d, q)' => ExitOn(d, q)
             /\ RunsOn(d, q)' => RunsOn(d, q)
             /\ ExitOn(d, q) => ExitOn(d, q)' \/ (d = c /\ h.kind \in {"own", "lost"} /\ q \in h.procs)
             /\ RunsOn(d, q) => RunsOn(d, q)' \/ (d = c /\ h.kind = "PROCESS" /\ q \in h.procs)
    BY <1>a, <1>t, TakeTold DEF Core
  <2> QED
    BY <1>g, <2>1, <2>2
<1>v. srv[c] = "serving" /\ link[c] # "unused"
  <2>1. LinkAt(c) /\ DrainedAt(c)
    BY DEF Core, Links, Drained
  <2> QED  BY <1>g, <1>t, <2>1 DEF LinkAt, DrainedAt
<1>n. /\ Admitted(p) /\ (kind # "PROCESS" => outcome[p] = kind /\ ExitOn(c, p))
      /\ kind = "PROCESS" => RunsOn(c, p) /\ Active(p)
      /\ ~(Launching(p) /\ wp[p] \in {"none", "asked", "spawning", "rejected"})
      /\ lpc[p] # "none" /\ row[p].status \notin {"none", "notStarted"} /\ lpc[p] # "undo"
  <2>1. About(c, Head(up[c])) /\ LaunchOf(p)
    BY <1>s DEF Core, Carried, Launches
  <2>2. Admitted(p) /\ (kind # "PROCESS" => outcome[p] = kind /\ ExitOn(c, p))
    BY <1>g, <1>s, <2>1 DEF About, ExitOn
  <2>3. kind = "PROCESS" => RunsOn(c, p) /\ Active(p)
    BY <1>g, <1>s DEF Core, RunsOn, Running, RunningOn
  <2> QED
    BY <2>1, <2>2, <2>3 DEF LaunchOf, Admitted
<1>e. kind # "PROCESS" =>
        /\ auth[c] /\ registry = c /\ sync[c].at = "done" /\ \A d \in Conns : ~RunsOn(d, p)'
        /\ \A d \in Conns : sync[d].at # "on"
  <2> SUFFICES ASSUME kind # "PROCESS"
               PROVE  /\ auth[c] /\ registry = c /\ sync[c].at = "done" /\ \A d \in Conns : ~RunsOn(d, p)'
                      /\ \A d \in Conns : sync[d].at # "on"
    OBVIOUS
  <2>1. SyncedAt(c) /\ RegistryAt(c)
    BY DEF Core, Synced, Registered
  <2>2. auth[c] /\ reg[c] \in {"synced", "done"} /\ registry = c
    BY <1>n, <1>v, <2>1 DEF SyncedAt, RegistryAt
  <2>3. sync[c].at # "no"
    <3>1. up[c] \in Seq(Frames) /\ Head(up[c]) = up[c][1] /\ 1 \in 1 .. Len(up[c])
      BY <1>a, <1>t DEF NetOK
    <3> QED
      BY <1>g, <3>1 DEF IInv, Safety, ExitAfterSync
  <2>4. sync[c].at = "done"
    BY <1>a, <1>g, <2>3 DEF ConnOK
  <2>5. ~RunsOn(c, p)'
    BY <1>g, <1>s DEF RunsOn, Follows
  <2>6. \A d \in Conns \ {c} : ~RunsOn(d, p)
    BY <1>n DEF Core, Running, RunningOn
  <2>7. ASSUME NEW d \in Conns PROVE sync[d].at # "on"
    <3>1. SyncedAt(d) /\ DrainedAt(d) /\ RegistryAt(d) /\ LinkAt(d)
      BY DEF Core, Synced, Drained, Registered, Links
    <3>2. sync[d].at = "on" => srv[d] = "serving"
      BY <3>1 DEF DrainedAt, LinkAt
    <3> QED
      BY <2>2, <2>4, <3>1, <3>2, Ranges DEF SyncedAt, RegistryAt
  <2> QED  BY <1>s, <2>2, <2>4, <2>5, <2>6, <2>7
<1>j. /\ \A k \in jobs' : \/ k \in jobs
                          \/ /\ auth[c] /\ k.by = <<"dispatch", c>> /\ k.by[1] = "dispatch" /\ k.by[2] = c
                             /\ k.p = p /\ k.status = kind /\ k.conn = entry[p].conn
                             /\ (k.live <=> ~Ignored(p, kind)) /\ k.then = "none"
      /\ jobs \subseteq jobs'
      /\ \A k, l \in jobs' : k.p = l.p => k = l
      /\ kind # "PROCESS" => \E k \in jobs' : k.p = p /\ k.status = kind
  <2>1. CASE ~auth[c]
    BY <1>e, <1>g, <2>1 DEF Core, JobPlaces
  <2>2. CASE auth[c]
    <3>1. \A k \in jobs : k.p # p
      BY <1>g, <2>2, StartJob
    <3>2. PICK job : /\ jobs' = jobs \cup {job} /\ job.by = <<"dispatch", c>> /\ job.p = p /\ job.status = kind
                     /\ job.conn = entry[p].conn /\ (job.live <=> ~Ignored(p, kind)) /\ job.then = "none"
      BY <1>g, <2>2, StartJob
    <3> QED  BY <2>2, <3>1, <3>2 DEF Core, JobPlaces
  <2> QED  BY <2>1, <2>2
<1>m. /\ Active(p) \/ row[p].status = kind
      /\ kind # "PROCESS" /\ Active(p) => entry[p].conn # 0 /\ ~Ignored(p, kind)
  <2>1. EndOf(p) /\ BoundTo(p)
    BY DEF Core, Ends, Bound
  <2>2. Active(p) \/ row[p].status = kind
    <3>1. kind # "PROCESS" /\ row[p].status = "lost" => outcome[p] = "lost"
      BY <1>n, <2>1 DEF EndOf, Untold
    <3> QED
      BY <1>a, <1>g, <1>n, <2>1, <3>1 DEF EndOf, RecOK, Statuses, Exits, Active
  <2>3. kind # "PROCESS" /\ Active(p) => entry[p].conn # 0 /\ entry[p].status \notin Exits
    BY <1>e, <1>n, <2>1, Ranges DEF BoundTo, EndOf, Active, Exits
  <2>4. kind # "PROCESS" /\ Active(p) => ~Ignored(p, kind)
    BY <1>a, <1>g, <2>3 DEF Ignored, Shown, Exits, RecOK, Statuses
  <2> QED  BY <2>2, <2>3, <2>4
<1>k. Registered' /\ Outcomes'
  BY <1>u, CoreKept
<1>1. Ordered'
  BY <1>s
<1>2. Links'
  <2> SUFFICES ASSUME NEW d \in Conns PROVE LinkAt(d)'
    BY DEF Links
  <2>1. LinkAt(d)
    BY Ranges DEF Core, Links
  <2> QED
    BY <1>g, <1>u, <1>s, <1>v, <1>n, <1>e, <1>j, <1>m, <2>1, Ranges DEF LinkAt
<1>3. Drained'
  <2> SUFFICES ASSUME NEW d \in Conns, srv[d] \notin {"unused", "serving"} PROVE DrainedAt(d)'
    BY <1>u DEF Drained, DrainedAt
  <2>1. DrainedAt(d) /\ d # c
    BY <1>v DEF Core, Drained
  <2>2. \A k \in jobs' : k.by # <<"dispatch", d>>
    BY <1>j, <2>1 DEF DrainedAt
  <2> QED
    BY <1>s, <1>u, <2>1, <2>2 DEF DrainedAt
<1>4. Synced'
  <2> SUFFICES ASSUME NEW d \in Conns PROVE SyncedAt(d)'
    BY DEF Synced
  <2>1. SyncedAt(d)
    BY Ranges DEF Core, Synced
  <2> QED
    BY <1>g, <1>u, <1>s, <1>v, <1>n, <1>e, <1>j, <1>m, <2>1, Ranges DEF SyncedAt
<1>5. JobPlaces'
  <2>1. ASSUME NEW k \in jobs', k \notin jobs PROVE Placed(k)'
    BY <1>e, <1>g, <1>j, <1>u, <1>v, <2>1 DEF Placed
  <2>2. ASSUME NEW k \in jobs PROVE Placed(k)'
    BY <1>u DEF Core, JobPlaces, Placed
  <2> QED
    BY <1>j, <2>1, <2>2 DEF JobPlaces
<1>6. Launches'
  <2> SUFFICES ASSUME NEW q \in Procs PROVE LaunchOf(q)'
    BY DEF Launches
  <2>1. LaunchOf(q)
    BY Ranges DEF Core, Launches
  <2> QED
    BY <1>g, <1>u, <1>s, <1>v, <1>n, <1>e, <1>j, <1>m, <2>1, Ranges
    DEF LaunchOf, Launching, Past
<1>7. Carried'
  <2> SUFFICES ASSUME NEW d \in Conns, NEW f \in Sent(d)' PROVE About(d, f)'
    BY DEF Carried
  <2>1. About(d, f)
    BY <1>s DEF Core, Carried
  <2> QED
    BY <1>u, <2>1 DEF About, Admitted
<1>8. Ends'
  <2> SUFFICES ASSUME NEW q \in Procs PROVE EndOf(q)'
    BY DEF Ends
  <2>1. EndOf(q)
    BY DEF Core, Ends
  <2>2. Untold(q) => Untold(q)'
    BY <1>s DEF Untold
  <2>3. \A k \in jobs' : k.p = q => k \in jobs \/ (q = p /\ k.status = kind)
    BY <1>j
  <2> QED
    BY <1>g, <1>n, <1>u, <2>1, <2>2, <2>3 DEF EndOf, Gone, Past, Active
<1>9. Running'
  <2> SUFFICES ASSUME NEW d \in Conns, NEW q \in Procs PROVE RunningOn(d, q)'
    BY DEF Running
  <2>1. RunningOn(d, q)
    BY Ranges DEF Core, Running
  <2> QED
    BY <1>g, <1>u, <1>s, <1>v, <1>n, <1>e, <1>j, <1>m, <2>1, Ranges
    DEF RunningOn, Active, Exits
<1>10. SyncTells'
  <2> SUFFICES ASSUME NEW d \in Conns, NEW q \in Procs PROVE Told(d, q)'
    BY DEF SyncTells
  <2>1. Told(d, q)
    BY Ranges DEF Core, SyncTells
  <2> QED
    BY <1>g, <1>u, <1>s, <1>v, <1>n, <1>e, <1>j, <1>m, <2>1, Ranges DEF Told, Unlisted,
        Untold
<1>11. Listed'
  <2> SUFFICES ASSUME NEW d \in Conns PROVE ListedAt(d)'
    BY DEF Listed
  <2>1. ListedAt(d)
    BY DEF Core, Listed
  <2>2. sync[d].at = "on" => \A k \in jobs' : k \in jobs \/ k.status = "PROCESS"
    BY <1>e, <1>j
  <2> QED
    BY <1>u, <2>1, <2>2 DEF ListedAt, Active
<1>12. JobsFit'
  <2>1. ASSUME NEW k \in jobs', k \notin jobs PROVE Fits(k)'
    BY <1>g, <1>j, <1>m, <1>n, <1>u, <2>1 DEF Fits, Active, Exits
  <2>2. ASSUME NEW k \in jobs PROVE Fits(k)'
    BY <1>u DEF Core, JobsFit, Fits, Active
  <2> QED
    BY <2>1, <2>2 DEF JobsFit
<1>13. Bound'
  <2> SUFFICES ASSUME NEW q \in Procs PROVE BoundTo(q)'
    BY DEF Bound
  <2>1. BoundTo(q)
    BY Ranges DEF Core, Bound
  <2> QED
    BY <1>g, <1>u, <1>s, <1>v, <1>n, <1>e, <1>j, <1>m, <2>1, Ranges
    DEF BoundTo, Active, procs, Attached
<1>14. EditsBehind'
  <2> SUFFICES ASSUME NEW q \in Procs, NEW d \in Conns PROVE Behind(q, d)'
    BY DEF EditsBehind
  <2>1. Behind(q, d)
    BY Ranges DEF Core, EditsBehind
  <2> QED
    BY <1>g, <1>u, <1>s, <1>v, <1>n, <1>e, <1>j, <1>m, <2>1, Ranges DEF Behind, Exits
<1> QED
  BY <1>k, <1>1, <1>2, <1>3, <1>4, <1>5, <1>6, <1>7, <1>8, <1>9, <1>10, <1>11, <1>12, <1>13,
     <1>14 DEF Core

(* A launch begins on the connection in the registry.                      *)
LEMMA LaunchRegisterCore ==
  ASSUME IInv, IInv', Core, Calm, NEW p \in Procs, LaunchRegister(p)
  PROVE  Core'
<1>a. /\ NetOK /\ WorkerOK /\ ConnOK /\ RecOK /\ ReqOK
      /\ NetOK' /\ WorkerOK' /\ ConnOK' /\ RecOK' /\ ReqOK'
  BY DEF IInv, TypeOK
<1>u. UNCHANGED <<link, up, edits, wup, wconn, ready, session, reg, wp, holder, outcome,
        signalled, crashes, seen, registry, auth, srv, pend, sync, unreg, jobs, kpc, krec,
        kills, boots>>
  BY DEF LaunchRegister, netVars, wVars, connVars, recVars, reqVars, supVars
<1>g. /\ lpc[p] = "none" /\ registry # 0 /\ sync[registry].at = "done"
      /\ \A q \in Procs : q # p => /\ lconn'[q] = lconn[q] /\ entry'[q] = entry[q] /\ row'[q] = row[q] /\ lpc'[q] = lpc[q]
      /\ lconn'[p] = registry /\ lpc'[p] = "ready" /\ row'[p].status = "PENDING"
      /\ entry'[p] = [conn |-> registry, status |-> "PENDING", open |-> TRUE]
  BY <1>a, Ranges DEF LaunchRegister, RecOK, ReqOK, Calm
<1>s. /\ \A d \in Conns : Sent(d)' = Sent(d) /\ (SyncOn(d)' <=> SyncOn(d))
      /\ \A d \in Conns, q \in Procs : ExitOn(d, q)' <=> ExitOn(d, q)
      /\ \A d \in Conns, q \in Procs : RunsOn(d, q)' <=> RunsOn(d, q)
      /\ \A q \in Procs : Untold(q)' <=> Untold(q)
  BY <1>u, SentKept
<1>n. /\ row[p].status = "none" /\ wp[p] = "none" /\ kpc[p] = "none" /\ entry[p] = NoEntry
      /\ Past(registry) /\ \A k \in jobs : k.p # p
      /\ \A d \in Conns : p \notin pend[d] /\ (sync[d].at = "on" => p \notin sync[d].todo)
  <2>1. /\ LaunchOf(p) /\ \A k \in jobs : Fits(k)
        /\ \A d \in Conns : ListedAt(d)
    BY DEF Core, Launches, JobsFit, Listed
  <2>2. row[p].status = "none" /\ wp[p] = "none" /\ kpc[p] = "none" /\ entry[p] = NoEntry
    BY <1>g, <2>1 DEF LaunchOf
  <2>3. \A k \in jobs : k.p # p
    BY <2>1, <2>2 DEF Fits
  <2> QED  BY <1>g, <2>1, <2>2, <2>3 DEF Core, ListedAt, Active, Registered
<1>k. Ordered' /\ Links' /\ Drained' /\ Registered' /\ Synced' /\ Outcomes' /\ Carried' /\
      SyncTells'
  BY <1>u, CoreKept
<1>1. JobPlaces'
  <2>1. ASSUME NEW k \in jobs' PROVE Placed(k)'
    <3>1. Placed(k)
      BY <1>g, <1>u, Ranges DEF Core, JobPlaces
    <3> QED
      BY <1>g, <1>u, <1>s, <1>n, <3>1, Ranges DEF Placed
  <2>2. \A k, l \in jobs' : k.p = l.p => k = l
    BY <1>g, <1>u DEF Core, JobPlaces
  <2> QED  BY <2>1, <2>2 DEF JobPlaces
<1>2. Launches'
  <2> SUFFICES ASSUME NEW q \in Procs PROVE LaunchOf(q)'
    BY DEF Launches
  <2>1. LaunchOf(q)
    BY DEF Core, Launches
  <2>2. CASE q # p
    <3>1. lconn'[q] = lconn[q] /\ entry'[q] = entry[q] /\ row'[q] = row[q] /\ lpc'[q] = lpc[q]
      BY <1>g, <2>2
    <3> QED  BY <1>u, <2>1, <3>1 DEF LaunchOf, Launching, Past
  <2>3. CASE q = p
    BY <1>g, <1>n, <1>s, <1>u, <2>1, <2>3, Ranges DEF LaunchOf, Launching, Past
  <2> QED  BY <2>2, <2>3
<1>3. Ends'
  <2> SUFFICES ASSUME NEW q \in Procs PROVE EndOf(q)'
    BY DEF Ends
  <2>1. EndOf(q)
    BY Ranges DEF Core, Ends
  <2> QED
    BY <1>g, <1>u, <1>s, <1>n, <2>1, Ranges DEF EndOf, Gone, Past, Active, Exits
<1>4. Running'
  <2> SUFFICES ASSUME NEW d \in Conns, NEW q \in Procs PROVE RunningOn(d, q)'
    BY DEF Running
  <2>1. RunningOn(d, q)
    BY Ranges DEF Core, Running
  <2> QED
    BY <1>g, <1>u, <1>s, <1>n, <2>1, Ranges DEF RunningOn, Active
<1>5. Listed'
  <2> SUFFICES ASSUME NEW d \in Conns PROVE ListedAt(d)'
    BY DEF Listed
  <2>1. ListedAt(d)
    BY Ranges DEF Core, Listed
  <2> QED
    BY <1>g, <1>u, <1>s, <1>n, <2>1, Ranges DEF ListedAt, Active
<1>6. JobsFit'
  <2> SUFFICES ASSUME NEW k \in jobs' PROVE Fits(k)'
    BY DEF JobsFit
  <2>1. Fits(k)
    BY <1>u, <1>s, Ranges DEF Core, JobsFit
  <2> QED
    BY <1>g, <1>u, <1>s, <1>n, <2>1, Ranges DEF Fits, Active
<1>7. Bound'
  <2> SUFFICES ASSUME NEW q \in Procs PROVE BoundTo(q)'
    BY DEF Bound
  <2>1. BoundTo(q)
    BY DEF Core, Bound
  <2>2. CASE q # p
    BY <1>g, <1>n, <1>s, <1>u, <2>1, <2>2, Ranges DEF BoundTo, Active, procs, Attached
  <2>3. CASE q = p
    BY <1>g, <1>n, <1>s, <1>u, <2>1, <2>3, Ranges DEF BoundTo, Active, procs, Attached
  <2> QED  BY <2>2, <2>3
<1>8. EditsBehind'
  <2> SUFFICES ASSUME NEW q \in Procs, NEW d \in Conns PROVE Behind(q, d)'
    BY DEF EditsBehind
  <2>1. Behind(q, d)
    BY Ranges DEF Core, EditsBehind
  <2> QED
    BY <1>g, <1>u, <1>s, <1>n, <2>1, Ranges DEF Behind, Exits
<1> QED
  BY <1>k, <1>1, <1>2, <1>3, <1>4, <1>5, <1>6, <1>7, <1>8 DEF Core

(* The worker is asked if the connection still stands.                     *)
LEMMA LaunchCallCore ==
  ASSUME IInv, IInv', Core, Calm, NEW p \in Procs, LaunchCall(p)
  PROVE  Core'
<1>a. /\ NetOK /\ WorkerOK /\ ConnOK /\ RecOK /\ ReqOK
      /\ NetOK' /\ WorkerOK' /\ ConnOK' /\ RecOK' /\ ReqOK'
  BY DEF IInv, TypeOK
<1>u. UNCHANGED <<link, up, edits, wup, wconn, ready, session, reg, holder, outcome,
        signalled, crashes, row, entry, seen, registry, auth, srv, pend, sync, unreg, jobs,
        lconn, kpc, krec, kills, boots>>
  BY DEF LaunchCall, netVars, connVars, recVars
<1>g. /\ lpc[p] = "ready"
      /\ \A q \in Procs : q # p => lpc'[q] = lpc[q] /\ wp'[q] = wp[q]
      /\ lpc'[p] = "called"
      /\ \/ link[lconn[p]] = "up" /\ wp'[p] = "asked"
         \/ link[lconn[p]] # "up" /\ wp'[p] = wp[p]
  BY <1>a DEF LaunchCall, WorkerOK, ReqOK
<1>s. /\ \A d \in Conns : Sent(d)' = Sent(d) /\ (SyncOn(d)' <=> SyncOn(d))
      /\ \A d \in Conns, q \in Procs : ExitOn(d, q)' <=> ExitOn(d, q)
      /\ \A d \in Conns, q \in Procs : RunsOn(d, q)' <=> RunsOn(d, q)
      /\ \A q \in Procs : Untold(q)' <=> Untold(q)
  BY <1>u, SentKept
<1>n. /\ wp[p] = "none" /\ lconn[p] \in Conns
      /\ \A d \in Conns : sync[d].at # "on" /\ ~SyncOn(d)
  <2>1. LaunchOf(p) /\ wp[p] = "none" /\ lconn[p] \in Conns /\ sync[lconn[p]].at = "done" /\ registry \in {0, lconn[p]}
    BY <1>g, Ranges DEF Core, Launches, LaunchOf, Launching
  <2>2. ASSUME NEW d \in Conns PROVE sync[d].at # "on" /\ ~SyncOn(d)
    <3>1. SyncedAt(d) /\ DrainedAt(d) /\ RegistryAt(d) /\ LinkAt(d)
      BY DEF Core, Synced, Drained, Registered, Links
    <3>2. sync[d].at = "on" \/ SyncOn(d) => up[d] # <<>> \/ sync[d].at = "on"
      BY <1>a, SentIn DEF SyncOn
    <3>3. sync[d].at = "on" \/ SyncOn(d) => srv[d] = "serving"
      BY <3>1, <3>2 DEF DrainedAt, LinkAt
    <3> QED
      BY <2>1, <3>1, <3>3, Ranges DEF SyncedAt, RegistryAt
  <2> QED  BY <2>1, <2>2
<1>k. Ordered' /\ Links' /\ Drained' /\ Registered' /\ Synced' /\ Running' /\ Listed' /\
      JobsFit' /\ EditsBehind'
  BY <1>u, CoreKept
<1>1. JobPlaces'
  <2>1. ASSUME NEW k \in jobs' PROVE Placed(k)'
    <3>1. Placed(k)
      BY <1>u DEF Core, JobPlaces
    <3> QED
      BY <1>g, <1>u, <3>1, Ranges DEF Placed
  <2>2. \A k, l \in jobs' : k.p = l.p => k = l
    BY <1>u DEF Core, JobPlaces
  <2> QED  BY <2>1, <2>2 DEF JobPlaces
<1>2. Launches'
  <2> SUFFICES ASSUME NEW q \in Procs PROVE LaunchOf(q)'
    BY DEF Launches
  <2>1. LaunchOf(q)
    BY DEF Core, Launches
  <2> QED
    BY <1>g, <1>u, <2>1 DEF LaunchOf, Launching, Past
<1>3. Outcomes'
  <2> SUFFICES ASSUME NEW q \in Procs PROVE OutcomeOf(q)'
    BY DEF Outcomes
  <2>1. OutcomeOf(q)
    BY DEF Core, Outcomes
  <2> QED
    BY <1>g, <1>u, <1>n, <2>1 DEF OutcomeOf
<1>4. Carried'
  <2> SUFFICES ASSUME NEW d \in Conns, NEW f \in Sent(d)' PROVE About(d, f)'
    BY DEF Carried
  <2>1. About(d, f)
    BY <1>s DEF Core, Carried
  <2> QED
    BY <1>g, <1>u, <1>n, <2>1 DEF About, Admitted
<1>5. Ends'
  <2> SUFFICES ASSUME NEW q \in Procs PROVE EndOf(q)'
    BY DEF Ends
  <2>1. EndOf(q)
    BY DEF Core, Ends
  <2> QED
    BY <1>g, <1>u, <1>s, <2>1 DEF EndOf, Gone, Past, Active
<1>6. SyncTells'
  <2> SUFFICES ASSUME NEW d \in Conns, NEW q \in Procs PROVE Told(d, q)'
    BY DEF SyncTells
  <2> QED
    BY <1>u, <1>s, <1>n DEF Told, SyncOn
<1>7. Bound'
  <2> SUFFICES ASSUME NEW q \in Procs PROVE BoundTo(q)'
    BY DEF Bound
  <2>1. BoundTo(q)
    BY DEF Core, Bound
  <2> QED
    BY <1>g, <1>u, <1>s, <2>1, Ranges DEF BoundTo, Active, procs, Attached
<1> QED
  BY <1>k, <1>1, <1>2, <1>3, <1>4, <1>5, <1>6, <1>7 DEF Core

(* The worker has the process.                                             *)
LEMMA LaunchDoneCore ==
  ASSUME IInv, IInv', Core, Calm, NEW p \in Procs, LaunchDone(p)
  PROVE  Core'
<1>a. /\ NetOK /\ WorkerOK /\ ConnOK /\ RecOK /\ ReqOK
      /\ NetOK' /\ WorkerOK' /\ ConnOK' /\ RecOK' /\ ReqOK'
  BY DEF IInv, TypeOK
<1>u. UNCHANGED <<link, up, edits, wup, wconn, ready, session, reg, wp, holder, outcome,
        signalled, crashes, row, entry, seen, registry, auth, srv, pend, sync, unreg, jobs,
        lconn, kpc, krec, kills, boots>>
  BY DEF LaunchDone, netVars, wVars, connVars, recVars, reqVars, supVars
<1>g. /\ lpc[p] = "called" /\ wp[p] \notin {"none", "asked", "rejected", "spawning", "orphan"}
      /\ \A q \in Procs : lpc'[q] = IF q = p THEN "done" ELSE lpc[q]
  BY <1>a, Ranges DEF LaunchDone, ReqOK
<1>s. /\ \A d \in Conns : Sent(d)' = Sent(d) /\ (SyncOn(d)' <=> SyncOn(d))
      /\ \A d \in Conns, q \in Procs : ExitOn(d, q)' <=> ExitOn(d, q)
      /\ \A d \in Conns, q \in Procs : RunsOn(d, q)' <=> RunsOn(d, q)
      /\ \A q \in Procs : Untold(q)' <=> Untold(q)
  BY <1>u, SentKept
<1>k. Ordered' /\ Links' /\ Drained' /\ Registered' /\ Synced' /\ Outcomes' /\ Carried' /\
      Running' /\ SyncTells' /\ Listed' /\ JobsFit' /\ Bound' /\ EditsBehind'
  BY <1>u, CoreKept
<1>1. JobPlaces'
  <2>1. ASSUME NEW k \in jobs' PROVE Placed(k)'
    <3>1. Placed(k)
      BY <1>g, <1>u, Ranges DEF Core, JobPlaces
    <3> QED
      BY <1>g, <1>u, <1>s, <3>1, Ranges DEF Placed
  <2>2. \A k, l \in jobs' : k.p = l.p => k = l
    BY <1>g, <1>u DEF Core, JobPlaces
  <2> QED  BY <2>1, <2>2 DEF JobPlaces
<1>2. Launches'
  <2> SUFFICES ASSUME NEW q \in Procs PROVE LaunchOf(q)'
    BY DEF Launches
  <2>1. LaunchOf(q)
    BY Ranges DEF Core, Launches
  <2> QED
    BY <1>g, <1>u, <1>s, <2>1, Ranges DEF LaunchOf, Launching, Past
<1>3. Ends'
  <2> SUFFICES ASSUME NEW q \in Procs PROVE EndOf(q)'
    BY DEF Ends
  <2>1. EndOf(q)
    BY Ranges DEF Core, Ends
  <2> QED
    BY <1>g, <1>u, <1>s, <2>1, Ranges DEF EndOf, Gone, Past, Active
<1> QED
  BY <1>k, <1>1, <1>2, <1>3 DEF Core

(* The worker does not have the process, and never will.                   *)
LEMMA LaunchFailsCore ==
  ASSUME IInv, IInv', Core, Calm, NEW p \in Procs, LaunchFails(p)
  PROVE  Core'
<1>a. /\ NetOK /\ WorkerOK /\ ConnOK /\ RecOK /\ ReqOK
      /\ NetOK' /\ WorkerOK' /\ ConnOK' /\ RecOK' /\ ReqOK'
  BY DEF IInv, TypeOK
<1>u. UNCHANGED <<link, up, edits, wup, wconn, ready, session, reg, wp, holder, outcome,
        signalled, crashes, row, entry, seen, registry, auth, srv, pend, sync, unreg, jobs,
        lconn, kpc, krec, kills, boots>>
  BY DEF LaunchFails, netVars, wVars, connVars, recVars, reqVars, supVars
<1>g. /\ lpc[p] = "ready" \/ CallFailed(p)
      /\ \A q \in Procs : lpc'[q] = IF q = p THEN "failing" ELSE lpc[q]
  BY <1>a, Ranges DEF LaunchFails, ReqOK
<1>s. /\ \A d \in Conns : Sent(d)' = Sent(d) /\ (SyncOn(d)' <=> SyncOn(d))
      /\ \A d \in Conns, q \in Procs : ExitOn(d, q)' <=> ExitOn(d, q)
      /\ \A d \in Conns, q \in Procs : RunsOn(d, q)' <=> RunsOn(d, q)
      /\ \A q \in Procs : Untold(q)' <=> Untold(q)
  BY <1>u, SentKept
<1>n. lpc[p] \in {"ready", "called"} /\ wp[p] \in {"none", "rejected"}
  <2>1. lpc[p] \in {"ready", "called"}
    BY <1>g DEF CallFailed
  <2>2. LaunchOf(p) /\ lconn[p] \in Conns
    BY <2>1, Ranges DEF Core, Launches, LaunchOf, Launching
  <2>3. LinkAt(lconn[p])
    BY <2>2 DEF Core, Links
  <2> QED
    BY <1>g, <2>1, <2>2, <2>3 DEF CallFailed, Calm, LaunchOf, Launching, LinkAt
<1>k. Ordered' /\ Links' /\ Drained' /\ Registered' /\ Synced' /\ Outcomes' /\ Carried' /\
      Running' /\ SyncTells' /\ Listed' /\ JobsFit' /\ Bound' /\ EditsBehind'
  BY <1>u, CoreKept
<1>1. JobPlaces'
  <2>1. ASSUME NEW k \in jobs' PROVE Placed(k)'
    <3>1. Placed(k)
      BY <1>g, <1>u, Ranges DEF Core, JobPlaces
    <3> QED
      BY <1>g, <1>u, <1>s, <1>n, <3>1, Ranges DEF Placed
  <2>2. \A k, l \in jobs' : k.p = l.p => k = l
    BY <1>g, <1>u DEF Core, JobPlaces
  <2> QED  BY <2>1, <2>2 DEF JobPlaces
<1>2. Launches'
  <2> SUFFICES ASSUME NEW q \in Procs PROVE LaunchOf(q)'
    BY DEF Launches
  <2>1. LaunchOf(q)
    BY Ranges DEF Core, Launches
  <2> QED
    BY <1>g, <1>u, <1>s, <1>n, <2>1, Ranges DEF LaunchOf, Launching, Past
<1>3. Ends'
  <2> SUFFICES ASSUME NEW q \in Procs PROVE EndOf(q)'
    BY DEF Ends
  <2>1. EndOf(q)
    BY Ranges DEF Core, Ends
  <2> QED
    BY <1>g, <1>u, <1>s, <1>n, <2>1, Ranges DEF EndOf, Gone, Past, Active
<1> QED
  BY <1>k, <1>1, <1>2, <1>3 DEF Core

(* The undo of a launch is the only job on its process.                    *)
LEMMA FailExecCore ==
  ASSUME IInv, IInv', Core, Calm, NEW p \in Procs, FailExec(p)
  PROVE  Core'
<1>a. /\ NetOK /\ WorkerOK /\ ConnOK /\ RecOK /\ ReqOK
      /\ NetOK' /\ WorkerOK' /\ ConnOK' /\ RecOK' /\ ReqOK'
  BY DEF IInv, TypeOK
<1>u. UNCHANGED <<link, up, edits, wup, wconn, ready, session, reg, wp, holder, outcome,
        signalled, crashes, row, entry, seen, registry, auth, srv, pend, sync, unreg, lconn,
        kpc, krec, kills, boots>>
  BY DEF FailExec, netVars, wVars, connVars, recVars, reqVars, supVars
<1>g. /\ lpc[p] = "failing" /\ FailExec(p)
      /\ \A q \in Procs : lpc'[q] = IF q = p THEN "undo" ELSE lpc[q]
  BY <1>a, Ranges DEF FailExec, ReqOK
<1>s. /\ \A d \in Conns : Sent(d)' = Sent(d) /\ (SyncOn(d)' <=> SyncOn(d))
      /\ \A d \in Conns, q \in Procs : ExitOn(d, q)' <=> ExitOn(d, q)
      /\ \A d \in Conns, q \in Procs : RunsOn(d, q)' <=> RunsOn(d, q)
      /\ \A q \in Procs : Untold(q)' <=> Untold(q)
  BY <1>u, SentKept
<1>i. Start(<<"launch", p>>, p, "notStarted", "remove")
  BY <1>g DEF FailExec
<1>o. \A k \in jobs : k.by # <<"launch", p>> /\ k.p # p
  BY <1>i, StartJob
<1>j. PICK job : /\ jobs' = jobs \cup {job} /\ job.by = <<"launch", p>> /\ job.p = p /\ job.status = "notStarted"
                 /\ job.conn = entry[p].conn /\ (job.live <=> ~Ignored(p, "notStarted"))
                 /\ job.then = "remove" /\ job \in jobs' /\ job.by[1] = <<"launch", p>>[1]
  BY <1>i, StartJob
<1>n. /\ wp[p] \in {"none", "rejected"} /\ lconn[p] \in Conns /\ Active(p) /\ entry[p].conn # 0
      /\ \A d \in Conns : ~RunsOn(d, p) /\ sync[d].at # "on"
      /\ job.live /\ job.by[1] = "launch" /\ job.by[2] = p
  <2>1. /\ LaunchOf(p) /\ wp[p] \in {"none", "rejected"} /\ lconn[p] \in Conns
        /\ sync[lconn[p]].at = "done" /\ registry \in {0, lconn[p]}
        /\ Active(p) /\ entry[p].conn # 0 /\ entry[p].status = "PENDING"
    BY <1>g, Ranges DEF Core, Launches, LaunchOf, Launching, Active
  <2>2. ASSUME NEW d \in Conns PROVE sync[d].at # "on"
    <3>1. SyncedAt(d) /\ DrainedAt(d) /\ RegistryAt(d) /\ LinkAt(d)
      BY DEF Core, Synced, Drained, Registered, Links
    <3>2. sync[d].at = "on" => srv[d] = "serving"
      BY <3>1 DEF DrainedAt, LinkAt
    <3> QED
      BY <2>1, <3>1, <3>2, Ranges DEF SyncedAt, RegistryAt
  <2>3. ASSUME NEW d \in Conns PROVE ~RunsOn(d, p)
    BY <2>1 DEF Core, RunsOn, Carried, About, Admitted
  <2>4. job.live
    BY <1>j, <2>1 DEF Ignored, Shown
  <2> QED  BY <1>j, <2>1, <2>2, <2>3, <2>4
<1>k. Ordered' /\ Links' /\ Registered' /\ Synced' /\ Outcomes' /\ Carried' /\ SyncTells' /\
      Bound'
  BY <1>u, CoreKept
<1>1. Drained'
  <2> SUFFICES ASSUME NEW d \in Conns PROVE DrainedAt(d)'
    BY DEF Drained
  <2>1. DrainedAt(d)
    BY Ranges DEF Core, Drained
  <2> QED
    BY <1>g, <1>u, <1>s, <1>j, <1>o, <1>n, <2>1, Ranges DEF DrainedAt
<1>2. JobPlaces'
  <2>1. Placed(job)'
    BY <1>j, <1>g, <1>u, <1>n DEF Placed
  <2>2. ASSUME NEW k \in jobs PROVE Placed(k)'
    <3>1. Placed(k)
      BY DEF Core, JobPlaces
    <3> QED
      BY <1>g, <1>u, <1>o, <1>n, <3>1, Ranges DEF Placed
  <2> QED
    BY <1>j, <1>o, <2>1, <2>2 DEF Core, JobPlaces
<1>3. Launches'
  <2> SUFFICES ASSUME NEW q \in Procs PROVE LaunchOf(q)'
    BY DEF Launches
  <2>1. LaunchOf(q)
    BY DEF Core, Launches
  <2>2. CASE q # p
    BY <1>g, <1>n, <1>s, <1>u, <1>j, <1>o, <2>1, <2>2, Ranges DEF LaunchOf, Launching, Past
  <2>3. CASE q = p
    BY <1>g, <1>n, <1>s, <1>u, <1>j, <1>o, <2>1, <2>3, Ranges DEF LaunchOf, Launching, Past
  <2> QED  BY <2>2, <2>3
<1>4. Ends'
  <2> SUFFICES ASSUME NEW q \in Procs PROVE EndOf(q)'
    BY DEF Ends
  <2>1. EndOf(q)
    BY Ranges DEF Core, Ends
  <2> QED
    BY <1>g, <1>u, <1>s, <1>j, <1>o, <1>n, <2>1, Ranges DEF EndOf, Gone, Past, Active
<1>5. Running'
  <2> SUFFICES ASSUME NEW d \in Conns, NEW q \in Procs PROVE RunningOn(d, q)'
    BY DEF Running
  <2>1. RunningOn(d, q)
    BY Ranges DEF Core, Running
  <2> QED
    BY <1>g, <1>u, <1>s, <1>j, <1>o, <1>n, <2>1, Ranges DEF RunningOn, Active
<1>6. Listed'
  <2> SUFFICES ASSUME NEW d \in Conns PROVE ListedAt(d)'
    BY DEF Listed
  <2>1. ListedAt(d)
    BY Ranges DEF Core, Listed
  <2> QED
    BY <1>g, <1>u, <1>s, <1>j, <1>o, <1>n, <2>1, Ranges DEF ListedAt, Active
<1>7. JobsFit'
  <2>1. Fits(job)'
    BY <1>j, <1>g, <1>u, <1>n DEF Fits, Active
  <2>2. ASSUME NEW k \in jobs PROVE Fits(k)'
    BY <1>u DEF Core, JobsFit, Fits, Active
  <2> QED
    BY <1>j, <2>1, <2>2 DEF JobsFit
<1>8. EditsBehind'
  <2> SUFFICES ASSUME NEW q \in Procs, NEW d \in Conns PROVE Behind(q, d)'
    BY DEF EditsBehind
  <2>1. Behind(q, d)
    BY Ranges DEF Core, EditsBehind
  <2> QED
    BY <1>g, <1>u, <1>s, <1>j, <1>o, <1>n, <2>1, Ranges DEF Behind
<1> QED
  BY <1>k, <1>1, <1>2, <1>3, <1>4, <1>5, <1>6, <1>7, <1>8 DEF Core

(* A request leaves the status of the row.                                 *)
LEMMA KillRequestCore ==
  ASSUME IInv, IInv', Core, Calm, NEW p \in Procs, KillRequest(p)
  PROVE  Core'
<1>a. /\ NetOK /\ WorkerOK /\ ConnOK /\ RecOK /\ ReqOK
      /\ NetOK' /\ WorkerOK' /\ ConnOK' /\ RecOK' /\ ReqOK'
  BY DEF IInv, TypeOK
<1>u. UNCHANGED <<link, up, edits, wup, wconn, ready, session, reg, wp, holder, outcome,
        signalled, crashes, entry, seen, registry, auth, srv, pend, sync, unreg, jobs, lpc,
        lconn, kills, boots>>
  BY DEF KillRequest, netVars, wVars, connVars, recVars, reqVars, supVars
<1>g. /\ kpc[p] = "none" /\ Active(p)
      /\ \A q \in Procs : row'[q].status = row[q].status /\ (q # p => krec'[q] = krec[q] /\ kpc'[q] = kpc[q])
      /\ krec'[p] = row[p].status /\ kpc'[p] = "committed"
  BY <1>a, Ranges DEF KillRequest, RecOK, ReqOK
<1>s. /\ \A d \in Conns : Sent(d)' = Sent(d) /\ (SyncOn(d)' <=> SyncOn(d))
      /\ \A d \in Conns, q \in Procs : ExitOn(d, q)' <=> ExitOn(d, q)
      /\ \A d \in Conns, q \in Procs : RunsOn(d, q)' <=> RunsOn(d, q)
      /\ \A q \in Procs : Untold(q)' <=> Untold(q)
  BY <1>u, SentKept
<1>k. Ordered' /\ Links' /\ Drained' /\ Registered' /\ Synced' /\ JobPlaces' /\ Outcomes' /\
      Carried' /\ SyncTells'
  BY <1>u, CoreKept
<1>1. Launches'
  <2> SUFFICES ASSUME NEW q \in Procs PROVE LaunchOf(q)'
    BY DEF Launches
  <2>1. LaunchOf(q)
    BY Ranges DEF Core, Launches
  <2> QED
    BY <1>g, <1>u, <1>s, <2>1, Ranges DEF LaunchOf, Launching, Past, Active
<1>2. Ends'
  <2> SUFFICES ASSUME NEW q \in Procs PROVE EndOf(q)'
    BY DEF Ends
  <2>1. EndOf(q)
    BY Ranges DEF Core, Ends
  <2> QED
    BY <1>g, <1>u, <1>s, <2>1, Ranges DEF EndOf, Gone, Past, Active
<1>3. Running'
  <2> SUFFICES ASSUME NEW d \in Conns, NEW q \in Procs PROVE RunningOn(d, q)'
    BY DEF Running
  <2>1. RunningOn(d, q)
    BY Ranges DEF Core, Running
  <2> QED
    BY <1>g, <1>u, <1>s, <2>1, Ranges DEF RunningOn, Active
<1>4. Listed'
  <2> SUFFICES ASSUME NEW d \in Conns PROVE ListedAt(d)'
    BY DEF Listed
  <2>1. ListedAt(d)
    BY Ranges DEF Core, Listed
  <2> QED
    BY <1>g, <1>u, <1>s, <2>1, Ranges DEF ListedAt, Active
<1>5. JobsFit'
  <2> SUFFICES ASSUME NEW k \in jobs' PROVE Fits(k)'
    BY DEF JobsFit
  <2>1. Fits(k)
    BY <1>u, <1>s, Ranges DEF Core, JobsFit
  <2> QED
    BY <1>g, <1>u, <1>s, <2>1, Ranges DEF Fits, Active
<1>6. Bound'
  <2> SUFFICES ASSUME NEW q \in Procs PROVE BoundTo(q)'
    BY DEF Bound
  <2>1. BoundTo(q)
    BY Ranges DEF Core, Bound
  <2> QED
    BY <1>g, <1>u, <1>s, <2>1, Ranges DEF BoundTo, Active, procs, Attached
<1>7. EditsBehind'
  <2> SUFFICES ASSUME NEW q \in Procs, NEW d \in Conns PROVE Behind(q, d)'
    BY DEF EditsBehind
  <2>1. Behind(q, d)
    BY Ranges DEF Core, EditsBehind
  <2> QED
    BY <1>g, <1>u, <1>s, <2>1, Ranges DEF Behind
<1> QED
  BY <1>k, <1>1, <1>2, <1>3, <1>4, <1>5, <1>6, <1>7 DEF Core

(* The entry takes the status the request saw, which is not an end.        *)
LEMMA SendKillCore ==
  ASSUME IInv, IInv', Core, Calm, NEW p \in Procs, SendKill(p)
  PROVE  Core'
<1>a. /\ NetOK /\ WorkerOK /\ ConnOK /\ RecOK /\ ReqOK
      /\ NetOK' /\ WorkerOK' /\ ConnOK' /\ RecOK' /\ ReqOK'
  BY DEF IInv, TypeOK
<1>u. UNCHANGED <<link, up, edits, wup, wconn, ready, session, reg, wp, holder, outcome,
        signalled, crashes, row, seen, registry, auth, srv, pend, sync, unreg, jobs, lpc,
        lconn, krec, boots>>
  BY DEF SendKill, netVars, wVars, connVars, recVars, reqVars, supVars
<1>g. /\ kpc[p] = "committed"
      /\ \A q \in Procs : kpc'[q] = IF q = p THEN "sent" ELSE kpc[q]
      /\ \A q \in Procs : /\ entry'[q].conn = entry[q].conn /\ entry'[q].open = entry[q].open
                          /\ q # p => entry'[q] = entry[q]
      /\ \/ entry'[p] = entry[p]
         \/ /\ entry[p].conn # 0 /\ entry'[p] = [entry[p] EXCEPT !.status = krec[p]]
            /\ entry'[p].status = krec[p]
  BY <1>a, Ranges DEF SendKill, RecOK, ReqOK
<1>s. /\ \A d \in Conns : Sent(d)' = Sent(d) /\ (SyncOn(d)' <=> SyncOn(d))
      /\ \A d \in Conns, q \in Procs : ExitOn(d, q)' <=> ExitOn(d, q)
      /\ \A d \in Conns, q \in Procs : RunsOn(d, q)' <=> RunsOn(d, q)
      /\ \A q \in Procs : Untold(q)' <=> Untold(q)
  BY <1>u, SentKept
<1>k. Ordered' /\ Links' /\ Drained' /\ Registered' /\ Synced' /\ Outcomes' /\ Carried' /\
      Running' /\ SyncTells' /\ JobsFit' /\ EditsBehind'
  BY <1>u, CoreKept
<1>1. JobPlaces'
  <2>1. ASSUME NEW k \in jobs' PROVE Placed(k)'
    <3>1. Placed(k)
      BY <1>g, <1>u, Ranges DEF Core, JobPlaces
    <3> QED
      BY <1>g, <1>u, <1>s, <3>1, Ranges DEF Placed
  <2>2. \A k, l \in jobs' : k.p = l.p => k = l
    BY <1>g, <1>u DEF Core, JobPlaces
  <2> QED  BY <2>1, <2>2 DEF JobPlaces
<1>2. Launches'
  <2> SUFFICES ASSUME NEW q \in Procs PROVE LaunchOf(q)'
    BY DEF Launches
  <2>1. LaunchOf(q)
    BY DEF Core, Launches
  <2>2. CASE q # p
    BY <1>g, <1>s, <1>u, <2>1, <2>2, Ranges DEF LaunchOf, Launching, Past
  <2>3. CASE q = p
    BY <1>g, <1>s, <1>u, <2>1, <2>3, Ranges DEF LaunchOf, Launching, Past
  <2> QED  BY <2>2, <2>3
<1>3. Ends'
  <2> SUFFICES ASSUME NEW q \in Procs PROVE EndOf(q)'
    BY DEF Ends
  <2>1. EndOf(q) /\ LaunchOf(q)
    BY Ranges DEF Core, Ends, Launches
  <2> QED
    BY <1>g, <1>u, <1>s, <2>1, Ranges DEF EndOf, Gone, Past, Active, LaunchOf, Exits,
        NoEntry
<1>4. Listed'
  <2> SUFFICES ASSUME NEW d \in Conns PROVE ListedAt(d)'
    BY DEF Listed
  <2>1. ListedAt(d)
    BY Ranges DEF Core, Listed
  <2> QED
    BY <1>g, <1>u, <1>s, <2>1, Ranges DEF ListedAt, Active
<1>5. Bound'
  <2> SUFFICES ASSUME NEW q \in Procs PROVE BoundTo(q)'
    BY DEF Bound
  <2>1. BoundTo(q)
    BY Ranges DEF Core, Bound
  <2> QED
    BY <1>g, <1>u, <1>s, <2>1, Ranges DEF BoundTo, Active, procs, Attached
<1> QED
  BY <1>k, <1>1, <1>2, <1>3, <1>4, <1>5 DEF Core

(* One job is done: row, entry and published status move together.         *)
LEMMA ApplyStatusCore ==
  ASSUME IInv, IInv', Core, Calm, NEW j \in jobs, ApplyStatus(j)
  PROVE  Core'
<1>a. /\ NetOK /\ WorkerOK /\ ConnOK /\ RecOK /\ ReqOK
      /\ NetOK' /\ WorkerOK' /\ ConnOK' /\ RecOK' /\ ReqOK'
  BY DEF IInv, TypeOK
<1>u. UNCHANGED <<link, up, edits, wup, wconn, ready, session, reg, wp, holder, outcome,
        signalled, crashes, registry, auth, srv, pend, sync, unreg, lconn, kpc, krec, boots>>
  BY DEF ApplyStatus, netVars, wVars, connVars, recVars, reqVars, supVars
<1>g. /\ jobs' = jobs \ {j}
      /\ \A q \in Procs : q # j.p => row'[q] = row[q] /\ entry'[q] = entry[q] /\ seen'[q] = seen[q] /\ lpc'[q] = lpc[q]
      /\ row'[j.p].status = (IF j.live THEN j.status ELSE row[j.p].status)
      /\ entry'[j.p] = (IF j.then = "remove" THEN NoEntry ELSE EntryAfter(j))
      /\ seen'[j.p] = (IF j.then = "publish" \/ (j.then = "remove" /\ EntryAfter(j).open)
                       THEN "lost" ELSE SeenAfter(j))
      /\ lpc'[j.p] = (IF j.then = "remove" THEN "done" ELSE lpc[j.p])
  BY <1>a, Ranges DEF ApplyStatus, RecOK, ReqOK, Marked
<1>s. /\ \A d \in Conns : Sent(d)' = Sent(d) /\ (SyncOn(d)' <=> SyncOn(d))
      /\ \A d \in Conns, q \in Procs : ExitOn(d, q)' <=> ExitOn(d, q)
      /\ \A d \in Conns, q \in Procs : RunsOn(d, q)' <=> RunsOn(d, q)
      /\ \A q \in Procs : Untold(q)' <=> Untold(q)
  BY <1>u, SentKept
<1>p. /\ j.p \in Procs /\ Placed(j) /\ Fits(j) /\ EndOf(j.p) /\ LaunchOf(j.p)
      /\ \A k \in jobs' : k \in jobs /\ k.p # j.p
  BY <1>g, Ranges DEF Core, JobPlaces, JobsFit, Ends, Launches
<1>l. /\ j.then = "remove" => j.live /\ Active(j.p) /\ entry[j.p].conn # 0 /\ j.status = "notStarted"
                              /\ wp[j.p] \in {"none", "rejected"}
      /\ j.then = "publish" => j.live /\ Active(j.p) /\ j.status = "lost"
      /\ j.status \in {"PROCESS", "PENDING", "own", "lost", "notStarted"}
      /\ j.live => Active(j.p) \/ row[j.p].status = j.status
      /\ ~j.live => j.then \notin {"remove", "publish"}
  <2>1. j.then = "remove" => j.live /\ Active(j.p) /\ entry[j.p].conn # 0 /\ j.status = "notStarted"
                              /\ wp[j.p] \in {"none", "rejected"}
    BY <1>p, Ranges DEF Placed, LaunchOf, Launching, Active
  <2>2. j.then = "publish" => j.live /\ Active(j.p) /\ j.status = "lost"
    BY <1>p DEF Placed, Fits, Exits
  <2>3. j.status \in {"PROCESS", "PENDING", "own", "lost", "notStarted"}
    BY <1>p, Ranges DEF Placed
  <2> QED  BY <1>p, <2>1, <2>2, <2>3 DEF Fits
<1>q. Same(j) <=> entry[j.p].conn # 0
  BY <1>p DEF Same, Placed
<1>w. ~j.live => entry'[j.p] = entry[j.p] /\ seen'[j.p] = seen[j.p] /\ row'[j.p].status = row[j.p].status
  BY <1>g, <1>l DEF EntryAfter, SeenAfter
<1>x. j.live /\ j.status = "PROCESS" =>
        /\ Active(j.p) /\ entry'[j.p].conn = entry[j.p].conn /\ entry'[j.p].open = entry[j.p].open
        /\ entry'[j.p] = entry[j.p] \/ (entry'[j.p].status = "PROCESS" /\ entry[j.p].conn # 0)
        /\ lpc'[j.p] = lpc[j.p]
  BY <1>a, <1>g, <1>l, <1>p, <1>q DEF EntryAfter, RecOK, Exits, Active
<1>y. j.live /\ j.status = "PENDING" => entry'[j.p] = NoEntry /\ lpc'[j.p] = lpc[j.p]
  BY <1>g, <1>l DEF EntryAfter, Exits
<1>z. j.live /\ j.status \in Exits =>
        /\ ~entry'[j.p].open
        /\ entry'[j.p] = NoEntry \/ (entry'[j.p].conn = entry[j.p].conn /\ entry[j.p].conn # 0)
        /\ seen'[j.p] = j.status
  <2> SUFFICES ASSUME j.live, j.status \in Exits
               PROVE  /\ ~entry'[j.p].open
                      /\ entry'[j.p] = NoEntry \/ (entry'[j.p].conn = entry[j.p].conn /\ entry[j.p].conn # 0)
                      /\ seen'[j.p] = j.status
    OBVIOUS
  <2>1. /\ ~EntryAfter(j).open
        /\ EntryAfter(j) = NoEntry \/ (EntryAfter(j).conn = entry[j.p].conn /\ entry[j.p].conn # 0)
    <3>1. CASE entry[j.p].conn = 0
      BY <1>p, <1>q, <3>1 DEF EntryAfter, Exits, EndOf, NoEntry, Placed
    <3>2. CASE entry[j.p].conn # 0 /\ j.p \notin Edits
      BY <1>p, <1>q, <3>2 DEF EntryAfter, Exits, NoEntry, Placed
    <3>3. CASE entry[j.p].conn # 0 /\ j.p \in Edits
      BY <1>a, <1>p, <1>q, <3>3 DEF EntryAfter, Exits, RecOK, Placed
    <3> QED  BY <3>1, <3>2, <3>3
  <2>2. seen'[j.p] = j.status
    <3>1. CASE Active(j.p) /\ entry[j.p].conn # 0
      BY <1>g, <1>l, <1>p, <1>q, <2>1, <3>1 DEF SeenAfter, EndOf, Placed
    <3>2. CASE Active(j.p) /\ entry[j.p].conn = 0
      BY <1>g, <1>l, <1>p, <3>2 DEF Fits, Placed
    <3>3. CASE ~Active(j.p)
      BY <1>g, <1>l, <1>p, <1>q, <3>3 DEF SeenAfter, EndOf
    <3> QED  BY <3>1, <3>2, <3>3
  <2>3. NoEntry.open = FALSE
    BY DEF NoEntry
  <2>4. entry'[j.p] = NoEntry \/ entry'[j.p] = EntryAfter(j)
    BY <1>g
  <2> QED  BY <2>1, <2>2, <2>3, <2>4
<1>i. /\ j.by[1] = "cleanup" => registry = 0
      /\ j.status \in Exits /\ j.then # "remove" =>
           registry # 0 /\ \A d \in Conns : pend[d] = {}
      /\ j.status = "PENDING" => registry = 0
  <2>1. j.by[1] = "cleanup" => registry = 0
    BY <1>p, Ranges DEF Core, Placed, Registered, RegistryAt
  <2>2. j.by[1] = "dispatch" /\ j.status # "PROCESS" => registry # 0
    BY <1>p, Ranges DEF Placed
  <2>3. registry # 0 => \A d \in Conns : pend[d] = {}
    BY DEF Core, Registered, RegistryAt
  <2> QED
    BY <1>p, <2>1, <2>2, <2>3, Ranges DEF Placed, Exits
<1>k. Ordered' /\ Links' /\ Registered' /\ Synced' /\ Outcomes' /\ Carried' /\ SyncTells'
  BY <1>u, CoreKept
<1>1. Drained'
  <2> SUFFICES ASSUME NEW d \in Conns PROVE DrainedAt(d)'
    BY DEF Drained
  <2>1. DrainedAt(d)
    BY Ranges DEF Core, Drained
  <2> QED
    BY <1>g, <1>u, <1>s, <1>p, <1>l, <1>w, <1>x, <1>y, <1>z, <2>1, Ranges DEF DrainedAt
<1>2. JobPlaces'
  <2>1. ASSUME NEW k \in jobs' PROVE Placed(k)'
    <3>1. Placed(k)
      BY <1>g, <1>u, Ranges DEF Core, JobPlaces
    <3> QED
      BY <1>g, <1>u, <1>s, <1>p, <1>l, <1>w, <1>x, <1>y, <1>z, <3>1, Ranges DEF Placed
  <2>2. \A k, l \in jobs' : k.p = l.p => k = l
    BY <1>g, <1>u DEF Core, JobPlaces
  <2> QED  BY <2>1, <2>2 DEF JobPlaces
<1>3. Launches'
  <2> SUFFICES ASSUME NEW q \in Procs PROVE LaunchOf(q)'
    BY DEF Launches
  <2>1. LaunchOf(q)
    BY DEF Core, Launches
  <2>2. CASE q # j.p
    <3>1. /\ row'[q] = row[q] /\ entry'[q] = entry[q] /\ lpc'[q] = lpc[q]
          /\ \A k \in jobs : k.p = q => k \in jobs'
          /\ \A k \in jobs' : k \in jobs
      BY <1>g, <2>2
    <3> QED
      BY <1>u, <2>1, <3>1 DEF LaunchOf, Launching, Past
  <2>3. CASE q = j.p /\ j.then = "remove"
    <3>1. /\ lpc'[q] = "done" /\ entry'[q] = NoEntry /\ row'[q].status = "notStarted"
          /\ wp[q] \in {"none", "rejected"} /\ lpc[q] = "undo"
      BY <1>g, <1>l, <1>p, <2>3, Ranges DEF Placed
    <3> QED
      BY <1>u, <2>1, <3>1 DEF LaunchOf, Launching, Past
  <2>4. CASE q = j.p /\ j.then # "remove"
    <3>1. /\ lpc'[q] = lpc[q] /\ lpc[q] # "none" /\ lpc[q] # "undo" /\ j.by[1] # "launch"
          /\ j.status # "notStarted"
      BY <1>g, <1>p, <2>1, <2>4, Ranges DEF Placed, Fits, LaunchOf, Launching
    <3>2. \/ row'[q].status = row[q].status /\ entry'[q] = entry[q]
          \/ /\ j.live /\ row'[q].status = j.status /\ row[q].status # "notStarted"
             /\ ~(Launching(q) /\ wp[q] \in {"none", "asked", "spawning", "rejected"})
      BY <1>g, <1>l, <1>w, <2>1, <2>4, <3>1 DEF LaunchOf, Launching, Active
    <3> QED
      BY <1>l, <1>p, <1>u, <2>1, <2>4, <3>1, <3>2 DEF LaunchOf, Launching, Past
  <2> QED  BY <2>2, <2>3, <2>4
<1>4. Ends'
  <2> SUFFICES ASSUME NEW q \in Procs PROVE EndOf(q)'
    BY DEF Ends
  <2>1. EndOf(q)
    BY DEF Core, Ends
  <2>2. CASE q # j.p
    <3>1. /\ row'[q] = row[q] /\ entry'[q] = entry[q] /\ lpc'[q] = lpc[q] /\ seen'[q] = seen[q]
          /\ \A k \in jobs' : k \in jobs
      BY <1>g, <2>2
    <3> QED
      BY <1>s, <1>u, <2>1, <3>1 DEF EndOf, Gone, Past, Active
  <2>3. CASE q = j.p /\ ~j.live
    <3>1. /\ row'[q].status = row[q].status /\ entry'[q] = entry[q] /\ lpc'[q] = lpc[q]
          /\ seen'[q] = seen[q] /\ \A k \in jobs' : k.p # q
      BY <1>g, <1>l, <1>p, <1>w, <2>3
    <3> QED
      BY <1>s, <1>u, <2>1, <3>1 DEF EndOf, Gone, Past, Active
  <2>4. CASE q = j.p /\ j.live /\ j.status \notin Exits
    <3>1. /\ row'[q].status = j.status /\ j.status \in {"PROCESS", "PENDING"} /\ \A k \in jobs' : k.p # q
      BY <1>g, <1>l, <1>p, <2>4 DEF Exits
    <3>2. \/ entry'[q] = NoEntry
          \/ /\ Active(q) /\ entry'[q].conn = entry[q].conn /\ entry'[q].open = entry[q].open
             /\ entry'[q] = entry[q] \/ (entry'[q].status = "PROCESS" /\ entry[q].conn # 0)
      BY <1>x, <1>y, <2>4, <3>1
    <3> QED
      BY <1>u, <2>1, <3>1, <3>2 DEF EndOf, NoEntry, Exits, Past, Active
  <2>5. CASE q = j.p /\ j.live /\ j.status \in Exits
    <3>1. /\ row'[q].status = j.status /\ seen'[q] = j.status /\ ~entry'[q].open
          /\ entry'[q] = NoEntry \/ (entry'[q].conn = entry[q].conn /\ entry[q].conn # 0)
          /\ \A k \in jobs' : k.p # q
      BY <1>g, <1>p, <1>z, <2>5
    <3>2. j.then = "publish" => lpc'[q] = lpc[q]
      BY <1>g, <2>5
    <3>3. /\ j.status = "own" => outcome[q] = "own"
          /\ j.status = "lost" => outcome[q] = "lost" \/ (j.then = "publish" /\ Gone(q) /\ Untold(q))
      BY <2>1, <2>5 DEF EndOf
    <3> QED
      BY <1>s, <1>u, <2>1, <2>5, <3>1, <3>2, <3>3
      DEF EndOf, Gone, NoEntry, Exits, Past, Active
  <2> QED  BY <2>2, <2>3, <2>4, <2>5
<1>5. Running'
  <2> SUFFICES ASSUME NEW d \in Conns, NEW q \in Procs PROVE RunningOn(d, q)'
    BY DEF Running
  <2>1. RunningOn(d, q)
    BY DEF Core, Running
  <2>2. CASE q # j.p
    BY <1>g, <1>s, <2>1, <2>2 DEF RunningOn, Active
  <2>3. CASE q = j.p
    BY <1>g, <1>l, <1>s, <2>1, <2>3 DEF RunningOn, Active, Exits
  <2> QED  BY <2>2, <2>3
<1>6. Listed'
  <2> SUFFICES ASSUME NEW d \in Conns PROVE ListedAt(d)'
    BY DEF Listed
  <2>1. ListedAt(d)
    BY DEF Core, Listed
  <2>2. ASSUME NEW q \in pend[d] PROVE Active(q)' \/ (entry'[q].conn = 0 /\ row'[q].status # "none")
    <3>1. q \in Procs /\ (Active(q) \/ (entry[q].conn = 0 /\ row[q].status # "none"))
      BY <2>1, <2>2, Ranges DEF ListedAt
    <3>2. CASE q # j.p
      BY <1>g, <3>1, <3>2 DEF Active
    <3>3. CASE q = j.p /\ ~j.live
      BY <1>w, <3>1, <3>3 DEF Active
    <3>4. CASE q = j.p /\ j.live /\ j.status \in Exits
      BY <1>g, <1>i, <1>l, <2>2, <3>4 DEF NoEntry
    <3>5. CASE q = j.p /\ j.live /\ j.status \notin Exits
      BY <1>g, <1>l, <3>5 DEF Exits, Active
    <3> QED  BY <3>2, <3>3, <3>4, <3>5
  <2>3. ASSUME sync[d].at = "on", NEW q \in sync[d].todo
        PROVE  Active(q)' /\ \A k \in jobs' : k.p = q => k.status = "PROCESS"
    <3>1. q \in Procs /\ Active(q) /\ \A k \in jobs : k.p = q => k.status = "PROCESS"
      BY <2>1, <2>3, Ranges DEF ListedAt
    <3>2. Active(q)'
      BY <1>g, <3>1 DEF Active
    <3> QED  BY <1>p, <3>1, <3>2
  <2> QED
    BY <1>u, <2>2, <2>3 DEF ListedAt
<1>7. JobsFit'
  <2> SUFFICES ASSUME NEW k \in jobs' PROVE Fits(k)'
    BY DEF JobsFit
  <2>1. Fits(k) /\ row'[k.p] = row[k.p]
    BY <1>g, <1>p, Ranges DEF Core, JobsFit
  <2> QED
    BY <2>1 DEF Fits, Active
<1>8. Bound'
  <2> SUFFICES ASSUME NEW q \in Procs PROVE BoundTo(q)'
    BY DEF Bound
  <2>1. BoundTo(q)
    BY DEF Core, Bound
  <2>2. registry # 0 /\ Active(q)' => Active(q) /\ entry'[q].conn = entry[q].conn
    <3>1. CASE q # j.p
      BY <1>g, <3>1 DEF Active
    <3>2. CASE q = j.p /\ ~j.live
      BY <1>w, <3>2 DEF Active
    <3>3. CASE q = j.p /\ j.live
      BY <1>g, <1>i, <1>l, <1>x, <3>3 DEF Active, Exits
    <3> QED  BY <3>1, <3>2, <3>3
  <2>3. (\A d \in Conns : ExitOn(d, q)' <=> ExitOn(d, q)) /\ procs' = procs /\ registry \in Conns \cup {0}
    BY <1>s, <1>u, Ranges DEF procs, Attached
  <2> QED
    BY <1>u, <2>1, <2>2, <2>3 DEF BoundTo
<1>9. EditsBehind'
  <2> SUFFICES ASSUME NEW q \in Procs, NEW d \in Conns PROVE Behind(q, d)'
    BY DEF EditsBehind
  <2>1. Behind(q, d)
    BY DEF Core, EditsBehind
  <2>2. CASE q # j.p
    BY <1>g, <1>s, <1>u, <2>1, <2>2 DEF Behind
  <2>3. CASE q = j.p
    <3>1. j.status \in Exits => row'[q].status \in Exits
      BY <1>a, <1>g, <1>p, <2>3 DEF Fits, Active, Exits, RecOK, Statuses
    <3>2. row[q].status \in Exits => row'[q].status \in Exits
      BY <1>g, <1>l, <2>3 DEF Active, Exits
    <3>3. \A k \in jobs : k.p = q => k = j
      BY <2>3 DEF Core, JobPlaces
    <3> QED
      BY <1>s, <1>u, <2>1, <3>1, <3>2, <3>3 DEF Behind
  <2> QED  BY <2>2, <2>3
<1> QED
  BY <1>k, <1>1, <1>2, <1>3, <1>4, <1>5, <1>6, <1>7, <1>8, <1>9 DEF Core

(* Memory is gone; rows and what browsers see of them agree.               *)
LEMMA SupervisorRestartsCore ==
  ASSUME IInv, IInv', Core, Calm, SupervisorRestarts
  PROVE  Core'
<1>a. /\ NetOK /\ WorkerOK /\ ConnOK /\ RecOK /\ ReqOK
      /\ NetOK' /\ WorkerOK' /\ ConnOK' /\ RecOK' /\ ReqOK'
  BY DEF IInv, TypeOK
<1>u. UNCHANGED <<wup, wconn, ready, session, wp, holder, outcome, signalled, crashes, row,
        lconn, krec, kills>>
  BY DEF SupervisorRestarts, netVars, wVars, connVars, recVars, reqVars, supVars
<1>g. /\ edits' = {} /\ registry' = 0 /\ jobs' = {}
      /\ \A d \in Conns : /\ Settled(d) /\ up'[d] = <<>> /\ ~auth'[d] /\ pend'[d] = {} /\ sync'[d].at = "no"
                          /\ link'[d] = IF link[d] = "up" THEN "down" ELSE link[d]
                          /\ srv'[d] = IF srv[d] = "unused" THEN "unused" ELSE "closed"
                          /\ reg'[d] = IF reg[d] = "asked" THEN "done" ELSE reg[d]
      /\ \A q \in Procs : /\ entry'[q] = NoEntry /\ seen'[q] = row[q].status
                          /\ lpc'[q] = IF lpc[q] = "none" THEN "none" ELSE "done"
                          /\ kpc'[q] = IF kpc[q] = "none" THEN "none" ELSE "sent"
  BY <1>a, Ranges DEF SupervisorRestarts, NoSync
<1>s. /\ \A d \in Conns : Sent(d)' = {} /\ ~SyncOn(d)'
      /\ \A d \in Conns, q \in Procs : ~ExitOn(d, q)' /\ ~RunsOn(d, q)'
  <2>1. \A d \in Conns : Sent(d)' = {}
    BY <1>g DEF Sent
  <2> QED  BY <2>1 DEF SyncOn, ExitOn, RunsOn
<1>n. \A q \in Procs : wp[q] \notin {"asked", "spawning"} /\ (Launching(q) => wp[q] # "rejected")
  <2> SUFFICES ASSUME NEW q \in Procs
               PROVE  wp[q] \notin {"asked", "spawning"} /\ (Launching(q) => wp[q] # "rejected")
    OBVIOUS
  <2>1. LaunchOf(q) /\ (Launching(q) => lconn[q] \in Conns)
    BY Ranges DEF Core, Launches, LaunchOf
  <2>2. Launching(q) => Settled(lconn[q])
    BY <1>g, <2>1
  <2>3. Launching(q) /\ link[lconn[q]] = "up" => entry[q].conn # lconn[q] \/ entry[q].status # "PENDING"
    BY <2>2 DEF Settled, Calm
  <2>4. Launching(q) /\ link[lconn[q]] = "up" => lpc[q] # "called"
    BY <2>2 DEF Settled, Calm
  <2> QED
    BY <2>1, <2>3, <2>4 DEF LaunchOf, Launching
<1>k. Outcomes'
  BY <1>u, CoreKept
<1>1. Ordered'
  BY <1>g DEF Ordered
<1>2. Links'
  <2> SUFFICES ASSUME NEW d \in Conns PROVE LinkAt(d)'
    BY DEF Links
  <2>1. LinkAt(d)
    BY Ranges DEF Core, Links
  <2> QED
    BY <1>g, <1>u, <1>s, <1>n, <2>1, Ranges DEF LinkAt
<1>3. Drained'
  <2> SUFFICES ASSUME NEW d \in Conns PROVE DrainedAt(d)'
    BY DEF Drained
  <2>1. DrainedAt(d)
    BY Ranges DEF Core, Drained
  <2> QED
    BY <1>g, <1>u, <1>s, <1>n, <2>1, Ranges DEF DrainedAt
<1>4. Registered'
  <2>1. ASSUME NEW d \in Conns PROVE RegistryAt(d)'
    <3>1. RegistryAt(d)
      BY Ranges DEF Core, Registered
    <3> QED
      BY <1>g, <1>u, <1>s, <1>n, <3>1, Ranges DEF RegistryAt, Past
  <2>2. registry' # 0 => /\ Past(registry)' /\ srv'[registry'] \in {"serving", "ended"}
                          /\ \A d \in Conns : d < registry' => srv'[d] = "closed"
    BY <1>g, <1>u, <1>s, <1>n, Ranges DEF Core, Registered, Past
  <2> QED  BY <2>1, <2>2 DEF Registered
<1>5. Synced'
  <2> SUFFICES ASSUME NEW d \in Conns PROVE SyncedAt(d)'
    BY DEF Synced
  <2>1. SyncedAt(d)
    BY Ranges DEF Core, Synced
  <2> QED
    BY <1>g, <1>u, <1>s, <1>n, <2>1, Ranges DEF SyncedAt
<1>6. JobPlaces'
  <2>1. ASSUME NEW k \in jobs' PROVE Placed(k)'
    <3>1. Placed(k)
      BY <1>g, <1>u, Ranges DEF Core, JobPlaces
    <3> QED
      BY <1>g, <1>u, <1>s, <1>n, <3>1, Ranges DEF Placed
  <2>2. \A k, l \in jobs' : k.p = l.p => k = l
    BY <1>g, <1>u DEF Core, JobPlaces
  <2> QED  BY <2>1, <2>2 DEF JobPlaces
<1>7. Launches'
  <2> SUFFICES ASSUME NEW q \in Procs PROVE LaunchOf(q)'
    BY DEF Launches
  <2>1. LaunchOf(q)
    BY DEF Core, Launches
  <2>2. lpc'[q] \in {"none", "done"} /\ (lpc'[q] = "none" <=> lpc[q] = "none")
        /\ (lpc'[q] = "done" => lpc[q] = "done" \/ Launching(q))
    BY <1>a, <1>g DEF ReqOK, Launching
  <2>3. /\ kpc'[q] # "committed" /\ (kpc[q] = "none" => kpc'[q] = "none")
        /\ entry'[q] = NoEntry /\ wp'[q] = wp[q] /\ row'[q] = row[q]
    BY <1>g, <1>u
  <2>4. row[q].status = "notStarted" => wp[q] \in {"none", "rejected"} /\ lpc[q] = "done"
    BY <2>1 DEF LaunchOf
  <2> QED
    BY <1>n, <2>1, <2>2, <2>3, <2>4 DEF LaunchOf, Launching
<1>8. Carried'
  BY <1>s DEF Carried
<1>9. Ends'
  <2> SUFFICES ASSUME NEW q \in Procs PROVE EndOf(q)'
    BY DEF Ends
  <2>1. EndOf(q)
    BY Ranges DEF Core, Ends
  <2> QED
    BY <1>g, <1>u, <1>s, <1>n, <2>1, Ranges
    DEF EndOf, Gone, Past, Active, Untold, NoEntry, Exits
<1>10. Running'
  <2> SUFFICES ASSUME NEW d \in Conns, NEW q \in Procs PROVE RunningOn(d, q)'
    BY DEF Running
  <2>1. RunningOn(d, q)
    BY Ranges DEF Core, Running
  <2> QED
    BY <1>g, <1>u, <1>s, <1>n, <2>1, Ranges DEF RunningOn, Active
<1>11. SyncTells'
  <2> SUFFICES ASSUME NEW d \in Conns, NEW q \in Procs PROVE Told(d, q)'
    BY DEF SyncTells
  <2>1. Told(d, q)
    BY Ranges DEF Core, SyncTells
  <2> QED
    BY <1>g, <1>u, <1>s, <1>n, <2>1, Ranges DEF Told, Unlisted
<1>12. Listed'
  <2> SUFFICES ASSUME NEW d \in Conns PROVE ListedAt(d)'
    BY DEF Listed
  <2>1. ListedAt(d)
    BY Ranges DEF Core, Listed
  <2> QED
    BY <1>g, <1>u, <1>s, <1>n, <2>1, Ranges DEF ListedAt, Active
<1>13. JobsFit'
  <2> SUFFICES ASSUME NEW k \in jobs' PROVE Fits(k)'
    BY DEF JobsFit
  <2> QED
    BY <1>g, <1>u, <1>s, <1>n, Ranges DEF Fits, Active
<1>14. Bound'
  <2> SUFFICES ASSUME NEW q \in Procs PROVE BoundTo(q)'
    BY DEF Bound
  <2>1. BoundTo(q)
    BY Ranges DEF Core, Bound
  <2> QED
    BY <1>g, <1>u, <1>s, <1>n, <2>1, Ranges DEF BoundTo, Active, procs, Attached
<1>15. EditsBehind'
  <2> SUFFICES ASSUME NEW q \in Procs, NEW d \in Conns PROVE Behind(q, d)'
    BY DEF EditsBehind
  <2>1. Behind(q, d)
    BY Ranges DEF Core, EditsBehind
  <2> QED
    BY <1>g, <1>u, <1>s, <1>n, <2>1, Ranges DEF Behind
<1> QED
  BY <1>k, <1>1, <1>2, <1>3, <1>4, <1>5, <1>6, <1>7, <1>8, <1>9, <1>10, <1>11, <1>12, <1>13,
     <1>14, <1>15 DEF Core

-----------------------------------------------------------------------------
(* Core is an invariant.                                                   *)

(* Nothing has happened yet.                                               *)
LEMMA InitCore == ASSUME Init PROVE Core
<1>1. /\ \A c \in Conns : /\ link[c] = "unused" /\ srv[c] = "unused" /\ reg[c] = "none"
                          /\ up[c] = <<>> /\ ~auth[c] /\ ~session[c] /\ pend[c] = {}
                          /\ sync[c].at = "no" /\ ready # c /\ wconn # c
      /\ \A p \in Procs : /\ wp[p] = "none" /\ outcome[p] = "none" /\ row[p].status = "none"
                          /\ entry[p] = NoEntry /\ lpc[p] = "none" /\ kpc[p] = "none"
      /\ jobs = {} /\ edits = {} /\ registry = 0
  BY BoundsAssumption DEF Init, NoSync, Conns
<1>2. /\ \A c \in Conns : Sent(c) = {} /\ ~SyncOn(c)
      /\ \A c \in Conns, p \in Procs : ~ExitOn(c, p) /\ ~RunsOn(c, p)
  <2>1. \A c \in Conns : Sent(c) = {}
    BY <1>1 DEF Sent
  <2> QED  BY <2>1 DEF SyncOn, ExitOn, RunsOn
<1>3. Ordered /\ Drained /\ JobPlaces /\ Outcomes
  BY <1>1 DEF Ordered, Drained, DrainedAt, JobPlaces, Outcomes, OutcomeOf
<1>4. Links
  BY <1>1 DEF Links, LinkAt
<1>5. Registered
  BY <1>1 DEF Registered, RegistryAt
<1>6. Synced /\ Carried /\ Running /\ SyncTells
  BY <1>1, <1>2 DEF Synced, SyncedAt, Carried, Running, RunningOn, SyncTells, Told
<1>7. Launches
  BY <1>1 DEF Launches, LaunchOf, Launching
<1>8. Ends
  <2>1. NoEntry.status \notin Exits /\ NoEntry.conn = 0
    BY DEF NoEntry, Exits
  <2> QED  BY <1>1, <2>1 DEF Ends, EndOf, Exits
<1>9. Listed /\ JobsFit /\ Bound /\ EditsBehind
  BY <1>1 DEF Listed, ListedAt, JobsFit, Bound, BoundTo, EditsBehind, Behind
<1> QED
  BY <1>3, <1>4, <1>5, <1>6, <1>7, <1>8, <1>9 DEF Core

(* Every step keeps it; a holder does not cut the worker off.              *)
LEMMA CoreStep == ASSUME IInv, IInv', Core, Calm, [Next]_vars PROVE Core'
<1>1. CASE UNCHANGED vars
  <2>1. UNCHANGED <<link, up, edits, wup, wconn, ready, session, reg, wp, holder, outcome, row,
                    entry, seen, registry, auth, srv, pend, sync, jobs, lpc, lconn, kpc, krec>>
    BY <1>1 DEF vars, netVars, wVars, supVars, connVars, recVars, reqVars
  <2> QED  BY <2>1, CoreKept DEF Core
<1>2. CASE WorkerNext
  <2>1. ASSUME NEW c \in Conns,
               Dial(c) \/ EndSession(c) \/ SendSync(c) \/ StoreReady(c) \/ Break(c)
        PROVE  Core'
    BY <2>1, DialCore, EndSessionCore, SendSyncCore, StoreReadyCore, BreakCore
  <2>2. ASSUME NEW p \in Procs,
               \/ ExecSpawn(p) \/ ExecAdmit(p) \/ ForwardProcess(p) \/ ForwardExit(p)
               \/ PeerCut(p) \/ Finish(p) \/ Forget(p)
        PROVE  Core'
    <3>1. ~PeerCut(p)
      BY DEF PeerCut, Calm
    <3> QED
      BY <2>2, <3>1, ExecSpawnCore, ExecAdmitCore, ForwardProcessCore, ForwardExitCore,
         FinishCore, ForgetCore
  <2>3. ASSUME NEW p \in Procs,
               Exit(p) \/ HolderDies(p) \/ DoneWait(p) \/ \E c \in Conns : Kill(p, c)
        PROVE  Core'
    BY <2>3, ExitCore, HolderDiesCore, DoneWaitCore, KillCore
  <2> QED
    BY <1>2, <2>1, <2>2, <2>3, WorkerStopsCore, WorkerStartsCore DEF WorkerNext
<1>3. CASE SupervisorNext
  <2>1. ASSUME NEW c \in Conns,
               \/ BindRegister(c) \/ FinishRegister(c)
               \/ ServeEnds(c) \/ Unregister(c) \/ ListActive(c) \/ CloseConn(c)
               \/ Sync(c) \/ SyncEnd(c)
        PROVE  Core'
    BY <2>1, BindRegisterCore, FinishRegisterCore, ServeEndsCore, UnregisterCore,
       ListActiveCore, CloseConnCore, SyncCore, SyncEndCore
  <2>2. ASSUME NEW c \in Conns, NEW p \in Procs,
               \/ Pend(c, p) \/ SyncLost(c, p) \/ SyncRebind(c, p) \/ EditResult(p, c)
               \/ \E kind \in {"PROCESS", "own", "lost"} : Status(c, p, kind)
        PROVE  Core'
    BY <2>2, PendCore, SyncLostCore, SyncRebindCore, EditResultCore, StatusCore
  <2>3. ASSUME NEW p \in Procs,
               \/ LaunchRegister(p) \/ LaunchCall(p) \/ LaunchDone(p)
               \/ LaunchFails(p) \/ FailExec(p) \/ KillRequest(p) \/ SendKill(p)
        PROVE  Core'
    BY <2>3, LaunchRegisterCore, LaunchCallCore, LaunchDoneCore, LaunchFailsCore,
       FailExecCore, KillRequestCore, SendKillCore
  <2> QED
    BY <1>3, <2>1, <2>2, <2>3, ApplyStatusCore, SupervisorRestartsCore DEF SupervisorNext
<1> QED
  BY <1>1, <1>2, <1>3 DEF Next

(* The invariant of the instances whose races are those of Calm.           *)
THEOREM CoreHolds == ASSUME Calm PROVE Spec => []Core
<1>1. IInv /\ IInv' /\ Core /\ [Next]_vars => Core'
  BY CoreStep
<1>2. Init => Core
  BY InitCore
<1> QED
  BY Invariance, <1>1, <1>2, PTL DEF Spec

-----------------------------------------------------------------------------
(* What a process ended with is what it ended with for good: no late       *)
(* frame, clean-up, sync or failed launch of the supervisor overwrites the *)
(* row of a process that is closed.                                        *)
THEOREM FinalStays == ASSUME Calm PROVE Spec => FinalIsFinal
<1> DEFINE Final == \A p \in Procs : row[p].status \in Exits => row'[p].status = row[p].status
<1>1. ASSUME IInv, Core, [Next]_vars PROVE Final
  <2>1. CASE UNCHANGED row
    BY <2>1
  <2>2. ASSUME NEW j \in jobs, ApplyStatus(j) PROVE Final
    <3>1. /\ j.p \in Procs /\ (j.live => Active(j.p) \/ row[j.p].status = j.status)
          /\ row \in [Procs -> [status : Statuses, kill : BOOLEAN]]
      <4>1. j.p \in Procs
        BY <1>1, Ranges
      <4>2. Fits(j)
        BY <1>1 DEF Core, JobsFit
      <4> QED
        BY <1>1, <4>1, <4>2 DEF Fits, IInv, TypeOK, RecOK
    <3>2. row' = IF j.live THEN [row EXCEPT ![j.p] = Marked(j)] ELSE row
      BY <2>2 DEF ApplyStatus
    <3> QED
      BY <3>1, <3>2 DEF Marked, Active, Exits
  <2>3. ASSUME NEW p \in Procs, LaunchRegister(p) PROVE Final
    <3>1. row[p].status = "none" /\ row' = [row EXCEPT ![p].status = "PENDING"]
      <4>1. LaunchOf(p)
        BY <1>1 DEF Core, Launches
      <4> QED
        BY <2>3, <4>1 DEF LaunchRegister, LaunchOf
    <3> QED
      BY <1>1, <3>1 DEF IInv, TypeOK, RecOK, Exits
  <2>4. ASSUME NEW p \in Procs, KillRequest(p) PROVE Final
    BY <1>1, <2>4 DEF KillRequest, IInv, TypeOK, RecOK
  <2>5. WorkerNext => UNCHANGED row
    BY DEF WorkerNext, Dial, EndSession, SendSync, StoreReady, Break, ExecSpawn, ExecAdmit,
       ForwardProcess, ForwardExit, PeerCut, Finish, Forget, Exit, HolderDies, DoneWait,
       Kill, WorkerStops, WorkerStarts, supVars, recVars
  <2>6. ASSUME NEW c \in Conns,
               \/ BindRegister(c) \/ FinishRegister(c)
               \/ ServeEnds(c) \/ Unregister(c) \/ ListActive(c) \/ CloseConn(c)
               \/ Sync(c) \/ SyncEnd(c)
        PROVE  UNCHANGED row
    BY <2>6 DEF BindRegister, FinishRegister, ServeEnds, Unregister, ListActive, CloseConn,
       Sync, SyncEnd, recVars
  <2>7. ASSUME NEW c \in Conns, NEW p \in Procs,
               \/ Pend(c, p) \/ SyncLost(c, p) \/ SyncRebind(c, p) \/ EditResult(p, c)
               \/ \E kind \in {"PROCESS", "own", "lost"} : Status(c, p, kind)
        PROVE  UNCHANGED row
    BY <2>7 DEF Pend, SyncLost, SyncRebind, EditResult, Status
  <2>8. ASSUME NEW p \in Procs,
               LaunchCall(p) \/ LaunchDone(p) \/ LaunchFails(p) \/ FailExec(p) \/ SendKill(p)
        PROVE  UNCHANGED row
    BY <2>8 DEF LaunchCall, LaunchDone, LaunchFails, FailExec, SendKill, recVars
  <2>9. SupervisorRestarts \/ UNCHANGED vars => UNCHANGED row
    BY DEF SupervisorRestarts, vars, supVars, recVars
  <2> QED
    BY <1>1, <2>1, <2>2, <2>3, <2>4, <2>5, <2>6, <2>7, <2>8, <2>9 DEF Next, SupervisorNext
<1>2. IInv /\ Core /\ [Next]_vars => [Final]_vars
  BY <1>1
<1> QED
  BY Invariance, CoreHolds, <1>2, PTL DEF Spec, FinalIsFinal

(* Once a process is closed, browsers were told the same end: by the       *)
(* relay, by publishLost, or when they read the row anew.                  *)
THEOREM ViewersSeeIt == ASSUME Calm PROVE Spec => []ViewersAgree
<1>1. Core => ViewersAgree
  BY DEF Core, Ends, EndOf, ViewersAgree
<1> QED
  BY CoreHolds, <1>1, PTL

(* A sync closes as lost only what the worker does not have, however late  *)
(* it is handled and whatever else is on its way.                          *)
THEOREM LostWasLost == ASSUME Calm PROVE Spec => []LostIsLost
<1>1. Core => LostIsLost
  BY DEF Core, Ends, EndOf, Gone, LostIsLost, procs, Attached
<1> QED
  BY CoreHolds, <1>1, PTL

(* FAILED 126 is recorded only of a process that was never executed.       *)
THEOREM NeverStarted == ASSUME Calm PROVE Spec => []NotStartedIsTrue
<1>1. Core => NotStartedIsTrue
  BY DEF Core, Launches, LaunchOf, NotStartedIsTrue, procs, Attached
<1> QED
  BY CoreHolds, <1>1, PTL

(* The registry has no connection that is closed, so that the worker can   *)
(* register again.                                                         *)
THEOREM RegistryServed == ASSUME Calm PROVE Spec => []RegistryIsServed
<1>1. Core => RegistryIsServed
  BY DEF Core, Registered, RegistryIsServed
<1> QED
  BY CoreHolds, <1>1, PTL

-----------------------------------------------------------------------------
(* Entries, with kill requests that overlap no sync and no status change.  *)
Steady == Windows \subseteq {"lost", "stale", "readback"} /\ ReadBacksWait

(* Without the window of kills: entries say what rows say, and a clean-up  *)
(* detaches what was bound to the connection.                              *)
Detaches(j) == j.status = "PENDING" /\ j.live
Rebinds(j) == j.status = "PROCESS" /\ j.live /\ j.by = <<"dispatch", j.conn>>

ReboundTo(p) ==
  /\ kpc[p] = "committed" => krec[p] = row[p].status
  /\ Launching(p) => entry[p].conn \in {0, lconn[p]}
  /\ entry[p].conn # 0 =>
       /\ entry[p].status = row[p].status
       /\ entry[p].status = "PENDING" =>
            link[entry[p].conn] = "up" \/ Launching(p) \/ \E j \in jobs : j.p = p /\ Rebinds(j)
       /\ Active(p) =>
            \/ registry = entry[p].conn \/ Launching(p)
            \/ srv[entry[p].conn] = "removed"
            \/ /\ srv[entry[p].conn] = "pending"
               /\ p \in pend[entry[p].conn] \/ \E j \in jobs : j.p = p /\ Detaches(j)

Rebound == \A p \in Procs : ReboundTo(p)

(* What has no part in it.                                                 *)
LEMMA ReboundKept ==
  ASSUME Rebound, UNCHANGED <<kpc, krec, row, entry, jobs, link, lpc, lconn, srv, pend, registry>>
  PROVE  Rebound'
  BY DEF Rebound, ReboundTo, Launching, Active

(* Connections come and go under an entry.                                 *)
LEMMA ReboundLink ==
  ASSUME IInv, Core, Rebound, Steady, NEW c \in Conns,
         Dial(c) \/ EndSession(c) \/ Break(c) \/ ServeEnds(c)
  PROVE  Rebound'
<1>1. /\ \A d \in Conns : link[d] = "up" /\ link'[d] # "up" => Settled(d) \/ reg[d] = "refused"
      /\ \A d \in Conns : srv[d] \in {"removed", "pending"} => srv'[d] = srv[d]
  <2>1. CASE Dial(c) \/ EndSession(c) \/ Break(c)
    BY <2>1 DEF Dial, EndSession, Break, IInv, TypeOK, NetOK, ConnOK, Core, Links, LinkAt,
       wVars, supVars, connVars
  <2>2. CASE ServeEnds(c)
    BY <2>2 DEF ServeEnds, IInv, TypeOK, ConnOK, netVars
  <2> QED  BY <2>1, <2>2
<1>2. UNCHANGED <<kpc, krec, row, entry, jobs, lpc, lconn, pend, registry>>
  BY DEF Dial, EndSession, Break, ServeEnds, supVars, connVars, recVars, reqVars
<1> SUFFICES ASSUME NEW p \in Procs PROVE ReboundTo(p)'
  BY DEF Rebound
<1>3. ReboundTo(p) /\ EndOf(p) /\ entry[p].conn \in Conns \cup {0}
  BY Ranges DEF Rebound, Core, Ends
<1>4. entry[p].conn # 0 /\ link[entry[p].conn] = "up" /\ link'[entry[p].conn] # "up"
        => entry[p].status # "PENDING"
  BY <1>1, <1>3 DEF EndOf, Past, Settled, Steady
<1> QED
  BY <1>1, <1>2, <1>3, <1>4 DEF ReboundTo, Launching, Active

(* The worker stops only when nothing is on its way.                       *)
LEMMA ReboundStop ==
  ASSUME IInv, Core, Rebound, Steady, WorkerStops
  PROVE  Rebound'
<1>1. \A d \in Conns : Settled(d)
  BY DEF WorkerStops
<1>2. UNCHANGED <<kpc, krec, row, entry, jobs, lpc, lconn, srv, pend, registry>>
  BY DEF WorkerStops, supVars, connVars, recVars, reqVars
<1> SUFFICES ASSUME NEW p \in Procs PROVE ReboundTo(p)'
  BY DEF Rebound
<1>3. ReboundTo(p) /\ entry[p].conn \in Conns \cup {0}
  BY Ranges DEF Rebound
<1>4. entry[p].conn # 0 /\ link[entry[p].conn] = "up" => entry[p].status # "PENDING"
  BY <1>1, <1>3 DEF Settled, Steady
<1> QED
  BY <1>2, <1>3, <1>4 DEF ReboundTo, Launching, Active

(* A connection that registers finds nothing bound to an older one.        *)
LEMMA ReboundRegister ==
  ASSUME IInv, Core, Rebound, Steady, NEW c \in Conns, FinishRegister(c)
  PROVE  Rebound'
<1>1. UNCHANGED <<kpc, krec, row, entry, jobs, link, lpc, lconn, srv, pend>>
  BY DEF FinishRegister, netVars, recVars, reqVars
<1>2. /\ \A d \in Conns : srv[d] \notin {"ended", "removed", "pending"}
      /\ \A p \in Procs : Launching(p) => srv[lconn[p]] = "serving"
  BY DEF FinishRegister, Steady, CleaningUp, Launching
<1>3. registry' = registry \/ registry = 0
  BY DEF FinishRegister, Free
<1> SUFFICES ASSUME NEW p \in Procs PROVE ReboundTo(p)'
  BY DEF Rebound
<1>4. /\ ReboundTo(p) /\ LaunchOf(p)
      /\ entry[p].conn \in Conns \cup {0} /\ lconn[p] \in Conns \cup {0}
  BY Ranges DEF Rebound, Core, Launches
<1>5. Launching(p) => registry # 0
  <2>1. Launching(p) => lconn[p] \in Conns /\ Past(lconn[p]) /\ RegistryAt(lconn[p])
    BY <1>4 DEF LaunchOf, Core, Registered
  <2> QED
    BY <1>2, <1>4, <2>1, Ranges DEF RegistryAt, Past
<1> QED
  BY <1>1, <1>2, <1>3, <1>4, <1>5 DEF ReboundTo, Launching, Active

(* The clean-up of a connection: what was bound to it is listed ...        *)
LEMMA ReboundCleanup ==
  ASSUME IInv, Core, Rebound, Steady, NEW c \in Conns, Unregister(c) \/ ListActive(c)
  PROVE  Rebound'
<1>1. UNCHANGED <<kpc, krec, row, entry, jobs, link, lpc, lconn>>
  BY DEF Unregister, ListActive, netVars, recVars, reqVars
<1> SUFFICES ASSUME NEW p \in Procs PROVE ReboundTo(p)'
  BY DEF Rebound
<1>2. ReboundTo(p) /\ RegistryAt(c) /\ entry[p].conn \in Conns \cup {0}
  BY Ranges DEF Rebound, Core, Registered
<1>3. CASE Unregister(c)
  <2>1. /\ srv[c] = "ended" /\ registry = c /\ pend' = pend
        /\ \A d \in Conns : srv'[d] = IF d = c THEN "removed" ELSE srv[d]
    BY <1>2, <1>3 DEF Unregister, RegistryAt, Past, IInv, TypeOK, ConnOK
  <2> QED
    BY <1>1, <1>2, <2>1 DEF ReboundTo, Launching, Active
<1>4. CASE ListActive(c)
  <2>1. /\ srv[c] = "removed" /\ registry' = registry /\ pend'[c] = {q \in Procs : Active(q)}
        /\ \A d \in Conns : d # c => srv'[d] = srv[d] /\ pend'[d] = pend[d]
        /\ srv'[c] = "pending"
    BY <1>4 DEF ListActive, IInv, TypeOK, ConnOK
  <2> QED
    BY <1>1, <1>2, <2>1 DEF ReboundTo, Launching, Active
<1> QED
  BY <1>3, <1>4

(* ... and detached, unless its launch fails by itself.                    *)
LEMMA ReboundPend ==
  ASSUME IInv, Core, Rebound, Steady, NEW c \in Conns, NEW p \in Procs, Pend(c, p)
  PROVE  Rebound'
<1>1. /\ UNCHANGED <<kpc, krec, row, entry, link, lpc, lconn, srv, registry>>
      /\ p \in pend[c] /\ Start(<<"cleanup", c>>, p, "PENDING", "none")
      /\ \A d \in Conns : pend'[d] = IF d = c THEN pend[c] \ {p} ELSE pend[d]
  BY DEF Pend, netVars, reqVars, IInv, TypeOK, ConnOK
<1>2. /\ \A j \in jobs : j.p # p
      /\ \E k : /\ jobs' = jobs \cup {k} /\ k.p = p /\ k.status = "PENDING"
                /\ (k.live <=> ~Ignored(p, "PENDING"))
  <2>1. Calm
    BY DEF Steady, Calm
  <2> QED
    BY <1>1, <2>1, StartJob
<1>3. LinkAt(c) /\ srv[c] = "pending" /\ link[c] # "up"
  BY <1>1 DEF Core, Registered, RegistryAt, Links, LinkAt
<1> SUFFICES ASSUME NEW q \in Procs PROVE ReboundTo(q)'
  BY DEF Rebound
<1>4. ReboundTo(q) /\ entry[q].conn \in Conns \cup {0}
  BY Ranges DEF Rebound
<1>5. CASE q # p
  BY <1>1, <1>2, <1>4, <1>5 DEF ReboundTo, Launching, Active
<1>6. CASE q = p
  <2>1. entry[p].conn = c /\ Active(p) => Launching(p) \/ ~Ignored(p, "PENDING")
    <3>1. entry[p].conn = c /\ Active(p) => Launching(p) \/ entry[p].status = "PROCESS"
      BY <1>2, <1>3, <1>4, <1>6, Ranges DEF ReboundTo, Active
    <3> QED
      BY <3>1, Ranges DEF Ignored, Shown
  <2> QED
    BY <1>1, <1>2, <1>3, <1>4, <1>6, <2>1 DEF ReboundTo, Launching, Active, Detaches
<1> QED
  BY <1>5, <1>6

(* The clean-up ends: nothing is left to detach.                           *)
LEMMA ReboundClose ==
  ASSUME IInv, Core, Rebound, Steady, NEW c \in Conns, CloseConn(c)
  PROVE  Rebound'
<1>1. /\ UNCHANGED <<kpc, krec, row, entry, jobs, link, lpc, lconn, pend, registry>>
      /\ srv[c] = "pending" /\ pend[c] = {} /\ ~Busy(<<"cleanup", c>>)
      /\ \A d \in Conns : d # c => srv'[d] = srv[d]
  BY DEF CloseConn, wVars, recVars, reqVars, IInv, TypeOK, ConnOK
<1>2. \A j \in jobs : ~Detaches(j)
  <2> SUFFICES ASSUME NEW j \in jobs, Detaches(j) PROVE FALSE
    OBVIOUS
  <2>1. /\ Placed(j) /\ j.by[1] \in {"dispatch", "cleanup", "launch"}
        /\ (j.by[1] # "launch" => j.by[2] \in Conns) /\ j.by = <<j.by[1], j.by[2]>>
    BY Ranges DEF Core, JobPlaces
  <2>2. j.by[1] = "cleanup" /\ srv[j.by[2]] = "pending"
    BY <2>1 DEF Placed, Detaches
  <2>3. j.by[2] = c
    BY <1>1, <2>1, <2>2 DEF Core, Registered, RegistryAt
  <2> QED
    BY <1>1, <2>1, <2>2, <2>3 DEF Busy
<1> SUFFICES ASSUME NEW p \in Procs PROVE ReboundTo(p)'
  BY DEF Rebound
<1>3. ReboundTo(p) /\ entry[p].conn \in Conns \cup {0}
  BY Ranges DEF Rebound
<1> QED
  BY <1>1, <1>2, <1>3 DEF ReboundTo, Launching, Active

(* One applyStatus: entry and row move together.                           *)
LEMMA ReboundApply ==
  ASSUME IInv, Core, Rebound, Steady, NEW j \in jobs, ApplyStatus(j)
  PROVE  Rebound'
<1>1. /\ UNCHANGED <<krec, kpc, link, lconn, srv, pend, registry>>
      /\ jobs' = jobs \ {j} /\ kpc[j.p] # "committed"
      /\ j.p \in Procs /\ Placed(j) /\ Fits(j) /\ EndOf(j.p) /\ LaunchOf(j.p)
      /\ \A k \in jobs' : k \in jobs /\ k.p # j.p
  <2>1. /\ UNCHANGED <<krec, kpc, link, lconn, srv, pend, registry>>
        /\ jobs' = jobs \ {j} /\ kpc[j.p] # "committed"
    BY DEF ApplyStatus, Steady, netVars, wVars, connVars
  <2>2. j.p \in Procs
    BY Ranges
  <2>3. Placed(j) /\ Fits(j) /\ EndOf(j.p) /\ LaunchOf(j.p)
    BY <2>2 DEF Core, JobPlaces, JobsFit, Ends, Launches
  <2> QED
    BY <2>1, <2>2, <2>3 DEF Core, JobPlaces
<1>2. /\ \A q \in Procs : q # j.p => row'[q] = row[q] /\ entry'[q] = entry[q] /\ lpc'[q] = lpc[q]
      /\ row'[j.p].status = (IF j.live THEN j.status ELSE row[j.p].status)
      /\ entry'[j.p] = (IF j.then = "remove" THEN NoEntry ELSE EntryAfter(j))
      /\ lpc'[j.p] = (IF j.then = "remove" THEN "done" ELSE lpc[j.p])
  BY <1>1 DEF ApplyStatus, Marked, IInv, TypeOK, RecOK, ReqOK
<1> SUFFICES ASSUME NEW q \in Procs PROVE ReboundTo(q)'
  BY DEF Rebound
<1>3. ReboundTo(q) /\ entry[q].conn \in Conns \cup {0} /\ NoEntry.conn = 0
  BY Ranges DEF Rebound, NoEntry
<1>4. CASE q # j.p
  <2>1. \A k \in jobs : k.p = q => k \in jobs'
    BY <1>1, <1>4
  <2> QED
    BY <1>1, <1>2, <1>3, <1>4, <2>1 DEF ReboundTo, Launching, Active
<1>5. CASE q = j.p /\ (j.then = "remove" \/ entry'[q].conn = 0)
  <2>1. entry'[q].conn = 0 /\ kpc'[q] # "committed"
    BY <1>1, <1>2, <1>3, <1>5
  <2> QED
    BY <2>1 DEF ReboundTo
<1>6. CASE q = j.p /\ j.then # "remove" /\ ~j.live
  <2>1. /\ row'[q].status = row[q].status /\ entry'[q] = entry[q] /\ lpc'[q] = lpc[q]
        /\ \A k \in jobs : k.p = q => ~Rebinds(k) /\ ~Detaches(k)
    BY <1>1, <1>2, <1>6 DEF EntryAfter, Rebinds, Detaches, Core, JobPlaces
  <2> QED
    BY <1>1, <1>3, <2>1 DEF ReboundTo, Launching, Active
<1>7. CASE q = j.p /\ j.then # "remove" /\ j.live /\ entry'[q].conn # 0
  <2>1. /\ entry'[q] = EntryAfter(j) /\ lpc'[q] = lpc[q] /\ row'[q].status = j.status
        /\ j.status \in {"PROCESS", "PENDING", "own", "lost"}
    BY <1>1, <1>2, <1>7, Ranges DEF Placed
  <2>2. entry'[q].conn = entry[q].conn /\ entry'[q].status = j.status /\ j.status # "PENDING"
    <3>1. CASE j.status = "PROCESS"
      <4>1. entry[q].conn # 0
        BY <1>1, <1>3, <1>7, <2>1, <3>1 DEF EntryAfter, Exits, EndOf, Same
      <4>2. EntryAfter(j) = [entry[q] EXCEPT !.status = "PROCESS"]
        BY <1>1, <1>7, <3>1, <4>1 DEF EntryAfter, Exits, Same, Placed
      <4> QED
        BY <1>7, <2>1, <3>1, <4>2 DEF IInv, TypeOK, RecOK
    <3>2. CASE j.status = "PENDING"
      BY <1>3, <1>7, <2>1, <3>2 DEF EntryAfter, Exits
    <3>3. CASE j.status \in {"own", "lost"}
      <4>1. entry[q].conn # 0
        BY <1>1, <1>3, <1>7, <2>1, <3>3 DEF EntryAfter, Exits, EndOf, Same
      <4>2. EntryAfter(j) = [entry[q] EXCEPT !.status = j.status, !.open = FALSE]
        BY <1>1, <1>3, <1>7, <2>1, <3>3, <4>1 DEF EntryAfter, Exits, Same, Placed
      <4> QED
        BY <1>7, <2>1, <3>3, <4>2 DEF IInv, TypeOK, RecOK
    <3> QED  BY <2>1, <3>1, <3>2, <3>3
  <2>3. \A k \in jobs : k.p = q => ~Detaches(k)
    BY <1>1, <1>7, <2>2 DEF Detaches, Core, JobPlaces
  <2>4. Active(q)' => Active(q)
    BY <1>1, <1>7, <2>1 DEF Fits, Active
  <2> QED
    BY <1>1, <1>3, <1>7, <2>1, <2>2, <2>3, <2>4 DEF ReboundTo, Launching
<1> QED
  BY <1>4, <1>5, <1>6, <1>7

(* Jobs that are started, and entries of connections that are served.      *)
LEMMA ReboundStart ==
  ASSUME IInv, Core, Rebound, Steady, NEW p \in Procs,
         \/ \E c \in Conns : \/ SyncLost(c, p)
                            \/ \E kind \in {"PROCESS", "own", "lost"} : Status(c, p, kind)
         \/ FailExec(p)
  PROVE  Rebound'
<1>1. /\ UNCHANGED <<kpc, krec, row, entry, link, lconn, srv, pend, registry>>
      /\ jobs \subseteq jobs'
      /\ \A q \in Procs : Launching(q)' <=> Launching(q)
  <2>1. UNCHANGED <<kpc, krec, row, entry, link, lconn, srv, pend, registry>>
    BY DEF SyncLost, Status, FailExec, netVars, wVars, connVars, reqVars
  <2>2. jobs \subseteq jobs'
    BY DEF SyncLost, Status, FailExec, Start
  <2>3. CASE \E c \in Conns : SyncLost(c, p) \/ \E kind \in {"PROCESS", "own", "lost"} : Status(c, p, kind)
    BY <2>1, <2>2, <2>3 DEF SyncLost, Status, Launching, reqVars
  <2>4. CASE FailExec(p)
    <3>1. lpc[p] = "failing" /\ \A q \in Procs : lpc'[q] = IF q = p THEN "undo" ELSE lpc[q]
      BY <2>4 DEF FailExec, IInv, TypeOK, ReqOK
    <3> QED
      BY <2>1, <2>2, <3>1 DEF Launching
  <2> QED  BY <2>3, <2>4, <2>1, <2>2
<1> SUFFICES ASSUME NEW q \in Procs PROVE ReboundTo(q)'
  BY DEF Rebound
<1>2. ReboundTo(q)
  BY DEF Rebound
<1> QED
  BY <1>1, <1>2 DEF ReboundTo, Active, Rebinds, Detaches

(* A sync binds what the worker has to its own connection.                 *)
LEMMA ReboundSync ==
  ASSUME IInv, Core, Rebound, Steady, NEW c \in Conns, NEW p \in Procs, SyncRebind(c, p)
  PROVE  Rebound'
<1>1. /\ UNCHANGED <<kpc, krec, row, link, lpc, lconn, srv, pend, registry>>
      /\ sync[c].at = "on" /\ p \in sync[c].todo
      /\ jobs \subseteq jobs'
      /\ \A q \in Procs : q # p => entry'[q] = entry[q]
      /\ \/ entry' = entry
         \/ /\ entry'[p].conn = c /\ entry'[p].status = row[p].status
            /\ \E k \in jobs' : /\ k.p = p /\ k.status = "PROCESS" /\ k.conn = c
                                /\ k.by = <<"dispatch", c>> /\ (k.live <=> row[p].status # "PROCESS")
  <2>1. /\ UNCHANGED <<kpc, krec, row, link, lpc, lconn, srv, pend, registry>>
        /\ sync[c].at = "on" /\ p \in sync[c].todo
    BY DEF SyncRebind, netVars, wVars, reqVars
  <2>2. CASE Rebindable(p)
    <3>1. entry' = [entry EXCEPT ![p] = [conn |-> c, status |-> row[p].status, open |-> TRUE]]
      BY <2>2 DEF SyncRebind
    <3> DEFINE k == [by |-> <<"dispatch", c>>, p |-> p, status |-> "PROCESS",
                     conn |-> c, live |-> row[p].status # "PROCESS",
                     then |-> IF p \in sync[c].kill THEN "kill" ELSE "none"]
    <3>2. jobs' = jobs \cup {k}
      BY <2>2 DEF SyncRebind
    <3>3. /\ k.p = p /\ k.status = "PROCESS" /\ k.conn = c
          /\ k.by = <<"dispatch", c>> /\ (k.live <=> row[p].status # "PROCESS")
      OBVIOUS
    <3> HIDE DEF k
    <3> QED
      BY <2>1, <3>1, <3>2, <3>3 DEF IInv, TypeOK, RecOK
  <2>3. CASE ~Rebindable(p)
    BY <2>1, <2>3 DEF SyncRebind
  <2> QED  BY <2>2, <2>3
<1>2. registry = c
  <2>1. SyncedAt(c) /\ DrainedAt(c) /\ RegistryAt(c) /\ LinkAt(c)
    BY DEF Core, Synced, Drained, Registered, Links
  <2> QED
    BY <1>1, <2>1 DEF SyncedAt, DrainedAt, RegistryAt, LinkAt
<1> SUFFICES ASSUME NEW q \in Procs PROVE ReboundTo(q)'
  BY DEF Rebound
<1>3. ReboundTo(q) /\ LaunchOf(q) /\ ListedAt(c)
  BY DEF Rebound, Core, Launches, Listed
<1>4. CASE entry'[q] = entry[q]
  BY <1>1, <1>3, <1>4 DEF ReboundTo, Launching, Active, Rebinds, Detaches
<1>5. CASE q = p /\ entry' # entry
  <2>1. ~Launching(q)
    BY <1>1, <1>2, <1>3, Ranges DEF LaunchOf
  <2>2. row[q].status = "PENDING" => \E k \in jobs' : k.p = q /\ Rebinds(k)
    BY <1>1, <1>5 DEF Rebinds
  <2> QED
    BY <1>1, <1>2, <1>3, <1>5, <2>1, <2>2 DEF ReboundTo, Launching, Rebinds, Detaches
<1> QED
  BY <1>1, <1>4, <1>5

(* A launch binds to the connection in the registry and stays there.       *)
LEMMA ReboundLaunch ==
  ASSUME IInv, Core, Rebound, Steady, NEW p \in Procs,
         LaunchRegister(p) \/ LaunchCall(p) \/ LaunchDone(p) \/ LaunchFails(p)
  PROVE  Rebound'
<1>1. UNCHANGED <<kpc, krec, jobs, link, srv, pend, registry>>
  BY DEF LaunchRegister, LaunchCall, LaunchDone, LaunchFails, netVars, wVars, connVars, recVars
<1>2. LaunchOf(p) /\ ReboundTo(p) /\ entry[p].conn \in Conns \cup {0} /\ lconn[p] \in Conns \cup {0}
  BY Ranges DEF Core, Launches, Rebound
<1> SUFFICES ASSUME NEW q \in Procs PROVE ReboundTo(q)'
  BY DEF Rebound
<1>3. ReboundTo(q)
  BY DEF Rebound
<1>4. /\ lpc' \in [Procs -> {"none", "ready", "called", "failing", "undo", "done"}]
      /\ q # p => row'[q] = row[q] /\ entry'[q] = entry[q] /\ lpc'[q] = lpc[q] /\ lconn'[q] = lconn[q]
  BY DEF LaunchRegister, LaunchCall, LaunchDone, LaunchFails, recVars, IInv, TypeOK, RecOK, ReqOK
<1>5. CASE q # p
  BY <1>1, <1>3, <1>4, <1>5 DEF ReboundTo, Launching, Active
<1>6. CASE q = p /\ LaunchRegister(p)
  <2>1. /\ lpc[p] = "none" /\ lconn'[p] = registry /\ lpc'[p] = "ready"
        /\ row'[p].status = "PENDING" /\ entry'[p].conn = registry /\ entry'[p].status = "PENDING"
    BY <1>6 DEF LaunchRegister, IInv, TypeOK, RecOK, ReqOK
  <2> QED
    BY <1>1, <1>2, <1>6, <2>1 DEF ReboundTo, LaunchOf, Launching
<1>7. CASE q = p /\ (LaunchCall(p) \/ LaunchFails(p))
  <2>1. Launching(p) /\ Launching(p)' /\ UNCHANGED <<row, entry, lconn>>
    BY <1>7 DEF LaunchCall, LaunchFails, CallFailed, Launching, recVars, IInv, TypeOK, ReqOK
  <2> QED
    BY <1>1, <1>2, <1>7, <2>1 DEF ReboundTo, Active
<1>8. CASE q = p /\ LaunchDone(p)
  <2>1. /\ lpc[p] = "called" /\ lpc'[p] = "done" /\ UNCHANGED <<row, entry, lconn>>
        /\ srv[lconn[p]] = "serving" /\ wp[p] # "none"
    BY <1>8 DEF LaunchDone, recVars, IInv, TypeOK, ReqOK
  <2>2. link[lconn[p]] = "up" /\ Past(lconn[p]) /\ lconn[p] \in Conns
    BY <1>2, <2>1 DEF LaunchOf, Launching
  <2>3. registry = lconn[p]
    BY <2>1, <2>2 DEF Core, Registered, RegistryAt, Past
  <2> QED
    BY <1>1, <1>2, <1>8, <2>1, <2>2, <2>3 DEF ReboundTo, Launching, Active
<1> QED
  BY <1>5, <1>6, <1>7, <1>8

(* A kill request leaves the status; SendKill writes what the row says.    *)
LEMMA ReboundKill ==
  ASSUME IInv, Core, Rebound, Steady, NEW p \in Procs,
         KillRequest(p) \/ SendKill(p) \/ \E c \in Conns : EditResult(p, c)
  PROVE  Rebound'
<1>1. UNCHANGED <<jobs, link, lpc, lconn, srv, pend, registry>>
  <2>1. KillRequest(p) \/ SendKill(p) => UNCHANGED <<jobs, link, lpc, lconn, srv, pend, registry>>
    BY DEF KillRequest, SendKill, netVars, connVars
  <2>2. ASSUME NEW c \in Conns, EditResult(p, c)
        PROVE  UNCHANGED <<jobs, link, lpc, lconn, srv, pend, registry>>
    BY <2>2 DEF EditResult, reqVars, connVars
  <2> QED  BY <2>1, <2>2
<1> SUFFICES ASSUME NEW q \in Procs PROVE ReboundTo(q)'
  BY DEF Rebound
<1>2. ReboundTo(q)
  BY DEF Rebound
<1>3. CASE KillRequest(p)
  <2>1. /\ row'[q].status = row[q].status /\ entry' = entry
        /\ kpc'[q] = "committed" => kpc[q] = "committed" \/ q = p
        /\ krec'[q] = IF q = p THEN row[q].status ELSE krec[q]
    BY <1>3 DEF KillRequest, IInv, TypeOK, RecOK, ReqOK
  <2> QED
    BY <1>1, <1>2, <2>1 DEF ReboundTo, Launching, Active
<1>4. CASE SendKill(p)
  <2>1. /\ row' = row /\ krec' = krec /\ kpc[p] = "committed"
        /\ kpc'[q] = "committed" => kpc[q] = "committed"
        /\ entry'[q].conn = entry[q].conn
        /\ entry'[q].status = (IF q = p /\ entry[p].conn # 0 THEN krec[p] ELSE entry[q].status)
    BY <1>4 DEF SendKill, IInv, TypeOK, RecOK, ReqOK
  <2> QED
    BY <1>1, <1>2, <2>1 DEF ReboundTo, Launching, Active
<1>5. CASE \E c \in Conns : EditResult(p, c)
  <2>1. /\ UNCHANGED <<kpc, krec, row>> /\ (entry'[q] = entry[q] \/ entry'[q].conn = 0)
    BY <1>5 DEF EditResult, NoEntry, reqVars, IInv, TypeOK, RecOK
  <2> QED
    BY <1>1, <1>2, <2>1 DEF ReboundTo, Launching, Active
<1> QED
  BY <1>3, <1>4, <1>5

(* A restart forgets every entry.                                          *)
LEMMA ReboundRestart ==
  ASSUME IInv, Core, SupervisorRestarts PROVE Rebound'
<1>1. \A q \in Procs : entry'[q].conn = 0 /\ kpc'[q] # "committed"
  BY DEF SupervisorRestarts, NoEntry
<1> QED
  BY <1>1 DEF Rebound, ReboundTo

(* Every step keeps Rebound.                                               *)
LEMMA ReboundStep == ASSUME IInv, Core, Rebound, Steady, [Next]_vars PROVE Rebound'
<1>1. CASE UNCHANGED vars
  BY <1>1, ReboundKept DEF vars, netVars, wVars, supVars, connVars, recVars, reqVars
<1>2. CASE WorkerNext
  <2>1. ASSUME NEW c \in Conns, Dial(c) \/ EndSession(c) \/ Break(c) PROVE Rebound'
    BY <2>1, ReboundLink
  <2>2. ASSUME NEW c \in Conns, SendSync(c) \/ StoreReady(c) PROVE Rebound'
    BY <2>2, ReboundKept DEF SendSync, StoreReady, supVars, connVars, recVars, reqVars, netVars
  <2>3. ASSUME NEW p \in Procs,
               \/ ExecSpawn(p) \/ ExecAdmit(p) \/ ForwardProcess(p) \/ ForwardExit(p)
               \/ PeerCut(p) \/ Finish(p) \/ Forget(p) \/ Exit(p) \/ HolderDies(p) \/ DoneWait(p)
               \/ \E c \in Conns : Kill(p, c)
        PROVE  Rebound'
    BY <2>3, ReboundKept DEF ExecSpawn, ExecAdmit, ForwardProcess, ForwardExit, PeerCut, Finish,
       Forget, Exit, HolderDies, DoneWait, Kill, supVars, connVars, recVars, reqVars, netVars
  <2>4. WorkerStarts => Rebound'
    BY ReboundKept DEF WorkerStarts, supVars, connVars, recVars, reqVars, netVars
  <2> QED
    BY <1>2, <2>1, <2>2, <2>3, <2>4, ReboundStop DEF WorkerNext
<1>3. CASE SupervisorNext
  <2>1. ASSUME NEW c \in Conns, BindRegister(c) \/ Sync(c) \/ SyncEnd(c) PROVE Rebound'
    BY <2>1, ReboundKept DEF BindRegister, Sync, SyncEnd, connVars, recVars, reqVars, netVars
  <2>2. ASSUME NEW c \in Conns,
               \/ FinishRegister(c) \/ ServeEnds(c) \/ Unregister(c) \/ ListActive(c) \/ CloseConn(c)
        PROVE  Rebound'
    BY <2>2, ReboundLink, ReboundRegister, ReboundCleanup, ReboundClose
  <2>3. ASSUME NEW c \in Conns, NEW p \in Procs,
               \/ Pend(c, p) \/ SyncLost(c, p) \/ SyncRebind(c, p) \/ EditResult(p, c)
               \/ \E kind \in {"PROCESS", "own", "lost"} : Status(c, p, kind)
        PROVE  Rebound'
    BY <2>3, ReboundPend, ReboundStart, ReboundSync, ReboundKill
  <2>4. ASSUME NEW p \in Procs,
               LaunchRegister(p) \/ LaunchCall(p) \/ LaunchDone(p) \/ LaunchFails(p)
        PROVE  Rebound'
    BY <2>4, ReboundLaunch
  <2>5. ASSUME NEW p \in Procs, FailExec(p) \/ KillRequest(p) \/ SendKill(p) PROVE Rebound'
    BY <2>5, ReboundStart, ReboundKill
  <2> QED
    BY <1>3, <2>1, <2>2, <2>3, <2>4, <2>5, ReboundApply, ReboundRestart DEF SupervisorNext
<1> QED
  BY <1>1, <1>2, <1>3 DEF Next

(* Nothing is bound at first.                                              *)
LEMMA InitRebound == ASSUME Init PROVE Rebound
<1>1. \A p \in Procs : entry[p].conn = 0 /\ kpc[p] = "none" /\ lpc[p] = "none"
  BY DEF Init, NoEntry
<1> QED
  BY <1>1 DEF Rebound, ReboundTo, Launching

(* Entries and rows, and what a clean-up has yet to detach.                *)
THEOREM ReboundHolds == ASSUME Steady PROVE Spec => []Rebound
<1>1. Calm
  BY DEF Steady, Calm
<1>2. IInv /\ Core /\ Rebound /\ [Next]_vars => Rebound'
  BY ReboundStep
<1>3. Init => Rebound
  BY InitRebound
<1> QED
  BY Invariance, CoreHolds, <1>1, <1>2, <1>3, PTL DEF Spec

(* What the worker runs can be reached: once the sync of the connection in *)
(* the registry is over, the entry of every process it has names that      *)
(* connection, whichever clean-up was at it.                               *)
THEOREM StaysReachable == ASSUME Steady PROVE Spec => []LiveIsBound
<1>1. Calm
  BY DEF Steady, Calm
<1>2. ASSUME IInv, Core, Rebound PROVE LiveIsBound
  <2> SUFFICES ASSUME NEW c \in Conns, registry = c, sync[c].at = "done",
                      NEW p \in procs, Active(p)
               PROVE  entry[p].conn = c
    BY DEF LiveIsBound, procs
  <2>1. p \in Procs /\ wp[p] # "none"
    BY DEF procs, Attached
  <2>2. BoundTo(p) /\ ReboundTo(p) /\ LaunchOf(p) /\ entry[p].conn \in Conns \cup {0}
    BY <1>2, <2>1, Ranges DEF Core, Bound, Rebound, Launches
  <2>3. c # 0
    BY BoundsAssumption DEF Conns
  <2>4. entry[p].conn # 0
    BY <2>2, <2>3 DEF BoundTo
  <2>5. RegistryAt(entry[p].conn)
    BY <1>2, <2>2, <2>4 DEF Core, Registered
  <2> QED
    BY <2>1, <2>2, <2>3, <2>4, <2>5 DEF ReboundTo, LaunchOf, RegistryAt
<1> QED
  BY Invariance, CoreHolds, ReboundHolds, <1>1, <1>2, PTL

-----------------------------------------------------------------------------
(* No frame is lost, and no session is late: an exit arrives.              *)
Lossless == Windows \subseteq {"kill", "readback"} /\ ReadBacksWait

(* An exit code the worker has reported is recorded, on a connection, or   *)
(* taken by a job that will record it; a holder is let go for no less.     *)
OnItsWay(p) ==
  \/ row[p].status = "own"
  \/ \E c \in Conns : ExitOn(c, p)
  \/ \E j \in jobs : j.p = p /\ j.status = "own" /\ j.live

ToldOf(p) ==
  /\ holder[p] = "released" => outcome[p] = "own" /\ wp[p] = "over"
  /\ outcome[p] = "own" /\ (wp[p] = "reported" \/ holder[p] = "released") => OnItsWay(p)

ExitsTold ==
  /\ \A c \in Conns : ready = c => session[c]
  /\ \A p \in Procs : ToldOf(p)

(* What is written stays behind what is there.                             *)
LEMMA EmitAdds ==
  ASSUME NetOK, NEW c \in 0 .. MaxConn, NEW kind, NEW S, Emit(c, kind, S)
  PROVE  \A d \in Conns : /\ Sent(d) \subseteq Sent(d)'
                          /\ d = c /\ link[c] = "up" => [kind |-> kind, procs |-> S] \in Sent(d)'
<1> DEFINE f == [kind |-> kind, procs |-> S]
<1>1. CASE c # 0 /\ link[c] = "up"
  <2>1. c \in Conns /\ \A d \in Conns : up[d] \in Seq(Frames)
    BY <1>1, BoundsAssumption DEF NetOK, Conns
  <2>2. up' = [up EXCEPT ![c] = Append(@, f)]
    BY <1>1 DEF Emit
  <2> HIDE DEF f
  <2>3. up'[c] = Append(up[c], f) /\ \A d \in Conns \ {c} : up'[d] = up[d]
    BY <2>1, <2>2 DEF NetOK
  <2>4. /\ Len(up[c]) \in Nat /\ DOMAIN up[c] = 1 .. Len(up[c])
        /\ DOMAIN up'[c] = 1 .. Len(up[c]) + 1 /\ up'[c][Len(up[c]) + 1] = f
        /\ \A i \in 1 .. Len(up[c]) : up'[c][i] = up[c][i]
    BY <2>1, <2>3
  <2>5. f \in Sent(c)' /\ Sent(c) \subseteq Sent(c)'
    BY <2>4 DEF Sent
  <2>6. \A d \in Conns : d # c => Sent(d)' = Sent(d)
    BY <2>3 DEF Sent
  <2> QED
    BY <1>1, <2>1, <2>5, <2>6 DEF f
<1>2. CASE ~(c # 0 /\ link[c] = "up")
  <2>1. c \notin Conns \/ link[c] # "up"
    BY <1>2, BoundsAssumption DEF Conns
  <2> QED
    BY <1>2, <2>1 DEF Emit, Sent
<1> QED
  BY <1>1, <1>2

(* What has no part in it: frames are only added, jobs only started.       *)
LEMMA ToldKept ==
  ASSUME ExitsTold, NEW p \in Procs,
         UNCHANGED <<wp[p], holder[p], outcome[p], row[p].status>>,
         jobs \subseteq jobs', \A c \in Conns : Sent(c) \subseteq Sent(c)'
  PROVE  ToldOf(p)'
<1>1. ToldOf(p)
  BY DEF ExitsTold
<1>2. OnItsWay(p) => OnItsWay(p)'
  BY DEF OnItsWay, ExitOn
<1> QED
  BY <1>1, <1>2 DEF ToldOf

(* The worker's connections.                                               *)
LEMMA ToldLink ==
  ASSUME IInv, Core, ExitsTold, Lossless, NEW c \in Conns,
         Dial(c) \/ EndSession(c) \/ SendSync(c) \/ StoreReady(c) \/ Break(c)
  PROVE  ExitsTold'
<1>1. \A d \in Conns : ready' = d => session'[d]
  BY DEF Dial, EndSession, SendSync, StoreReady, NewReady, Break, wVars, ExitsTold, Lossless,
     IInv, TypeOK, WorkerOK
<1>2. UNCHANGED <<wp, holder, outcome, row, jobs>>
  BY DEF Dial, EndSession, SendSync, StoreReady, Break, wVars, supVars, recVars
<1>3. \A d \in Conns : Sent(d) \subseteq Sent(d)'
  <2>1. CASE SendSync(c)
    <3>1. NetOK /\ c \in 0 .. MaxConn /\ Emit(c, "sync", Reported)
      BY <2>1 DEF SendSync, IInv, TypeOK, Conns
    <3> QED
      BY <3>1, EmitAdds
  <2>2. CASE ~SendSync(c)
    <3>1. up' = up
      BY <2>2 DEF Dial, EndSession, StoreReady, Break, netVars, Lossless
    <3> QED
      BY <3>1 DEF Sent
  <2> QED  BY <2>1, <2>2
<1> QED
  BY <1>1, <1>2, <1>3, ToldKept DEF ExitsTold

(* The worker's processes: an exit is reported on a connection that is up. *)
LEMMA ToldReport ==
  ASSUME IInv, Core, ExitsTold, Lossless, NEW p \in Procs, ForwardProcess(p) \/ Finish(p)
  PROVE  ExitsTold'
<1>1. UNCHANGED <<ready, session, holder, outcome, row, jobs>>
  BY DEF ForwardProcess, Finish, supVars, recVars
<1>2. /\ \A q \in Procs : q # p => wp'[q] = wp[q]
      /\ wp[p] \in {"attached", "finishing"} /\ wp'[p] \in {"running", "reported"}
      /\ wp'[p] = "reported" => Finish(p)
  BY DEF ForwardProcess, Finish, IInv, TypeOK, WorkerOK
<1>3. /\ \A d \in Conns : Sent(d) \subseteq Sent(d)'
      /\ Finish(p) => \E d \in Conns : [kind |-> outcome[p], procs |-> {p}] \in Sent(d)'
  <2>1. NetOK /\ wconn \in 0 .. MaxConn /\ ready \in 0 .. MaxConn
    BY DEF IInv, TypeOK, WorkerOK
  <2>2. CASE Finish(p)
    <3>1. ready \in Conns /\ link[ready] = "up"
      BY <2>2, Ranges DEF Finish, ReportConn, Lossless, ExitsTold
    <3>2. ready # 0 /\ Emit(ready, outcome[p], {p})
      BY <2>2 DEF Finish, ReportConn
    <3> QED
      BY <2>1, <3>1, <3>2, EmitAdds
  <2>3. CASE ForwardProcess(p)
    <3>1. Emit(wconn, "PROCESS", {p})
      BY <2>3 DEF ForwardProcess
    <3>2. ~Finish(p)
      BY <1>2, <2>3 DEF ForwardProcess, Finish
    <3> QED
      BY <2>1, <3>1, <3>2, EmitAdds
  <2> QED  BY <2>2, <2>3
<1> SUFFICES ASSUME NEW q \in Procs PROVE ToldOf(q)'
  BY <1>1 DEF ExitsTold
<1>4. CASE q # p
  BY <1>1, <1>2, <1>3, <1>4, ToldKept
<1>5. CASE q = p
  <2>1. holder[p] # "released"
    BY <1>2 DEF ExitsTold, ToldOf
  <2>2. Finish(p) /\ outcome[p] = "own" => \E c \in Conns : ExitOn(c, p)'
    BY <1>3 DEF ExitOn
  <2> QED
    BY <1>1, <1>2, <1>5, <2>1, <2>2 DEF ToldOf, OnItsWay
<1> QED
  BY <1>4, <1>5

(* ... and nothing else becomes one that was reported or released.         *)
LEMMA ToldWorker ==
  ASSUME IInv, Core, ExitsTold, Lossless, NEW p \in Procs,
         \/ ExecSpawn(p) \/ ExecAdmit(p) \/ ForwardExit(p) \/ Forget(p) \/ Exit(p)
         \/ HolderDies(p) \/ DoneWait(p) \/ LaunchCall(p) \/ \E c \in Conns : Kill(p, c)
  PROVE  ExitsTold'
<1>1. UNCHANGED <<up, ready, session, row, jobs>>
  BY DEF ExecSpawn, ExecAdmit, ForwardExit, Forget, Exit, HolderDies, DoneWait, LaunchCall, Kill,
     netVars, supVars, recVars
<1>2. \A q \in Procs : q # p => UNCHANGED <<wp[q], holder[q], outcome[q]>>
  BY DEF ExecSpawn, ExecAdmit, ForwardExit, Forget, Exit, HolderDies, DoneWait, LaunchCall, Kill,
     IInv, TypeOK, WorkerOK
<1>3. ToldOf(p) /\ LaunchOf(p)
  BY DEF ExitsTold, Core, Launches
<1>4. OnItsWay(p) => OnItsWay(p)'
  BY <1>1 DEF OnItsWay, ExitOn, Sent
<1>5. /\ holder'[p] = "released" => outcome'[p] = "own" /\ wp'[p] = "over"
      /\ outcome'[p] = "own" /\ (wp'[p] = "reported" \/ holder'[p] = "released")
           => outcome[p] = "own" /\ (wp[p] = "reported" \/ holder[p] = "released")
  <2>1. CASE ExecSpawn(p) \/ ExecAdmit(p)
    BY <1>3, <2>1 DEF ExecSpawn, ExecAdmit, AfterHello, LearntByHello, ToldOf, IInv, TypeOK, WorkerOK
  <2>2. CASE ForwardExit(p)
    BY <1>3, <2>2 DEF ForwardExit, LearntExit, ToldOf, IInv, TypeOK, WorkerOK
  <2>3. CASE Forget(p)
    BY <1>3, <2>3 DEF Forget, Released, ToldOf, IInv, TypeOK, WorkerOK
  <2>4. CASE Exit(p) \/ HolderDies(p) \/ DoneWait(p)
    BY <1>3, <2>4 DEF Exit, HolderDies, DoneWait, ToldOf, IInv, TypeOK, WorkerOK
  <2>5. CASE LaunchCall(p) \/ \E c \in Conns : Kill(p, c)
    BY <1>3, <2>5 DEF LaunchCall, LaunchOf, Kill, ToldOf, IInv, TypeOK, WorkerOK
  <2> QED  BY <2>1, <2>2, <2>3, <2>4, <2>5
<1> SUFFICES ASSUME NEW q \in Procs PROVE ToldOf(q)'
  BY <1>1 DEF ExitsTold
<1>6. CASE q # p
  BY <1>1, <1>2, <1>6, ToldKept DEF Sent
<1>7. CASE q = p
  BY <1>3, <1>4, <1>5, <1>7 DEF ToldOf
<1> QED
  BY <1>6, <1>7

(* A restart of the worker.                                                *)
LEMMA ToldRestart ==
  ASSUME IInv, Core, ExitsTold, Lossless, WorkerStops \/ WorkerStarts
  PROVE  ExitsTold'
<1>1. UNCHANGED <<up, row, jobs, holder>> /\ \A c \in Conns : ready' = c => session'[c]
  BY Ranges DEF WorkerStops, WorkerStarts, netVars, supVars, recVars, ExitsTold
<1> SUFFICES ASSUME NEW p \in Procs PROVE ToldOf(p)'
  BY <1>1 DEF ExitsTold
<1>2. ToldOf(p)
  BY DEF ExitsTold
<1>3. OnItsWay(p) => OnItsWay(p)'
  BY <1>1 DEF OnItsWay, ExitOn, Sent
<1>4. /\ holder[p] = "released" => outcome'[p] = outcome[p] /\ wp'[p] = wp[p]
      /\ wp'[p] = "reported" => wp[p] = "reported" /\ outcome'[p] = outcome[p]
  BY <1>2 DEF WorkerStops, WorkerStarts, AfterStop, Attached, Recovered, AfterHello, LearntByHello,
     ToldOf
<1> QED
  BY <1>1, <1>2, <1>3, <1>4 DEF ToldOf

(* The exit is handled: a job takes it from the connection to the row.     *)
LEMMA ToldStatus ==
  ASSUME IInv, Core, ExitsTold, Lossless, NEW c \in Conns, NEW p \in Procs,
         NEW kind \in {"PROCESS", "own", "lost"}, Status(c, p, kind)
  PROVE  ExitsTold'
<1>1. UNCHANGED <<ready, session, wp, holder, outcome, row>>
  BY DEF Status, wVars
<1>2. /\ up[c] # <<>> /\ up' = [up EXCEPT ![c] = Tail(@)]
      /\ Head(up[c]).kind = kind /\ Head(up[c]).procs = {p}
      /\ jobs \subseteq jobs'
      /\ auth[c] => Start(<<"dispatch", c>>, p, kind, "none")
  BY DEF Status, Take, Start
<1>3. /\ Head(up[c]) \in Sent(c) /\ Sent(c) = Sent(c)' \cup {Head(up[c])}
      /\ \A d \in Conns \ {c} : Sent(d)' = Sent(d)
  BY <1>2, TakeSent DEF Core, IInv, TypeOK
<1> SUFFICES ASSUME NEW q \in Procs PROVE ToldOf(q)'
  BY <1>1 DEF ExitsTold
<1>4. ToldOf(q)
  BY DEF ExitsTold
<1>5. CASE q # p \/ kind = "PROCESS"
  <2>1. \A d \in Conns : ExitOn(d, q) => ExitOn(d, q)'
    BY <1>2, <1>3, <1>5 DEF ExitOn
  <2> QED
    BY <1>1, <1>2, <1>4, <2>1 DEF ToldOf, OnItsWay
<1>6. CASE q = p /\ kind # "PROCESS"
  <2>1. About(c, Head(up[c])) /\ ExitOn(c, p)
    BY <1>2, <1>3, <1>6 DEF Core, Carried, ExitOn
  <2>2. outcome[p] = kind
    BY <1>2, <1>6, <2>1 DEF About
  <2>3. SyncedAt(c) /\ EndOf(p) /\ LaunchOf(p) /\ OutcomeOf(p)
    BY DEF Core, Synced, Ends, Launches, Outcomes
  <2>4. auth[c]
    BY <2>1, <2>3 DEF SyncedAt
  <2>5. Active(p) \/ row[p].status = "own" \/ kind = "lost"
    BY <1>6, <2>1, <2>2, <2>3
       DEF EndOf, Untold, LaunchOf, OutcomeOf, Active, Statuses, Exits, IInv, TypeOK, RecOK
  <2>6. Active(p) /\ kind = "own" => ~Ignored(p, "own")
    BY <2>3 DEF EndOf, Ignored, Shown, Active, Exits
  <2>7. \E k : k \in jobs' /\ k.p = p /\ k.status = kind /\ (k.live <=> ~Ignored(p, kind))
    <3>1. Calm
      BY DEF Lossless, Calm
    <3> QED
      BY <1>2, <2>4, <3>1, StartJob
  <2>8. kind = "own" => OnItsWay(p)'
    BY <1>1, <2>5, <2>6, <2>7 DEF OnItsWay
  <2> QED
    BY <1>1, <1>4, <1>6, <2>2, <2>8 DEF ToldOf
<1> QED
  BY <1>5, <1>6

(* A sync is read off, or a connection closed that has nothing left.       *)
LEMMA ToldQueue ==
  ASSUME IInv, Core, ExitsTold, Lossless, NEW c \in Conns, Sync(c) \/ CloseConn(c)
  PROVE  ExitsTold'
<1>1. UNCHANGED <<ready, session, wp, holder, outcome, row, jobs>>
  BY DEF Sync, CloseConn, wVars, recVars
<1>2. \A d \in Conns, p \in Procs : ExitOn(d, p) => ExitOn(d, p)'
  <2>1. CASE Sync(c)
    <3>1. up[c] # <<>> /\ up' = [up EXCEPT ![c] = Tail(@)] /\ Head(up[c]).kind = "sync"
      BY <2>1 DEF Sync, Take
    <3>2. /\ Sent(c) = Sent(c)' \cup {Head(up[c])}
          /\ \A d \in Conns \ {c} : Sent(d)' = Sent(d)
      BY <3>1, TakeSent DEF Core, IInv, TypeOK
    <3> QED
      BY <3>1, <3>2 DEF ExitOn
  <2>2. CASE CloseConn(c)
    <3>1. up[c] = <<>> /\ DrainedAt(c)
      BY <2>2 DEF CloseConn, Core, Drained, DrainedAt
    <3>2. \A d \in Conns \ {c} : up'[d] = up[d]
      BY <2>2 DEF CloseConn, IInv, TypeOK, NetOK
    <3> QED
      BY <3>1, <3>2 DEF ExitOn, Sent
  <2> QED  BY <2>1, <2>2
<1> QED
  BY <1>1, <1>2 DEF ExitsTold, ToldOf, OnItsWay

(* What starts a job, and what touches none of this.                       *)
LEMMA ToldStart ==
  ASSUME IInv, Core, ExitsTold, Lossless,
         UNCHANGED <<up, ready, session, wp, holder, outcome>>, jobs \subseteq jobs',
         \A p \in Procs : row'[p].status = row[p].status \/ lpc[p] = "none"
  PROVE  ExitsTold'
<1> SUFFICES ASSUME NEW p \in Procs PROVE ToldOf(p)'
  BY DEF ExitsTold
<1>1. CASE row'[p].status = row[p].status
  BY <1>1, ToldKept DEF Sent
<1>2. CASE lpc[p] = "none"
  <2>1. outcome[p] # "own" /\ ToldOf(p)
    BY <1>2 DEF Core, Launches, LaunchOf, Outcomes, OutcomeOf, ExitsTold
  <2> QED
    BY <2>1 DEF ToldOf
<1> QED
  BY <1>1, <1>2

(* A row that says how the process ended is not written again.             *)
LEMMA ToldApply ==
  ASSUME IInv, Core, ExitsTold, Lossless, NEW j \in jobs, ApplyStatus(j)
  PROVE  ExitsTold'
<1>1. /\ UNCHANGED <<up, ready, session, wp, holder, outcome>> /\ jobs' = jobs \ {j}
      /\ row' = IF j.live THEN [row EXCEPT ![j.p] = Marked(j)] ELSE row
  BY DEF ApplyStatus, netVars, wVars
<1>2. j.p \in Procs /\ Fits(j) /\ \A k \in jobs : k.p = j.p => k = j
  BY Ranges DEF Core, JobsFit, JobPlaces
<1>3. \A p \in Procs : row'[p].status = IF p = j.p /\ j.live THEN j.status ELSE row[p].status
  BY <1>1, <1>2 DEF Marked, IInv, TypeOK, RecOK
<1>4. ASSUME NEW p \in Procs, OnItsWay(p) PROVE OnItsWay(p)'
  <2>1. row[p].status = "own" => row'[p].status = "own"
    BY <1>2, <1>3 DEF Fits, Active
  <2>2. \A c \in Conns : ExitOn(c, p) => ExitOn(c, p)'
    BY <1>1 DEF ExitOn, Sent
  <2>3. \A k \in jobs : k.p = p /\ k.status = "own" /\ k.live => k \in jobs' \/ row'[p].status = "own"
    BY <1>1, <1>2, <1>3
  <2> QED
    BY <1>4, <2>1, <2>2, <2>3 DEF OnItsWay
<1> QED
  BY <1>1, <1>4 DEF ExitsTold, ToldOf

(* The supervisor restarts when nothing is on its way.                     *)
LEMMA ToldBoot ==
  ASSUME IInv, Core, ExitsTold, Lossless, SupervisorRestarts
  PROVE  ExitsTold'
<1>1. UNCHANGED <<ready, session, wp, holder, outcome, row>>
  BY DEF SupervisorRestarts
<1>2. jobs = {} /\ \A c \in Conns : up[c] = <<>>
  BY DEF SupervisorRestarts, Quiet, Lossless
<1>3. \A p \in Procs : OnItsWay(p) => row[p].status = "own"
  BY <1>2 DEF OnItsWay, ExitOn, Sent
<1> QED
  BY <1>1, <1>3 DEF ExitsTold, ToldOf, OnItsWay

(* Every step keeps it.                                                    *)
LEMMA ToldStep == ASSUME IInv, Core, ExitsTold, Lossless, [Next]_vars PROVE ExitsTold'
<1>1. CASE UNCHANGED vars
  BY <1>1, ToldStart DEF vars, netVars, wVars, supVars, recVars
<1>2. CASE WorkerNext
  <2>1. ASSUME NEW c \in Conns,
               Dial(c) \/ EndSession(c) \/ SendSync(c) \/ StoreReady(c) \/ Break(c)
        PROVE  ExitsTold'
    BY <2>1, ToldLink
  <2>2. ASSUME NEW p \in Procs,
               \/ ExecSpawn(p) \/ ExecAdmit(p) \/ ForwardProcess(p) \/ ForwardExit(p)
               \/ PeerCut(p) \/ Finish(p) \/ Forget(p) \/ Exit(p) \/ HolderDies(p) \/ DoneWait(p)
               \/ \E c \in Conns : Kill(p, c)
        PROVE  ExitsTold'
    <3>1. ~PeerCut(p)
      BY DEF PeerCut, Lossless
    <3> QED
      BY <2>2, <3>1, ToldReport, ToldWorker
  <2> QED
    BY <1>2, <2>1, <2>2, ToldRestart DEF WorkerNext
<1>3. CASE SupervisorNext
  <2>1. ASSUME NEW c \in Conns,
               \/ BindRegister(c) \/ FinishRegister(c) \/ ServeEnds(c) \/ Unregister(c)
               \/ ListActive(c) \/ SyncEnd(c)
        PROVE  ExitsTold'
    BY <2>1, ToldStart DEF BindRegister, FinishRegister, ServeEnds, Unregister, ListActive, SyncEnd,
       netVars, wVars, recVars
  <2>2. ASSUME NEW c \in Conns, Sync(c) \/ CloseConn(c) PROVE ExitsTold'
    BY <2>2, ToldQueue
  <2>3. ASSUME NEW c \in Conns, NEW p \in Procs,
               Pend(c, p) \/ SyncLost(c, p) \/ SyncRebind(c, p) \/ EditResult(p, c)
        PROVE  ExitsTold'
    <3>1. /\ UNCHANGED <<up, ready, session, wp, holder, outcome, row>> /\ jobs \subseteq jobs'
      BY <2>3 DEF Pend, SyncLost, SyncRebind, EditResult, Start, netVars, wVars
    <3> QED
      BY <3>1, ToldStart
  <2>4. ASSUME NEW c \in Conns, NEW p \in Procs, NEW kind \in {"PROCESS", "own", "lost"},
               Status(c, p, kind)
        PROVE  ExitsTold'
    BY <2>4, ToldStatus
  <2>5. ASSUME NEW p \in Procs,
               \/ LaunchRegister(p) \/ LaunchDone(p) \/ LaunchFails(p) \/ FailExec(p)
               \/ KillRequest(p) \/ SendKill(p)
        PROVE  ExitsTold'
    <3>1. UNCHANGED <<up, ready, session, wp, holder, outcome>> /\ jobs \subseteq jobs'
      BY <2>5 DEF LaunchRegister, LaunchDone, LaunchFails, FailExec, KillRequest, SendKill, Start,
         netVars, wVars, recVars
    <3>2. \A q \in Procs : row'[q].status = row[q].status \/ lpc[q] = "none"
      BY <2>5 DEF LaunchRegister, LaunchDone, LaunchFails, FailExec, KillRequest, SendKill, recVars,
         IInv, TypeOK, RecOK
    <3> QED
      BY <3>1, <3>2, ToldStart
  <2>6. ASSUME NEW p \in Procs, LaunchCall(p) PROVE ExitsTold'
    BY <2>6, ToldWorker
  <2> QED
    BY <1>3, <2>1, <2>2, <2>3, <2>4, <2>5, <2>6, ToldApply, ToldBoot DEF SupervisorNext
<1> QED
  BY <1>1, <1>2, <1>3 DEF Next

(* An exit that was reported is on its way to the row, or recorded.        *)
THEOREM ExitsArrive == ASSUME Lossless PROVE Spec => []ExitsTold
<1>1. Calm
  BY DEF Lossless, Calm
<1>2. IInv /\ Core /\ ExitsTold /\ [Next]_vars => ExitsTold'
  BY ToldStep
<1>3. Init => ExitsTold
  <2>1. Init => /\ \A c \in Conns : ready # c
                /\ \A p \in Procs : holder[p] = "none" /\ outcome[p] = "none"
    BY BoundsAssumption DEF Init, Conns
  <2> QED
    BY <2>1 DEF ExitsTold, ToldOf
<1> QED
  BY Invariance, CoreHolds, <1>1, <1>2, <1>3, PTL DEF Spec

(* The worker lets the holder of a finished process go only when its exit  *)
(* reached the supervisor, which therefore never closes it as lost.        *)
THEOREM NoneMissed == ASSUME Lossless PROVE Spec => []ExitNotMissed
<1>1. Calm
  BY DEF Lossless, Calm
<1>2. ASSUME IInv, Core, ExitsTold PROVE ExitNotMissed
  <2> SUFFICES ASSUME NEW p \in Procs, holder[p] = "released", row[p].status = "lost" PROVE FALSE
    BY DEF ExitNotMissed
  <2>1. outcome[p] = "own" /\ OnItsWay(p)
    BY <1>2 DEF ExitsTold, ToldOf
  <2>2. Untold(p)
    BY <1>2, <2>1 DEF Core, Ends, EndOf
  <2>3. PICK j \in jobs : j.p = p /\ j.status = "own" /\ j.live
    BY <2>1, <2>2 DEF OnItsWay, Untold
  <2> QED
    BY <1>2, <2>3 DEF Core, JobsFit, Fits, Active
<1> QED
  BY Invariance, CoreHolds, ExitsArrive, <1>1, <1>2, PTL
=============================================================================
