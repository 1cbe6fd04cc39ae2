--------------------------- MODULE TerminalStream ---------------------------
(***************************************************************************)
(* The output of one process on its way to one browser tab: the hold       *)
(* process and its screen, the worker that forwards, connections that      *)
(* break, the supervisor's entry with its relay and screen, and the tab    *)
(* that fetches a snapshot and joins the live output to it.                *)
(*                                                                         *)
(* Output is counted, not spelled: a piece is the bytes from + 1 .. to.    *)
(* What a Screen does with pieces is module Screen; here it is the two     *)
(* ends of the window it keeps (Screen!IsWindow).                          *)
(***************************************************************************)
EXTENDS Naturals, SequencesExt

CONSTANTS
  Cap,       \* capacity of a screen, the same in both programs
  MaxOut,    \* bound: bytes the process writes
  MaxConn,   \* bound: connections the worker dials
  MaxCrash,  \* bound: restarts of the worker
  MaxBoot,   \* bound: restarts of the supervisor
  Windows,   \* the races let in, see README
  gap,       \* a line in the terminal that says output is missing
  None

AllWindows == {"early", "drain", "relays", "socket", "purge", "behind", "seam"}

ASSUME CapAssumption == Cap \in Nat \ {0}
ASSUME BoundsAssumption == /\ MaxOut \in Nat /\ MaxConn \in Nat \ {0}
                           /\ MaxCrash \in Nat /\ MaxBoot \in Nat
ASSUME WindowsAssumption == Windows \subseteq AllWindows

Conns == 1 .. MaxConn
Piece == [from : 0 .. MaxOut, to : 0 .. MaxOut]
Frame == [kind : {"data", "snap", "sync"}, from : 0 .. MaxOut, to : 0 .. MaxOut]

ASSUME NoneAssumption == None \notin Nat \cup Piece \cup Frame \cup Seq(Frame) /\ gap \notin Nat

VARIABLES
  out,      \* bytes written by the process: end of the holder's screen
  peer,     \* the holder's socket to the worker, or None while it has no worker
  asked,    \* the worker requested a snapshot of the holder
  wconn,    \* the worker's current connection, 0 for none
  dialled,  \* connections dialled
  known,    \* connections that registered
  synced,   \* connections MsgSync was sent on
  link,     \* connections that are up
  up,       \* frames written to a connection and not handled
  bound,    \* the connection whose entry is in memory, 0 for none
  queue,    \* per entry, chunks its relay has not taken
  written,  \* per entry, the chunk its relay wrote to the screen and not yet published
  screen,   \* window of the supervisor's screen, None if it has none
  sub,      \* the tab's socket is subscribed
  wire,     \* chunks on the tab's socket
  tab,      \* none, asked, answered, live
  answer,   \* the snapshot on its way to the tab
  held,     \* chunks the tab keeps until it has a terminal
  last,     \* lastOff of the tab
  term,     \* what the terminal shows
  crashes, boots

holderVars == <<out, peer, asked>>
workerVars == <<wconn, dialled, synced>>
netVars == <<link, up>>
relayVars == <<known, bound, queue, written, screen>>
tabVars == <<sub, wire, tab, answer, held, last, term>>
vars == <<holderVars, workerVars, netVars, relayVars, tabVars, crashes, boots>>

Greater(a, b) == IF a > b THEN a ELSE b
Bytes(a, b) == [i \in 1 .. b - a |-> a + i]
Chunk(k, a, b) == [kind |-> k, from |-> a, to |-> b]

(* Mutants of the operators below.                                         *)
Unclamped(n) == n - Cap
DataOnly(s, c) == c.kind = "data" /\ c.to > s.to
OnlyFrom(from) == from
Uncut(c) == c.from
NeverSkips(c) == FALSE
ByOneMore(c) == last # None /\ c.to <= last + 1

(* The window a screen keeps of the output up to n.                        *)
Floor(n) == IF n > Cap THEN n - Cap ELSE 0

Init ==
  /\ out = 0 /\ peer = <<Chunk("snap", 0, 0)>> /\ asked = FALSE
  /\ wconn = 1 /\ dialled = 1 /\ synced = {1} /\ known = {1}
  /\ link = [c \in Conns |-> c = 1] /\ up = [c \in Conns |-> <<>>]
  /\ bound = 1 /\ queue = [c \in Conns |-> <<>>] /\ written = [c \in Conns |-> None]
  /\ screen = [from |-> 0, to |-> 0]
  /\ sub = TRUE /\ wire = <<>> /\ tab = "none" /\ answer = None
  /\ held = <<>> /\ last = None /\ term = <<>>
  /\ crashes = 0 /\ boots = 0

-----------------------------------------------------------------------------
(* The hold process and the worker.                                        *)

(* pumpOutput: to the screen and to the worker under one lock.             *)
Produce(n) ==
  /\ out + n <= MaxOut
  /\ "early" \in Windows \/ ~asked
  /\ out' = out + n
  /\ peer' = IF peer = None THEN None ELSE Append(peer, Chunk("data", out, out + n))
  /\ UNCHANGED <<asked, workerVars, netVars, relayVars, tabVars, crashes, boots>>

(* handle(MsgSnap).                                                        *)
Snap ==
  /\ asked /\ peer # None
  /\ asked' = FALSE
  /\ peer' = Append(peer, Chunk("snap", Floor(out), out))
  /\ UNCHANGED <<out, workerVars, netVars, relayVars, tabVars, crashes, boots>>

(* forward: on the current connection; without one, or on one that is      *)
(* broken and not yet given up, the piece is lost.                         *)
Forward ==
  /\ peer # None /\ peer # <<>>
  /\ peer' = Tail(peer)
  /\ up' = IF wconn # 0 /\ link[wconn] THEN [up EXCEPT ![wconn] = Append(@, Head(peer))]
           ELSE up
  /\ UNCHANGED <<out, asked, workerVars, link, relayVars, tabVars, crashes, boots>>

Dial ==
  /\ peer # None /\ wconn = 0 /\ dialled < MaxConn
  /\ dialled' = dialled + 1
  /\ wconn' = dialled + 1
  /\ link' = [link EXCEPT ![dialled + 1] = TRUE]
  /\ UNCHANGED <<holderVars, synced, up, relayVars, tabVars, crashes, boots>>

(* sendSync, once REGISTER was answered: MsgSync, then a snapshot is      *)
(* requested of the holder.                                                *)
SendSync(c) ==
  /\ peer # None /\ c = wconn /\ c \in known \ synced
  /\ "early" \in Windows \/ peer = <<>>
  /\ synced' = synced \cup {c}
  /\ up' = IF link[c] THEN [up EXCEPT ![c] = Append(@, Chunk("sync", 0, 0))] ELSE up
  /\ asked' = TRUE
  /\ UNCHANGED <<out, peer, wconn, dialled, link, relayVars, tabVars, crashes, boots>>

(* The network: frames at the end of a connection that breaks are lost.    *)
Break ==
  /\ wconn # 0 /\ link[wconn]
  /\ link' = [link EXCEPT ![wconn] = FALSE]
  /\ \E k \in 0 .. Len(up[wconn]) : up' = [up EXCEPT ![wconn] = SubSeq(@, 1, k)]
  /\ UNCHANGED <<holderVars, workerVars, relayVars, tabVars, crashes, boots>>

(* The worker's session ends: SetConn(nil).                                *)
EndSession ==
  /\ wconn # 0 /\ ~link[wconn]
  /\ wconn' = 0
  /\ UNCHANGED <<holderVars, dialled, synced, netVars, relayVars, tabVars, crashes, boots>>

(* The worker stops; the holder, its process and its screen stay.          *)
Crash ==
  /\ crashes < MaxCrash /\ peer # None
  /\ crashes' = crashes + 1
  /\ peer' = None /\ asked' = FALSE /\ wconn' = 0
  /\ link' = [c \in Conns |-> FALSE]
  /\ UNCHANGED <<out, dialled, synced, up, relayVars, tabVars, boots>>

(* Recover: the holder greets its new worker with a snapshot.              *)
Recover ==
  /\ peer = None
  /\ peer' = <<Chunk("snap", Floor(out), out)>>
  /\ UNCHANGED <<out, asked, workerVars, netVars, relayVars, tabVars, crashes, boots>>

-----------------------------------------------------------------------------
(* The supervisor.                                                         *)

(* register, when nothing is left of the connections before (what happens  *)
(* when something is, is ProcessLifecycle's matter).                       *)
Register(c) ==
  /\ c = wconn /\ link[c] /\ c \notin known /\ bound = 0
  /\ "drain" \in Windows \/ \A d \in 1 .. c - 1 : up[d] = <<>>
  /\ known' = known \cup {c}
  /\ UNCHANGED <<holderVars, workerVars, netVars, bound, queue, written, screen, tabVars,
                 crashes, boots>>

(* output and screen hand a chunk to the entry there is, whichever         *)
(* registered connection brought it; sync makes the entry: Rebind,         *)
(* startRelay.                                                             *)
Handle(c) ==
  /\ up[c] # <<>>
  /\ up' = [up EXCEPT ![c] = Tail(@)]
  /\ LET f == Head(up[c]) IN
     IF f.kind = "sync"
     THEN /\ bound' = c
          /\ screen' = IF screen = None THEN [from |-> 0, to |-> 0] ELSE screen
          /\ UNCHANGED queue
     ELSE /\ queue' = IF bound = 0 \/ c \notin known THEN queue
                      ELSE [queue EXCEPT ![bound] = Append(@, f)]
          /\ UNCHANGED <<bound, screen>>
  /\ UNCHANGED <<holderVars, workerVars, link, known, written, tabVars, crashes, boots>>

(* reconcileDisconnect: Detach; the relay goes on with what it has.        *)
Detach ==
  /\ bound # 0 /\ ~link[bound]
  /\ "drain" \in Windows \/ up[bound] = <<>>
  /\ bound' = 0
  /\ UNCHANGED <<holderVars, workerVars, netVars, known, queue, written, screen, tabVars,
                 crashes, boots>>

(* WriteAt and Seed refuse what is there already.                          *)
IsNew(s, c) == c.to > s.to

Seeded(c) == [from |-> c.from, to |-> c.to]
Written(s, c) == [from |-> Greater(IF c.from > s.to THEN c.from ELSE s.from, Floor(c.to)),
                  to |-> c.to]

(* relayChunk, first to the screen, then to the browsers.                  *)
RelayWrite(e) ==
  /\ queue[e] # <<>> /\ written[e] = None
  /\ \/ "relays" \in Windows
     \/ \A d \in Conns : d < e => queue[d] = <<>> /\ written[d] = None
  /\ queue' = [queue EXCEPT ![e] = Tail(@)]
  /\ LET c == Head(queue[e]) IN
     IF IsNew(screen, c)
     THEN /\ screen' = IF c.kind = "snap" THEN Seeded(c) ELSE Written(screen, c)
          /\ written' = [written EXCEPT ![e] = c]
     ELSE UNCHANGED <<screen, written>>
  /\ UNCHANGED <<holderVars, workerVars, netVars, known, bound, tabVars, crashes, boots>>

RelayPublish(e) ==
  /\ written[e] # None
  /\ written' = [written EXCEPT ![e] = None]
  /\ wire' = IF sub THEN Append(wire, written[e]) ELSE wire
  /\ UNCHANGED <<holderVars, workerVars, netVars, known, bound, queue, screen,
                 sub, tab, answer, held, last, term, crashes, boots>>

(* The supervisor stops: entries, relays, screens and sockets are gone.    *)
Boot ==
  /\ boots < MaxBoot
  /\ boots' = boots + 1
  /\ link' = [c \in Conns |-> FALSE] /\ up' = [c \in Conns |-> <<>>]
  /\ bound' = 0 /\ queue' = [c \in Conns |-> <<>>] /\ written' = [c \in Conns |-> None]
  /\ screen' = None
  /\ sub' = FALSE /\ wire' = <<>>
  /\ tab' = IF tab = "answered" THEN "asked" ELSE tab
  /\ answer' = None
  /\ UNCHANGED <<holderVars, workerVars, known, held, last, term, crashes>>

-----------------------------------------------------------------------------
(* The tab.                                                                *)

SocketDown ==
  /\ "socket" \in Windows /\ sub
  /\ sub' = FALSE /\ wire' = <<>>
  /\ UNCHANGED <<holderVars, workerVars, netVars, relayVars,
                 tab, answer, held, last, term, crashes, boots>>

(* subscribeLiveProcesses.                                                 *)
SocketUp ==
  /\ ~sub
  /\ sub' = TRUE
  /\ UNCHANGED <<holderVars, workerVars, netVars, relayVars,
                 wire, tab, answer, held, last, term, crashes, boots>>

Ask ==
  /\ tab = "none"
  /\ tab' = "asked"
  /\ UNCHANGED <<holderVars, workerVars, netVars, relayVars,
                 sub, wire, answer, held, last, term, crashes, boots>>

(* snapshotProcess: 404 without a screen.                                  *)
TakeSnapshot ==
  /\ tab = "asked"
  /\ tab' = "answered"
  /\ answer' = screen
  /\ UNCHANGED <<holderVars, workerVars, netVars, relayVars,
                 sub, wire, held, last, term, crashes, boots>>

(* writeSnapshot, or the line in its place.                                *)
ShownSnapshot(s) ==
  IF s = None THEN <<gap>>
  ELSE (IF s.from > 0 THEN <<gap>> ELSE <<>>) \o Bytes(s.from, s.to)

(* writeHeld: the chunks kept, cut at the end of the snapshot; a line if   *)
(* the first of them that is later starts later.                           *)
Leaves(i, from) == held[i].from > from /\ \A j \in 1 .. i - 1 : held[j].to <= from
ShownChunk(i, from) ==
  IF from = None THEN Bytes(held[i].from, held[i].to)
  ELSE IF held[i].to <= from THEN <<>>
  ELSE (IF Leaves(i, from) THEN <<gap>> ELSE <<>>)
         \o Bytes(Greater(held[i].from, from), held[i].to)
ShownHeld(from) == FlattenSeq([i \in DOMAIN held |-> ShownChunk(i, from)])

LastHeld(from) == IF held # <<>> THEN Last(held).to ELSE from

Behind == held # <<>> /\ answer # None /\ Last(held).to < answer.to

(* restore and register.                                                   *)
Restore ==
  /\ tab = "answered"
  /\ "behind" \in Windows \/ ~Behind
  /\ tab' = "live"
  /\ LET from == IF answer = None THEN None ELSE answer.to IN
     /\ term' = ShownSnapshot(answer) \o ShownHeld(from)
     /\ last' = LastHeld(from)
  /\ answer' = None /\ held' = <<>>
  /\ UNCHANGED <<holderVars, workerVars, netVars, relayVars, sub, wire, crashes, boots>>

(* on DATA without a terminal.                                             *)
Hold ==
  /\ wire # <<>> /\ tab # "live"
  /\ "seam" \notin Windows /\ held # <<>> => Last(held).to = Head(wire).from
  /\ wire' = Tail(wire)
  /\ held' = Append(held, Head(wire))
  /\ UNCHANGED <<holderVars, workerVars, netVars, relayVars,
                 sub, tab, answer, last, term, crashes, boots>>

(* More than HOLD_BYTES, or held for HOLD_MS.                              *)
Purge ==
  /\ "purge" \in Windows
  /\ \E k \in 1 .. Len(held) : held' = SubSeq(held, k + 1, Len(held))
  /\ UNCHANGED <<holderVars, workerVars, netVars, relayVars,
                 sub, wire, tab, answer, last, term, crashes, boots>>

(* writeLive.                                                              *)
IsShown(c) == last # None /\ c.to <= last
CutAt(c) == IF last # None /\ last > c.from THEN last ELSE c.from
Skips(c) == last # None /\ c.from > last

Show ==
  /\ wire # <<>> /\ tab = "live"
  /\ wire' = Tail(wire)
  /\ LET c == Head(wire) IN
     IF IsShown(c) THEN UNCHANGED <<last, term>>
     ELSE /\ last' = c.to
          /\ term' = term \o (IF Skips(c) THEN <<gap>> ELSE <<>>) \o Bytes(CutAt(c), c.to)
  /\ UNCHANGED <<holderVars, workerVars, netVars, relayVars,
                 sub, tab, answer, held, crashes, boots>>

-----------------------------------------------------------------------------
Next ==
  \/ \E n \in 1 .. 2 : Produce(n)
  \/ Snap \/ Forward \/ Dial \/ EndSession \/ Crash \/ Recover \/ Break
  \/ \E c \in Conns : Register(c) \/ SendSync(c) \/ Handle(c)
  \/ \E e \in Conns : RelayWrite(e) \/ RelayPublish(e)
  \/ Detach \/ Boot
  \/ SocketDown \/ SocketUp \/ Ask \/ TakeSnapshot \/ Restore \/ Hold \/ Purge \/ Show

Spec == Init /\ [][Next]_vars

Fairness ==
  /\ WF_vars(Snap) /\ WF_vars(Forward) /\ WF_vars(Dial) /\ WF_vars(EndSession)
  /\ WF_vars(Recover) /\ WF_vars(Detach)
  /\ \A c \in Conns : /\ WF_vars(Register(c)) /\ WF_vars(SendSync(c)) /\ WF_vars(Handle(c))
                      /\ WF_vars(RelayWrite(c)) /\ WF_vars(RelayPublish(c))
  /\ WF_vars(TakeSnapshot) /\ WF_vars(Restore) /\ WF_vars(Hold) /\ WF_vars(Show)

FairSpec == Spec /\ Fairness

-----------------------------------------------------------------------------
TypeOK ==
  /\ out \in 0 .. MaxOut /\ peer \in Seq(Frame) \cup {None} /\ asked \in BOOLEAN
  /\ wconn \in 0 .. MaxConn /\ dialled \in Conns /\ synced \subseteq Conns /\ known \subseteq Conns
  /\ link \in [Conns -> BOOLEAN] /\ up \in [Conns -> Seq(Frame)]
  /\ bound \in 0 .. MaxConn /\ queue \in [Conns -> Seq(Frame)]
  /\ written \in [Conns -> Frame \cup {None}] /\ screen \in Piece \cup {None}
  /\ sub \in BOOLEAN /\ wire \in Seq(Frame)
  /\ tab \in {"none", "asked", "answered", "live"} /\ answer \in Piece \cup {None}
  /\ held \in Seq(Frame) /\ last \in 0 .. MaxOut \cup {None}
  /\ term \in Seq(1 .. MaxOut \cup {gap})
  /\ crashes \in 0 .. MaxCrash /\ boots \in 0 .. MaxBoot

Places == {i \in DOMAIN term : term[i] # gap}

(* No output is shown twice or out of order, whatever the snapshot, the    *)
(* chunks held and the live ones have in common (relay.go:78-80).          *)
ShownOnce == \A i, j \in Places : i < j => term[i] < term[j]

(* Where output is missing the terminal says so (processTerm.store.ts:163, *)
(* 175, 295, 321).                                                         *)
GapsAreMarked ==
  \A i \in Places :
    IF i = 1 THEN term[i] = 1 ELSE term[i - 1] = gap \/ term[i] = term[i - 1] + 1

(* Only output that is on no screen any more is missing: a break, or a     *)
(* restart of the worker, costs the viewer nothing that can be fetched.    *)
NothingSkipped ==
  \A i \in Places : i > 1 /\ term[i - 1] = gap => term[i] <= Floor(out) + 1

(* Once a reconnected worker's snapshot is in, the supervisor's screen has *)
(* all that the holder's has (register.go:78).                             *)
Settled ==
  /\ bound # 0 /\ wconn = bound /\ link[bound] /\ bound \in synced
  /\ peer = <<>> /\ ~asked /\ up[bound] = <<>>
  /\ \A e \in Conns : queue[e] = <<>> /\ written[e] = None
SnapshotFills == Settled => screen.to = out /\ screen.from <= Floor(out)

Exhausted == dialled = MaxConn /\ ~link[MaxConn]
Shows(n) == n = 0 \/ \E i \in Places : term[i] = n
(* A tab with a terminal shows the last output in the end, unless the last *)
(* connection allowed is gone.                                             *)
CaughtUp == []<>(tab = "live" => Exhausted \/ Shows(out))
=============================================================================
