----------------------------- MODULE TileBoards -----------------------------
(***************************************************************************)
(* The boards of one account: the documents in the table, the requests     *)
(* that change them, and a browser tab that shows one of them, edits it at *)
(* once and saves what it did.  Every change of more than one board locks  *)
(* the rows of the account; a save of the tab goes by the version it has.  *)
(***************************************************************************)
EXTENDS TileDoc

CONSTANTS Procs, Own,       \* processes of scripts, those this account started
          Nodes,            \* folders tiles show
          Folders,          \* the folders above the scripts, nearest first
          Videos,           \* video files
          Threads,          \* requests that run at a time
          Ops,              \* kinds of requests made
          Edits,            \* kinds of edits made
          MaxReq, MaxEdit,  \* requests and edits in a behaviour
          MaxLoad, MaxLost, \* boards loaded, answers lost
          Windows           \* races allowed, see README

ASSUME OwnAssumption == Own \subseteq Procs /\ IsFiniteSet(Own)
ASSUME EditsAssumption == Edits \subseteq {"open", "go", "close", "place"}

VARIABLES board,   \* [hash -> [doc, ver]], the rows of tile_trees
          proc,    \* [Procs -> [st, kill]], the rows of processes
          req,     \* [Threads -> the request a goroutine serves]
          pins,    \* the last published map of receivers, {} before
          tab,     \* the browser tab
          shown,   \* terminals put on a board and not closed by the user
          next, made, edits, lost    \* fresh numbers, and counts for the bounds

vars == <<board, proc, req, pins, tab, shown, next, made, edits, lost>>

Default == 1       \* the first board made: is_default
Docs == [g \in DOMAIN board |-> board[g].doc]
OnBoards == UNION {TerminalUIDs(board[g].doc) : g \in DOMAIN board}
IsLive(p) == proc[p].st = "live"

-----------------------------------------------------------------------------
Idle == [step |-> "idle"]
Request(op, uid) ==
  [step |-> "ask", op |-> op, uid |-> uid, seen |-> DOMAIN board, procs |-> {},
   hash |-> tab.hash, at |-> None]

\* An account without a board gets its default when a request looks for it.
Init ==
  /\ board = [g \in {Default} |-> [doc |-> Marshal(NewDoc(1), 1), ver |-> 1]]
  /\ proc = [p \in Procs |-> [st |-> "none", kill |-> "no"]]
  /\ req = [h \in Threads |-> Idle]
  /\ pins = {}
  /\ tab = [hash |-> Default, ver |-> 1, doc |-> board[Default].doc, pend |-> <<>>, gen |-> 0]
  /\ shown = {}
  /\ next = 2 /\ made = 0 /\ edits = 0 /\ lost = 0

Begin(h, op, r) ==
  /\ op \in Ops
  /\ req[h] = Idle
  /\ made < MaxReq /\ made' = made + 1
  /\ req' = [req EXCEPT ![h] = r]

Step(h, r) == req' = [req EXCEPT ![h] = r]
End(h) == Step(h, Idle)

\* What commit leaves for the code that runs after it.
Done(h, saved, mine, closed, reply) ==
  Step(h, [step |-> "publish", op |-> req[h].op, saved |-> saved, mine |-> mine,
           closed |-> closed, uid |-> req[h].uid, reply |-> reply, gen |-> tab.gen])
NoReply == [ver |-> 0, id |-> None]

Saved(g, doc) ==
  [doc |-> Marshal(doc, next), ver |-> IF g \in DOMAIN board THEN board[g].ver + 1 ELSE 1]

\* UpdateTileTreeByHash, CreateWorkspaceTree and DeleteTileTree of a request
\* that holds the rows: docs are the documents it writes, gone the boards it
\* deletes, ids how many tiles it makes.
Commit(h, docs, gone, ids, mine, reply) ==
  LET saved == [g \in DOMAIN docs |-> Saved(g, docs[g])]
  IN /\ board' = [g \in (DOMAIN board \union DOMAIN docs) \ gone |->
                    IF g \in DOMAIN docs THEN saved[g] ELSE board[g]]
     /\ shown' = (shown \union UNION {TerminalUIDs(docs[g]) : g \in DOMAIN docs})
                   \ (IF req[h].op = "purge" THEN {req[h].uid} ELSE {})
     /\ next' = next + ids + 1
     /\ Done(h, saved, mine, {}, reply)
     /\ UNCHANGED <<proc, pins, tab, made, edits, lost>>

\* A request that found nothing to write.
Nothing(h) == End(h) /\ UNCHANGED <<board, proc, pins, tab, shown, next, made, edits, lost>>

On(g, doc) == [k \in {g} |-> doc]

-----------------------------------------------------------------------------
(* ListTileTreesForUpdate: the rows as they are once locked, but only rows *)
(* the statement found when it began: a board made while it waits for a    *)
(* row is not among them.                                                  *)

Locked(h) == IF "insert" \in Windows THEN req[h].seen \intersect DOMAIN board ELSE DOMAIN board

Holds(h, op) == req[h].step = "ask" /\ req[h].op = op
LockedUIDs(h) == UNION {TerminalUIDs(board[g].doc) : g \in Locked(h)}

\* The ids a browser may name.
Named == UNION {Ids(board[g].doc) : g \in DOMAIN board}

\* findOrphans, of processes this account started whose end nobody asked.
Orphans(ps) == {p \in Own : IsLive(p) /\ proc[p].kill = "no"} \ ps

\* Between the start of a process and its tile another request may open it.
Busy == {h \in Threads : req[h] # Idle}
Apart(op) == "adopt" \notin Windows => \A h \in Busy : req[h].op # op

Look(h) ==                                       \* getTiles, adoptOrphans
  LET mine == Orphans({})
  IN /\ mine \ OnBoards # {} /\ Apart("exec")
     /\ Begin(h, "get", [Request("get", None) EXCEPT !.procs = mine])
     /\ UNCHANGED <<board, proc, pins, tab, shown, next, edits, lost>>

AdoptOrphans(h) ==
  LET orphans == SetToSeq(req[h].procs \ LockedUIDs(h))
      d == board[Default].doc
      ids == [i \in DOMAIN orphans |-> next + i]
      tile(k) == [Tile("terminal", None, orphans[k - next]) EXCEPT !.parent = d.root]
  IN /\ Holds(h, "get")
     /\ IF orphans = <<>> THEN Nothing(h)
        ELSE Commit(h, On(Default, Add(d, PlaceAfter(d, None, Reverse(ids)), ToSet(ids), tile)),
                    {}, Len(orphans), FALSE, NoReply)

\* Exec: the process runs, then its tile goes after the one it was run from.
Exec(h, p, at) ==
  /\ proc[p].st = "none" /\ p \in Own /\ Apart("get")
  /\ tab.hash \in DOMAIN board
  /\ at \in Ids(tab.doc) /\ CanParent(tab.doc.tiles[at])
  /\ Begin(h, "exec", [Request("exec", p) EXCEPT !.at = at])
  /\ proc' = [proc EXCEPT ![p].st = "live"]
  /\ UNCHANGED <<board, pins, tab, shown, next, edits, lost>>

TheTile(d, p) == CHOOSE id \in TerminalOf(d, p) : TRUE

AppendTerminalTile(h) ==
  LET p == req[h].uid
      have == {g \in Locked(h) : TerminalOf(board[g].doc, p) # {}}
      g == IF req[h].hash \in Locked(h) THEN req[h].hash ELSE Default
      doc == OpenTile(board[g].doc, req[h].at, next, Tile("terminal", None, p))
  IN /\ Holds(h, "exec")
     /\ IF have = {}
        THEN Commit(h, On(g, doc), {}, 1, TRUE,
                    [ver |-> board[g].ver + 1, id |-> next, hash |-> g, tile |-> doc.tiles[next]])
        ELSE LET b == CHOOSE b \in have : \A c \in have : b <= c
                 id == TheTile(board[b].doc, p)
             IN /\ Done(h, On(b, board[b]), TRUE, {},
                        [ver |-> board[b].ver, id |-> id, hash |-> b, tile |-> board[b].doc.tiles[id]])
                /\ UNCHANGED <<board, proc, pins, tab, shown, next, made, edits, lost>>

\* A process another account started, or that became visible.
Attach(h, p) ==
  /\ proc[p].st \in {"none", "live"} /\ p \notin Own /\ proc[p].kill = "no"
  /\ Begin(h, "attach", Request("attach", p))
  /\ proc' = [proc EXCEPT ![p].st = "live"]
  /\ UNCHANGED <<board, pins, tab, shown, next, edits, lost>>

\* insertTerminal with boundPlace: on the tile that receives, if a tab that
\* is connected shows its board.
InsertTerminal(h) ==
  LET p == req[h].uid
      docs == [g \in Locked(h) |-> board[g].doc]
      at == {c \in BindingTile(docs, Folders) : c[1] = tab.hash}
  IN /\ Holds(h, "attach")
     /\ IF p \in LockedUIDs(h) \/ at = {} THEN Nothing(h)
        ELSE \E c \in at : Commit(h, On(c[1], OpenTile(docs[c[1]], c[2], next, Tile("terminal", None, p))),
                                  {}, 1, FALSE, NoReply)

-----------------------------------------------------------------------------
(* Requests of the account that lock all of its boards.                    *)

Ask(h, op, uid) ==
  /\ Begin(h, op, Request(op, uid))
  /\ UNCHANGED <<board, proc, pins, tab, shown, next, edits, lost>>

SameNode(t, node) == t.type = "folder" /\ t.node = node

\* bindTile: the pin of a node goes to one tile and leaves all others.
Pinned(h, g, id, node) ==
  LET pin(d, b) == [d EXCEPT !.tiles = [k \in DOMAIN @ |->
                      IF SameNode(@[k], node) THEN [@[k] EXCEPT !.bound = <<b, k>> = <<g, id>>] ELSE @[k]]]
      docs == [b \in Locked(h) |-> pin(board[b].doc, b)]
  IN [b \in {b \in Locked(h) : docs[b] # board[b].doc} |-> docs[b]]

BindTile(h) ==
  /\ Holds(h, "bind")
  /\ \E g \in Locked(h) : \E id \in FolderTiles(board[g].doc) :
       Commit(h, Pinned(h, g, id, board[g].doc.tiles[id].node), {}, 0, FALSE, NoReply)

\* bindProcessTile: the terminal goes under a tile of a board, from where it
\* is or, when the process runs, as a new tile.
MoveTerminal(h, g, at) ==
  LET p == req[h].uid
      to == board[g].doc
      opener == IF at \in Ids(to) /\ CanParent(to.tiles[at]) THEN at ELSE to.root
      from == {b \in Locked(h) : TerminalOf(board[b].doc, p) # {}}
  IN IF from = {}
     THEN IF IsLive(p)
          THEN Commit(h, On(g, OpenTile(to, opener, next, Tile("terminal", None, p))), {}, 1, FALSE, NoReply)
          ELSE Nothing(h)
     ELSE \E b \in from :
            LET id == TheTile(board[b].doc, p)
                t == board[b].doc.tiles[id]
                rest == RemoveTile(board[b].doc, id)
            IN IF b = g /\ t.parent = opener THEN Nothing(h)
               ELSE Commit(h, [k \in {b, g} |-> IF k = g
                                                THEN OpenTile(IF b = g THEN rest ELSE to, opener, id, t)
                                                ELSE rest], {}, 0, FALSE, NoReply)

BindProcessTile(h) ==
  /\ Holds(h, "take")
  /\ \E g \in Locked(h) : \E at \in Ids(board[g].doc) : MoveTerminal(h, g, at)

\* moveWorkspaceTile: within a board the tile alone, to another board all it
\* opened too.  A browser that shows the board sends the version it has.
MoveWorkspaceTile(h) ==
  /\ Holds(h, "move")
  /\ \E g, b \in Locked(h) : \E id \in Ids(board[g].doc) \ {board[g].doc.root},
                               after \in Ids(board[b].doc) \union {None} :
       /\ after # id
       /\ IF g = tab.hash /\ board[g].ver # tab.ver THEN Nothing(h)
          ELSE Commit(h, IF g = b THEN On(g, MoveAfter(board[g].doc, id, after))
                         ELSE [k \in {g, b} |-> IF k = g THEN TakeOpened(board[g].doc, id)
                                                ELSE PutOpened(board[b].doc, after, board[g].doc, id)],
                      {}, 0, FALSE, NoReply)

\* deleteWorkspace: the whole board goes after the root of the default.
DeleteWorkspace(h) ==
  /\ Holds(h, "delete")
  /\ \E g \in Locked(h) \ {Default} :
       Commit(h, On(Default, PutOpened(board[Default].doc, None, board[g].doc, board[g].doc.root)),
              {g}, 0, FALSE, NoReply)

\* attachSharedFolder: a tile for a folder no tile shows; its uid is that of
\* the tile it was shared from, unless the account has that one already.
AttachSharedFolder(h) ==
  LET docs == [g \in Locked(h) |-> board[g].doc]
      known == \E g \in Locked(h) : \E k \in OfType(docs[g], "folder") : docs[g].tiles[k].uid = -1
  IN /\ Holds(h, "share")
     /\ \E n \in Nodes :
          IF FoldersOf(docs, n) # {} THEN Nothing(h)
          ELSE Commit(h, On(Default, OpenTile(docs[Default], None, next,
                                              Tile("folder", n, IF known THEN None ELSE -1))),
                      {}, 1, FALSE, NoReply)

\* openVideoTile: the tile the account has for the file, or a new one.
OpenVideoTile(h) ==
  LET v == req[h].uid
      has(g) == {k \in OfType(board[g].doc, "viewer") : board[g].doc.tiles[k].uid = v}
      g == IF req[h].hash \in Locked(h) THEN req[h].hash ELSE Default
      doc == OpenTile(board[g].doc, req[h].at, next, Tile("viewer", None, v))
  IN /\ Holds(h, "video")
     /\ IF \E b \in Locked(h) : has(b) # {} THEN Nothing(h)
        ELSE Commit(h, On(g, doc), {}, 1, TRUE,
                    [ver |-> board[g].ver + 1, id |-> next, hash |-> g, tile |-> doc.tiles[next]])

\* purgeProcesses: the tiles of a process that ended long ago, then its row
\* if no tile is left.
PurgeTiles(h) ==
  LET p == req[h].uid
      has == {g \in Locked(h) : TerminalOf(board[g].doc, p) # {}}
  IN /\ Holds(h, "purge")
     /\ Commit(h, [g \in has |-> RemoveTile(board[g].doc, TheTile(board[g].doc, p))],
               {}, 0, FALSE, NoReply)

DeleteProcess(h) ==
  /\ req[h].step = "purged"
  /\ proc' = [proc EXCEPT ![req[h].uid].st = IF req[h].uid \in OnBoards THEN @ ELSE "gone"]
  /\ End(h)
  /\ UNCHANGED <<board, pins, tab, shown, next, made, edits, lost>>

\* createWorkspace locks one row: the tab's board, at the tab's version.
CreateWorkspace(h, id) ==
  LET g == tab.hash
      new == next
  IN /\ "create" \in Ops /\ req[h] = Idle /\ made < MaxReq
     /\ g \in DOMAIN board /\ board[g].ver = tab.ver
     /\ id \in Ids(board[g].doc) \ {board[g].doc.root} /\ CanRoot(board[g].doc.tiles[id])
     /\ LET docs == [b \in {g, new} |-> IF b = g THEN TakeOpened(board[g].doc, id)
                                       ELSE Detached(board[g].doc, id)]
            saved == [b \in {g, new} |-> Saved(b, docs[b])]
        IN /\ board' = [b \in DOMAIN board \union {new} |-> IF b \in {g, new} THEN saved[b] ELSE board[b]]
           /\ Step(h, [step |-> "publish", op |-> "create", saved |-> saved, mine |-> FALSE,
                       closed |-> {}, uid |-> None, reply |-> NoReply, gen |-> tab.gen])
     /\ next' = next + 1 /\ made' = made + 1
     /\ UNCHANGED <<proc, pins, tab, shown, edits, lost>>

-----------------------------------------------------------------------------
(* The browser tab: a version the server confirmed, the edits it has not   *)
(* confirmed, and the tree with them applied.                              *)

\* An edit is [do, id, arg, n]; one that does not apply is dropped.
Applies(d, e) ==
  CASE e.do = "open"   -> e.n \notin Ids(d) /\ e.id \in Ids(d) /\ CanParent(d.tiles[e.id])
    [] e.do = "go"     -> e.id \in OfType(d, "folder")
    [] e.do = "server" -> TRUE
    [] e.do = "place"  -> e.id \in Ids(d) \ {d.root}
    [] OTHER           -> e.id \in Ids(d)

Applied(d, e) ==
  CASE e.do = "open"   -> OpenTile(d, e.id, e.n, Tile("folder", e.arg, None))
    [] e.do = "go"     -> [d EXCEPT !.tiles[e.id] = IF @.node = e.arg THEN @
                                                    ELSE [@ EXCEPT !.node = e.arg, !.bound = FALSE]]
    [] e.do = "place"  -> MoveAfter(d, e.id, IF e.arg \in Ids(d) THEN e.arg ELSE -1)
    [] e.do = "server" -> IF e.id \in Ids(d) THEN d ELSE OpenTile(d, e.arg.parent, e.id, e.arg)
    [] OTHER           -> IF e.id = d.root THEN d ELSE RemoveTile(d, e.id)

\* rebase: the edits again, on what the server has.
Rebased(t, ver, doc) ==
  LET again(s, e) == IF Applies(s.doc, e) THEN [doc |-> Applied(s.doc, e), pend |-> Append(s.pend, e)] ELSE s
      upTo[n \in 0 .. Len(t.pend)] == IF n = 0 THEN [doc |-> doc, pend |-> <<>>]
                                               ELSE again(upTo[n - 1], t.pend[n])
      all == upTo[Len(t.pend)]
  IN [t EXCEPT !.ver = ver, !.doc = all.doc, !.pend = all.pend]

InFlight == \E h \in Threads : req[h].step \in {"put", "publish", "reply"} /\ req[h].op = "put"
                                 /\ req[h].gen = tab.gen

\* The terminal of a running process is closed only once its end is asked.
MayClose(id) ==
  LET t == tab.doc.tiles[id] IN t.type = "terminal" => ~IsLive(t.uid) \/ proc[t.uid].kill # "no"

Args(do) == CASE do = "open"  -> Nodes
              [] do = "go"    -> Nodes \union {None}
              [] do = "place" -> Ids(tab.doc) \union {None}
              [] OTHER        -> {None}

Edit(do, id, arg) ==
  LET e == [do |-> do, id |-> id, arg |-> arg, n |-> next]
  IN /\ do \in Edits
     /\ edits < MaxEdit /\ edits' = edits + 1
     /\ arg \in Args(do) /\ (do = "place" => arg # id)
     /\ Applies(tab.doc, e) /\ Applied(tab.doc, e) # tab.doc
     /\ do = "close" => MayClose(id)
     /\ tab' = [tab EXCEPT !.doc = Applied(@, e), !.pend = Append(@, e)]
     /\ next' = next + 1
     /\ UNCHANGED <<board, proc, req, pins, shown, made, lost>>

\* save: one PUT at a time, of the tree as it is, at the version it has.
Send(h) ==
  /\ req[h] = Idle
  /\ tab.pend # <<>> /\ ~InFlight
  /\ Step(h, [step |-> "put", op |-> "put", hash |-> tab.hash, ver |-> tab.ver,
              doc |-> tab.doc, sent |-> ToSet(tab.pend), gen |-> tab.gen, uid |-> None])
  /\ UNCHANGED <<board, proc, pins, tab, shown, next, made, edits, lost>>

Answer(r, ok, rec) ==
  [step |-> "reply", op |-> "put", ok |-> ok, ver |-> rec.ver, doc |-> rec.doc,
   sent |-> r.sent, gen |-> r.gen]

AnyVersion(r) == TRUE                                        \* mutant
SameVersion(r) == board[r.hash].ver = r.ver

\* checkTerminalUIDs and checkVideoTiles: a save adds no terminal, no video.
OnlyStored(d, stored) ==
  /\ \A id \in OfType(d, "terminal") : /\ d.tiles[id].uid \in TerminalUIDs(stored)
                                       /\ TerminalOf(d, d.tiles[id].uid) = {id}
  /\ OfType(d, "viewer") \subseteq OfType(stored, "viewer")

\* The processes whose terminal the save closes.
Opened(stored, sent) == TerminalUIDs(sent) \ TerminalUIDs(stored)    \* mutant
Closed(stored, sent) == TerminalUIDs(stored) \ TerminalUIDs(sent)

PutTiles(h) ==
  LET r == req[h]
      rec == board[r.hash]
      closed == {e.id : e \in {e \in r.sent : e.do = "close"}}
      doc == KeepFolderMeta(r.doc, rec.doc)
      gone == Closed(rec.doc, r.doc)
  IN /\ r.step = "put"
     /\ IF \/ ~IsValid(r.doc) \/ r.hash \notin DOMAIN board
           \/ SameVersion(r) /\ ~OnlyStored(r.doc, rec.doc) THEN Nothing(h)
        ELSE IF ~SameVersion(r)
        THEN Step(h, Answer(r, FALSE, rec))
             /\ UNCHANGED <<board, proc, pins, tab, shown, next, made, edits, lost>>
        ELSE LET saved == Saved(r.hash, doc)
             IN /\ board' = [board EXCEPT ![r.hash] = saved]
                /\ shown' = shown \ {rec.doc.tiles[k].uid : k \in closed \intersect OfType(rec.doc, "terminal")}
                /\ next' = next + 1
                /\ Step(h, [step |-> "publish", op |-> "put", saved |-> On(r.hash, saved), mine |-> TRUE,
                            closed |-> gone, uid |-> None, reply |-> Answer(r, TRUE, saved), gen |-> r.gen])
                /\ UNCHANGED <<proc, pins, tab, made, edits, lost>>

\* ForceAbandonedKills: no tile is left of a process whose end was asked.
Abandoned(uids) == {p \in uids : /\ IsLive(p) /\ proc[p].kill \in {"asked", "late"}
                                 /\ p \notin OnBoards}

Heard(t, saved, mine) ==
  IF mine \/ t.hash \notin DOMAIN saved THEN t
  ELSE IF saved[t.hash].ver > t.ver THEN Rebased(t, saved[t.hash].ver, saved[t.hash].doc) ELSE t

\* A later change of the board is heard before the answer of a save.
Ordered(h) == "overtake" \notin Windows =>
                \A k \in Busy \ {h} : req[k].op = "put" => req[k].step \notin {"publish", "reply"}

\* publishTiles after the commit, with the pins as they are by then, and
\* forceAbandoned.
Publish(h) ==
  LET r == req[h]
  IN /\ r.step = "publish" /\ Ordered(h)
     /\ tab' = Heard(tab, r.saved, r.mine)
     /\ pins' = IF r.saved = <<>> THEN pins ELSE {PinsOf(Docs, Nodes)}
     /\ proc' = [p \in Procs |-> IF p \in Abandoned(r.closed) THEN [proc[p] EXCEPT !.kill = "forced"] ELSE proc[p]]
     /\ CASE r.op = "put" -> Step(h, r.reply)
          [] r.op # "put" /\ r.mine -> Step(h, [step |-> "reply", op |-> r.op, reply |-> r.reply, gen |-> r.gen])
          [] r.op = "purge" /\ ~r.mine -> Step(h, [step |-> "purged", op |-> r.op, uid |-> r.uid])
          [] OTHER -> End(h)
     /\ UNCHANGED <<board, shown, next, made, edits, lost>>

\* The answer of a PUT.
Confirmed(t, r) ==
  IF r.ok THEN [t EXCEPT !.ver = IF @ < r.ver THEN r.ver ELSE @,
                         !.pend = Drop(@, r.sent)]
  ELSE IF r.ver > t.ver THEN Rebased(t, r.ver, r.doc) ELSE t

AnyGap(t, r) ==                                                    \* mutant
  LET e == [do |-> "server", id |-> r.id, arg |-> r.tile, n |-> 0]
  IN IF r.ver <= t.ver THEN t
     ELSE [t EXCEPT !.doc = Applied(@, e), !.ver = r.ver]

\* applyServerTile: the tile in the answer of exec or openVideoTile, put on
\* the board the tab shows, by its version only.
WithTile(t, r) ==
  LET e == [do |-> "server", id |-> r.id, arg |-> r.tile, n |-> 0]
  IN IF r.ver <= t.ver THEN t
     ELSE IF r.ver = t.ver + 1 /\ t.pend = <<>> /\ ~InFlight
     THEN [t EXCEPT !.doc = Applied(@, e), !.ver = r.ver]
     ELSE [t EXCEPT !.doc = Applied(@, e), !.pend = Append(@, e)]

\* save drops what was sent before a load, openVideoTile what names another
\* board; start, execFile and adopt of an exec look at neither.
Takes(t, r) == /\ r.op = "put" => r.gen = t.gen
               /\ r.op = "video" => r.reply.hash = t.hash

Reply(h) ==
  LET r == req[h]
  IN /\ r.step = "reply"
     /\ tab' = IF ~Takes(tab, r) THEN tab
               ELSE IF r.op = "put" THEN Confirmed(tab, r) ELSE WithTile(tab, r.reply)
     /\ End(h)
     /\ UNCHANGED <<board, proc, pins, shown, next, made, edits, lost>>

\* The answer of a PUT is lost, or a transaction fails: a process whose tile
\* was not stored is killed, unless that fails too.
Lose(h) ==
  /\ lost < MaxLost /\ lost' = lost + 1
  /\ req[h] # Idle /\ <<req[h].step, req[h].op>> \in {<<"reply", "put">>, <<"ask", "exec">>}
  /\ End(h)
  /\ \E killed \in BOOLEAN :
       proc' = IF req[h].op = "exec" /\ killed
               THEN [proc EXCEPT ![req[h].uid].st = "ended"] ELSE proc
  /\ UNCHANGED <<board, pins, tab, shown, next, made, edits>>

\* load: the tab shows a board, as getTiles answers.
Load(g) ==
  /\ tab.gen < MaxLoad
  /\ "switch" \in Windows \/ \A h \in Busy : req[h].op # "exec"
  /\ g # tab.hash \/ tab.hash \notin DOMAIN board
  /\ g \in DOMAIN board
  /\ tab' = [hash |-> g, ver |-> board[g].ver, doc |-> board[g].doc, pend |-> <<>>, gen |-> tab.gen + 1]
  /\ UNCHANGED <<board, proc, req, pins, shown, next, made, edits, lost>>

-----------------------------------------------------------------------------
(* The processes.                                                          *)

Kill(p) ==                                       \* killProcess
  /\ IsLive(p) /\ proc[p].kill = "no"
  /\ proc' = [proc EXCEPT ![p].kill = IF p \in OnBoards THEN "asked" ELSE "late"]
  /\ UNCHANGED <<board, req, pins, tab, shown, next, made, edits, lost>>

Ends(p) ==
  /\ IsLive(p)
  /\ proc' = [proc EXCEPT ![p].st = "ended"]
  /\ UNCHANGED <<board, req, pins, tab, shown, next, made, edits, lost>>

\* A day after the end no request of before it still runs.
Expired(p) == /\ proc[p].st = "ended"
              /\ \A h \in Threads : req[h].step = "ask" => req[h].uid # p /\ p \notin req[h].procs

Serve(h) ==
  \/ AdoptOrphans(h) \/ AppendTerminalTile(h) \/ InsertTerminal(h)
  \/ BindTile(h) \/ BindProcessTile(h) \/ MoveWorkspaceTile(h) \/ DeleteWorkspace(h)
  \/ AttachSharedFolder(h) \/ OpenVideoTile(h) \/ PurgeTiles(h) \/ DeleteProcess(h)
  \/ PutTiles(h) \/ Publish(h) \/ Reply(h) \/ Lose(h)

Arrive(h) ==
  \/ Look(h) \/ Send(h)
  \/ \E p \in Procs, at \in Ids(tab.doc) : Exec(h, p, at)
  \/ \E p \in Procs : \/ Attach(h, p)
                      \/ proc[p].st \in {"live", "ended"} /\ Apart("exec") /\ Ask(h, "take", p)
                      \/ Expired(p) /\ Ask(h, "purge", p)
  \/ \E op \in {"bind", "move", "delete", "share"} : Ask(h, op, None)
  \/ \E v \in Videos : Ask(h, "video", v)
  \/ \E id \in Ids(tab.doc) : CreateWorkspace(h, id)

Next ==
  \/ \E h \in Threads : Arrive(h) \/ Serve(h)
  \/ \E do \in Edits, id \in Ids(tab.doc) : \E arg \in Args(do) : Edit(do, id, arg)
  \/ \E p \in Procs : Kill(p) \/ Ends(p)
  \/ \E g \in DOMAIN board : Load(g)

Spec == Init /\ [][Next]_vars

-----------------------------------------------------------------------------
(* Properties.                                                             *)

\* The state has the shape the actions give it.
TypeOK ==
  /\ Default \in DOMAIN board
  /\ \A p \in Procs : /\ proc[p].st \in {"none", "live", "ended", "gone"}
                      /\ proc[p].kill \in {"no", "asked", "late", "forced"}
  /\ shown \subseteq Procs
  /\ next \in Nat /\ made \in 0..MaxReq /\ edits \in 0..MaxEdit /\ lost \in 0..MaxLost

Tiles == UNION {{<<g, id>> : id \in Ids(board[g].doc)} : g \in DOMAIN board}
TileAt(c) == board[c[1]].doc.tiles[c[2]]

\* Every stored document is one validate accepts, and over all boards a
\* tile, a process, a folder uid, a video and the pin of a node are in one
\* place; a terminal's process is in the table.
BoardsAreSound ==
  /\ \A g \in DOMAIN board : IsValid(board[g].doc)
  /\ \A c, e \in Tiles : c # e =>
       /\ c[2] # e[2]
       /\ LET t == TileAt(c)
              u == TileAt(e)
          IN t.type = u.type =>
               /\ t.type \in {"terminal", "folder", "viewer"} => t.uid # u.uid
               /\ t.type = "folder" /\ t.node = u.node => ~(t.bound /\ u.bound)
  /\ \A p \in OnBoards : proc[p].st \in {"live", "ended"}

\* A terminal that was put on a board stays on one until the user closes it
\* or its process is purged, whatever saves, moves and deletions meet.
NothingLost == shown \subseteq OnBoards

Waiting(p) == \E h \in Threads : /\ req[h].step = "publish" /\ p \in req[h].closed

\* A process whose end was asked while a board had its terminal is ended by
\* force when the last one is closed.
AbandonedIsForced ==
  \A p \in Procs : IsLive(p) /\ proc[p].kill = "asked" => p \in OnBoards \/ Waiting(p)

Seen(d) == [root |-> d.root, order |-> d.order,
             tiles |-> [k \in Ids(d) |-> <<d.tiles[k].type, d.tiles[k].parent, d.tiles[k].node>>]]

\* When nothing is under way the tab shows the board as it is stored, at
\* its version, and the last map of pins told the account is the current.
BrowserAgrees ==
  (\A h \in Threads : req[h] = Idle) /\ tab.pend = <<>> =>
    /\ tab.hash \in DOMAIN board =>
         tab.ver = board[tab.hash].ver /\ Seen(tab.doc) = Seen(board[tab.hash].doc)
    /\ pins \subseteq {PinsOf(Docs, Nodes)}

\* tileTree.store.ts says of its generation: "answers to requests sent before
\* it are dropped".  It holds of a save; start, execFile and adopt do not ask.
LateAnswersDropped ==
  [][\A h \in Threads : req[h].step = "reply" /\ req[h].gen # tab.gen /\ req'[h] # req[h] => tab' = tab]_vars
=============================================================================
