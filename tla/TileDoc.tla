------------------------------ MODULE TileDoc ------------------------------
(***************************************************************************)
(* The document of a board: its tiles, who opened which, and their order   *)
(* on the screen.  A tile is a record                                      *)
(*   [type, parent, node, uid, at, bound]                                  *)
(* with parent the tile that opened it (None for the root), node the       *)
(* folder shown (None for the list of roots), uid the process of a         *)
(* terminal, the file of a viewer or the uid of a folder tile, at the time *)
(* a folder tile began to show its node and bound its pin.                 *)
(***************************************************************************)
EXTENDS Integers, FiniteSets, SequencesExt

None == 0

\* tileKinds.  A terminal holds a process; neither it nor a viewer opens tiles.
Kinds == {"folder", "device", "terminal", "viewer"}
CanParent(t) == t.type \in {"folder", "device"}
CanRoot(t) == t.type \in {"folder", "device"}
Tile(type, node, uid) ==
  [type |-> type, parent |-> None, node |-> node, uid |-> uid, at |-> None, bound |-> FALSE]

Ids(d) == DOMAIN d.tiles
Place(d, id) == CHOOSE i \in DOMAIN d.order : d.order[i] = id
\* DeleteFunc: the sequence without some of its elements.
Drop(s, gone) ==
  LET rest[n \in 0 .. Len(s)] ==
        IF n = 0 THEN <<>> ELSE IF s[n] \in gone THEN rest[n - 1] ELSE Append(rest[n - 1], s[n])
  IN rest[Len(s)]

OfType(d, type) == {id \in Ids(d) : d.tiles[id].type = type}
TerminalOf(d, uid) == {id \in OfType(d, "terminal") : d.tiles[id].uid = uid}
TerminalUIDs(d) == {d.tiles[id].uid : id \in OfType(d, "terminal")}
FolderTiles(d) == {id \in OfType(d, "folder") : d.tiles[id].node # None}

\* The tile and all that it opened, however deep: what is in every set that
\* has the tile and, with a tile, those it opened.
HasOpened(d, S) == \A c \in Ids(d) : d.tiles[c].parent \in S => c \in S
Subtree(d, id) ==
  {k \in Ids(d) : \A S \in SUBSET Ids(d) : id \in S /\ HasOpened(d, S) => k \in S}

NewDoc(id) == [root |-> id, order |-> <<id>>, tiles |-> [k \in {id} |-> Tile("folder", None, None)]]

IsValid(d) ==
  /\ d.root \in Ids(d) /\ d.tiles[d.root].parent = None /\ CanRoot(d.tiles[d.root])
  /\ Len(d.order) = Cardinality(Ids(d)) /\ ToSet(d.order) = Ids(d) /\ Head(d.order) = d.root
  /\ \A id \in Ids(d) \ {d.root} :
       LET p == d.tiles[id].parent IN p \in Ids(d) /\ CanParent(d.tiles[p])
  /\ Subtree(d, d.root) = Ids(d)                     \* no cycle of parents

-----------------------------------------------------------------------------
(* How a document changes.                                                 *)

Add(d, order, ids, tile(_)) ==
  [d EXCEPT !.order = order,
            !.tiles = [k \in Ids(d) \union ids |-> IF k \in ids THEN tile(k) ELSE d.tiles[k]]]

Keep(d, ids) == [d EXCEPT !.order = Drop(@, Ids(d) \ ids), !.tiles = [k \in ids |-> d.tiles[k]]]

After(order, id) == IF Contains(order, id)
                    THEN CHOOSE i \in 1..Len(order) + 1 : i > 1 /\ order[i - 1] = id
                    ELSE Len(order) + 1

\* openTile: right after the tile that opens it, or after the root.
OpenTile(d, opener, id, t) ==
  LET o == IF opener \in Ids(d) /\ CanParent(d.tiles[opener]) THEN opener ELSE d.root
  IN Add(d, InsertAt(d.order, After(d.order, o), id), {id}, LAMBDA k : [t EXCEPT !.parent = o])

\* remove: what it opened goes one level up.
RemoveTile(d, id) ==
  LET up == [d EXCEPT !.tiles = [k \in Ids(d) |-> IF d.tiles[k].parent = id
                                                  THEN [d.tiles[k] EXCEPT !.parent = d.tiles[id].parent]
                                                  ELSE d.tiles[k]]]
  IN Keep(up, Ids(d) \ {id})

\* placeAfter: ids right after a tile, or last when there is no such tile.
PlaceAfter(d, after, ids) ==
  LET i == After(d.order, IF after = None THEN d.root ELSE after) - 1
  IN SubSeq(d.order, 1, i) \o ids \o SubSeq(d.order, i + 1, Len(d.order))

MoveAfter(d, id, after) ==
  LET rest == [d EXCEPT !.order = Drop(@, {id})]
  IN [d EXCEPT !.order = PlaceAfter(rest, after, <<id>>)]

OrphanTile(d, id) == Keep(d, Ids(d) \ {id})          \* mutant
\* takeOpened leaves the rest, putOpened puts the group on another board.
TakeOpened(d, id) == Keep(d, Ids(d) \ Subtree(d, id))
PutOpened(d, after, from, id) ==
  LET group == Subtree(from, id)
      root(t) == IF t.parent \in group THEN t ELSE [t EXCEPT !.parent = d.root]
  IN Add(d, PlaceAfter(d, after, Drop(from.order, Ids(from) \ group)), group,
         LAMBDA k : root(from.tiles[k]))

\* detachFolder: the document of the new board.
Detached(d, id) ==
  LET group == Subtree(d, id)
  IN [root |-> id, order |-> <<id>> \o Drop(d.order, (Ids(d) \ group) \union {id}),
      tiles |-> [k \in group |-> IF k = id THEN [d.tiles[k] EXCEPT !.parent = None] ELSE d.tiles[k]]]

\* marshal: a folder tile gets its uid and its time.
Marshal(d, now) ==
  [d EXCEPT !.tiles = [k \in Ids(d) |->
     IF d.tiles[k].type = "folder"
     THEN [d.tiles[k] EXCEPT !.uid = IF @ = None THEN k ELSE @, !.at = IF @ = None THEN now ELSE @]
     ELSE d.tiles[k]]]

\* keepFolderMeta: these fields are the server's, whatever the browser sends.
KeepFolderMeta(d, stored) ==
  LET meta(k, t) ==
        IF t.type # "folder" THEN [t EXCEPT !.at = None, !.bound = FALSE]
        ELSE IF k \notin OfType(stored, "folder")
        THEN [t EXCEPT !.uid = None, !.at = None, !.bound = FALSE]
        ELSE LET s == stored.tiles[k]
                 same == s.node = t.node
             IN [t EXCEPT !.uid = s.uid, !.at = IF same THEN s.at ELSE None,
                          !.bound = same /\ s.bound]
  IN [d EXCEPT !.tiles = [k \in Ids(d) |-> meta(k, d.tiles[k])]]

-----------------------------------------------------------------------------
(* Which folder tile receives terminals.  docs is a function from boards,  *)
(* numbered in the order of their rows, to documents.                      *)

FoldersOf(docs, node) ==
  UNION {{<<h, id>> : id \in {k \in FolderTiles(docs[h]) : docs[h].tiles[k].node = node}} :
           h \in DOMAIN docs}

BetterBinding(t, best) == \/ t.bound /\ ~best.bound
                          \/ t.bound = best.bound /\ t.at < best.at

\* The first seen of the best, if S has any.
Receiver(docs, S) ==
  LET t(c) == docs[c[1]].tiles[c[2]]
      first(c, e) == \/ c[1] < e[1]
                     \/ c[1] = e[1] /\ Place(docs[c[1]], c[2]) <= Place(docs[e[1]], e[2])
  IN {c \in S : \A e \in S : IF first(c, e) THEN ~BetterBinding(t(e), t(c))
                                          ELSE BetterBinding(t(c), t(e))}

\* bindingTile: on the nearest of the folders that has a tile; {} if none.
BindingTile(docs, folders) ==
  LET have == {i \in DOMAIN folders : FoldersOf(docs, folders[i]) # {}}
      near == CHOOSE i \in have : \A j \in have : i <= j
  IN IF have = {} THEN {} ELSE Receiver(docs, FoldersOf(docs, folders[near]))

\* pinsOf: the receiver of every node that several tiles show.
PinsOf(docs, nodes) ==
  [n \in {n \in nodes : Cardinality(FoldersOf(docs, n)) > 1} |-> Receiver(docs, FoldersOf(docs, n))]
=============================================================================
