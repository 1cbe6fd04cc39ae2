------------------------------ MODULE NodeTree ------------------------------
(***************************************************************************)
(* The tables nodes, node_shares, process_shares and processes, and the    *)
(* statements on them: who may do what with a folder, a script or a        *)
(* process, and whom a change concerns.  A table is a function from its    *)
(* keys to its rows; `db' is the four of them and the next id of nodes.    *)
(* Ids grow and are never used again.  A recursive query is a function on  *)
(* its depth.                                                              *)
(***************************************************************************)
EXTENDS Integers, FiniteSets, FiniteSetsExt, Functions

CONSTANTS Users,      \* accounts
          Procs,      \* uids of processes
          MaxNode,    \* ids of nodes are 1..MaxNode
          MaxDepth    \* where a recursive query stops: 64 in the code

ASSUME NodeTreeAssumption == MaxNode \in Nat /\ MaxDepth \in Nat /\ MaxDepth >= MaxNode - 1

Null == 0
Block == 0
View == 10
Operate == 20
Edit == 30
Owner == 40
Perms == {Block, View, Operate, Edit}

\* A table with one more row, or with one put in the place of another.
Put(f, key, row) == [k \in (DOMAIN f) \union {key} |-> IF k = key THEN row ELSE f[k]]

NodeIds(db) == DOMAIN db.node
Exists(db, n) == n \in NodeIds(db)
Parent(db, n) == IF Exists(db, n) THEN db.node[n].parent ELSE Null
Children(db, n) == {m \in NodeIds(db) : db.node[m].parent = n}

\* The row of depth k of WITH RECURSIVE chain: the node, its parent, ...
Up(db, n) ==
  LET row[k \in 0..MaxDepth] ==
        IF k > 0 THEN Parent(db, row[k - 1]) ELSE IF Exists(db, n) THEN n ELSE Null
  IN row
UpIds(db, n) == Range(Up(db, n)) \ {Null}

\* WITH RECURSIVE sub: the node and all below it.
Down(db, n) ==
  LET row[k \in 0..MaxDepth] ==
        IF k = 0 THEN {n} ELSE UNION {Children(db, m) : m \in row[k - 1]}
  IN UNION Range(row)

SharedOn(db, ns) == {s[2] : s \in {r \in DOMAIN db.share : r[1] \in ns}}

NearestNodeShare(db, u, n) ==
  LET up == Up(db, n)
      hit == {k \in 0..MaxDepth : <<up[k], u>> \in DOMAIN db.share}
  IN IF hit = {} THEN Null ELSE up[Min(hit)]

NodePermission(db, u, n) ==
  LET src == NearestNodeShare(db, u, n)
  IN IF Exists(db, n) /\ db.node[n].owner = u THEN Owner
     ELSE IF src = Null THEN Block ELSE db.share[<<src, u>>]

ProcessPermission(db, u, p) ==
  IF db.proc[p].owner = u THEN Owner
  ELSE IF <<p, u>> \in DOMAIN db.pshare THEN db.pshare[<<p, u>>]
  ELSE NodePermission(db, u, db.proc[p].node)

Live(db) == {p \in DOMAIN db.proc : db.proc[p].live}

-----------------------------------------------------------------------------
(* Mutants of the statements below.                                        *)
FromParent(db, u, f, parentPerm) == {<<n, parentPerm>> : n \in Children(db, f)}
BlockedBelow(db, u, n, min) ==
  \E m \in UNION {Down(db, c) : c \in Children(db, n)} :
    <<m, u>> \in DOMAIN db.share /\ db.share[<<m, u>>] = Block
SharedAbove(db, n) == SharedOn(db, UpIds(db, n))
OnlyItself(db, ancestor, n) == ancestor = n

-----------------------------------------------------------------------------
(* What an account is shown.                                               *)

\* One level below a folder for which the caller has found parentPerm.
ListChildrenVisible(db, u, f, parentPerm) ==
  LET perm(n) == IF parentPerm = Owner THEN Owner
                 ELSE IF <<n, u>> \in DOMAIN db.share THEN db.share[<<n, u>>] ELSE parentPerm
  IN {<<n, perm(n)>> : n \in {m \in Children(db, f) : perm(m) > Block}}

ListSharedRoots(db, u) ==
  {<<n, NodePermission(db, u, n)>> : n \in
     {m \in NodeIds(db) : /\ <<m, u>> \in DOMAIN db.share
                          /\ db.node[m].folder /\ db.node[m].owner # u
                          /\ NodePermission(db, u, m) > Block
                          /\ NodePermission(db, u, Parent(db, m)) = Block}}

OwnRoots(db, u) == {<<n, Owner>> : n \in {m \in Children(db, Null) : db.node[m].owner = u}}

\* GET /nodes: the roots, or the children of a folder the account may view.
ListOf(db, u, f) ==
  IF f = Null THEN OwnRoots(db, u) \union ListSharedRoots(db, u)
  ELSE IF NodePermission(db, u, f) = Block THEN {}
  ELSE ListChildrenVisible(db, u, f, NodePermission(db, u, f))

ListVisibleLiveProcesses(db, u) == {p \in Live(db) : ProcessPermission(db, u, p) > Block}

ListProcessViewers(db, p) ==
  LET cand == {db.proc[p].owner} \union {s[2] : s \in {r \in DOMAIN db.pshare : r[1] = p}}
              \union SharedOn(db, UpIds(db, db.proc[p].node))
  IN {u \in cand : ProcessPermission(db, u, p) > Block}

\* Live runs of the scripts in a folder; of all below it; Null: of every script there is.
VisibleRuns(db, u, ns) == {p \in ListVisibleLiveProcesses(db, u) : db.proc[p].node \in ns}
ListVisibleRunsInFolder(db, u, f) == VisibleRuns(db, u, Children(db, f))
ListVisibleRunsInSubtree(db, u, f) ==
  VisibleRuns(db, u, IF f = Null THEN NodeIds(db) ELSE Down(db, f))

\* The shares in effect on a node, each with the node it comes from.
ListNodeShareEntries(db, n) ==
  {<<u, NearestNodeShare(db, u, n), db.share[<<NearestNodeShare(db, u, n), u>>]>> :
     u \in SharedOn(db, UpIds(db, n)) \ {db.node[n].owner}}

ListProcessShareEntries(db, p) ==
  {<<u, ProcessPermission(db, u, p)>> : u \in
     ({s[2] : s \in {r \in DOMAIN db.pshare : r[1] = p}}
        \union SharedOn(db, UpIds(db, db.proc[p].node))) \ {db.proc[p].owner}}

-----------------------------------------------------------------------------
(* Whom a change of a node concerns, and what forbids it.                  *)

ListLiveProcessesUnder(db, n) == {p \in Live(db) : db.proc[p].node \in Down(db, n)}

ListShareUsersAround(db, n) ==
  SharedOn(db, UpIds(db, n) \union Down(db, n))
    \union {s[2] : s \in {r \in DOMAIN db.pshare : r[1] \in ListLiveProcessesUnder(db, n)}}

HasLowerShareBelow(db, u, n, min) ==
  \E m \in UNION {Down(db, c) : c \in Children(db, n)} :
    <<m, u>> \in DOMAIN db.share /\ db.share[<<m, u>>] < min

IsDescendant(db, ancestor, n) == ancestor \in UpIds(db, n)

-----------------------------------------------------------------------------
(* Statements that write.                                                  *)

\* CreateFolder, CreateScript; `of' is the node a copy was made of.
CreateNode(db, owner, parent, folder, of) ==
  [db EXCEPT !.next = @ + 1,
             !.node = Put(@, db.next, [owner |-> owner, parent |-> parent,
                                       folder |-> folder, of |-> of])]

\* PatchNode with set_parent.
PatchParent(db, n, parent) ==
  IF Exists(db, n) THEN [db EXCEPT !.node[n].parent = parent] ELSE db

\* DeleteNode: the rows below and their shares go by ON DELETE CASCADE.
DeleteNode(db, n) ==
  LET gone == Down(db, n)
  IN [db EXCEPT !.node = Restrict(@, DOMAIN @ \ gone),
                !.share = Restrict(@, {r \in DOMAIN @ : r[1] \notin gone})]

UpsertNodeShare(db, n, u, perm) == [db EXCEPT !.share = Put(@, <<n, u>>, perm)]
DeleteNodeShare(db, n, u) == [db EXCEPT !.share = Restrict(@, DOMAIN @ \ {<<n, u>>})]
UpsertProcessShare(db, p, u, perm) == [db EXCEPT !.pshare = Put(@, <<p, u>>, perm)]
DeleteProcessShare(db, p, u) == [db EXCEPT !.pshare = Restrict(@, DOMAIN @ \ {<<p, u>>})]

CreateProcess(db, p, n, owner) ==
  [db EXCEPT !.proc = Put(@, p, [owner |-> owner, node |-> n, live |-> TRUE])]
MarkProcessDone(db, p) == [db EXCEPT !.proc[p].live = FALSE]
=============================================================================
