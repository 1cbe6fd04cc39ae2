----------------------------- MODULE NodeAccess -----------------------------
(***************************************************************************)
(* The handlers of nodes, shares and runs: each request reads what it      *)
(* needs, writes and commits, and then runs its hooks, which bring the     *)
(* subscriptions of process topics and the lists the browsers have loaded  *)
(* up to date.  Every account is connected by one socket throughout.       *)
(***************************************************************************)
EXTENDS NodeTree

CONSTANTS Threads,    \* requests that run at a time
          Folders,    \* the folders of Init, a chain, with a script below
          Given,      \* permissions the owner gives
          MaxReq,     \* requests in a behaviour
          Windows     \* races allowed, see README

ASSUME NodeAccessAssumption ==
  Folders \in Nat /\ Folders + 1 <= MaxNode /\ Given \subseteq Perms

VARIABLES db,     \* the tables
          req,    \* [Threads -> the request a goroutine serves]
          subs,   \* <<u, p>>: the socket of u is subscribed to the topic of p
          cache,  \* [Users -> [list -> what the browser has loaded]]
          made    \* number of requests begun

vars == <<db, req, subs, cache, made>>

Idle == [step |-> "idle"]
At(step) == {h \in Threads : req[h].step = step}
May(u, n, min) == Exists(db, n) /\ NodePermission(db, u, n) >= min
MayPut(u, f) == f = Null \/ (May(u, f, Edit) /\ db.node[f].folder)

\* The lists a browser may have loaded: it loads what it can see.
Open(d, u) == {Null} \union {f \in NodeIds(d) : d.node[f].folder /\ NodePermission(d, u, f) > Block}
Loaded(d, u) == [f \in Open(d, u) |-> ListOf(d, u, f)]

\* A folder in a folder ... with a script at the bottom, shared somehow.
Init ==
  /\ \E o \in Users, at \in SUBSET ((1..Folders) \X Users) :
       /\ \A s \in at : s[2] # o
       /\ \E share \in [at -> Given], procs \in SUBSET Procs :
            db = [node |-> [n \in 1..Folders + 1 |->
                              [owner |-> o, parent |-> n - 1, folder |-> n <= Folders, of |-> n]],
                  share |-> share, pshare |-> <<>>, next |-> Folders + 2,
                  proc |-> [p \in procs |-> [owner |-> o, node |-> Folders + 1, live |-> TRUE]]]
  /\ req = [h \in Threads |-> Idle]
  /\ subs = {s \in Users \X Live(db) : ProcessPermission(db, s[1], s[2]) > Block}
  /\ cache = [u \in Users |-> Loaded(db, u)]
  /\ made = 0

-----------------------------------------------------------------------------
(* A request up to its commit: what it will write, the accounts and        *)
(* processes reconcileAccess will look at (users, uids), the nodes whose   *)
(* viewers will be told (judge), and those found already (told).           *)

NewRequest(u, what, n, to) ==
  [step |-> "write", user |-> u, what |-> what, node |-> n, id |-> n, to |-> to, owner |-> u,
   perm |-> Block, copies |-> <<>>, users |-> {}, uids |-> {}, judge |-> {}, told |-> {}]

Ready(h) ==
  /\ req[h] = Idle /\ made < MaxReq
  /\ "checks" \notin Windows => At("write") = {}

Begin(h, r) ==
  /\ req' = [req EXCEPT ![h] = r] /\ made' = made + 1
  /\ UNCHANGED <<db, subs, cache>>

JudgeIds(n, parents) == ({n} \union parents) \ {Null}
OwnerIn(u, f) == IF f = Null THEN u ELSE db.node[f].owner

\* Requests that make nodes are taken one at a time, so that ids are known.
Making == \E h \in At("write") : req[h].what \in {"folder", "script", "copy"}

AskCreate(h, u, f, what) ==
  /\ db.next <= MaxNode /\ MayPut(u, f) /\ ~Making
  /\ Begin(h, [NewRequest(u, what, db.next, f) EXCEPT
                 !.owner = OwnerIn(u, f), !.judge = JudgeIds(db.next, {f})])

\* collectCopy: what the requester sees of n and below, level by level.
Collected(u, n) ==
  LET row[k \in 0..MaxDepth] ==
        IF k = 0 THEN {<<n, NodePermission(db, u, n)>>}
        ELSE UNION {ListChildrenVisible(db, u, c[1], c[2]) : c \in row[k - 1]}
  IN {c[1] : c \in UNION Range(row)}

\* The id a copy of m gets when the nodes of ids are copied.
NewId(next, ids, m) == next + Cardinality({k \in ids : k < m})

AskCopy(h, u, n, f) ==
  /\ May(u, n, View) /\ MayPut(u, f) /\ ~Making
  /\ LET from == Collected(u, n)
         top == NewId(db.next, from, n)
     IN /\ db.next + Cardinality(from) <= MaxNode + 1
        /\ Begin(h, [NewRequest(u, "copy", n, f) EXCEPT
                       !.owner = OwnerIn(u, f), !.copies = Restrict(db.node, from), !.id = top,
                       !.judge = JudgeIds(top, {f})])

\* requireNoLowerShare
MayTake(u, n) ==
  /\ May(u, n, Edit)
  /\ NodePermission(db, u, n) = Owner \/ ~HasLowerShareBelow(db, u, n, Edit)

\* checkMove
MayMove(u, n, f) ==
  /\ MayTake(u, n)
  /\ IF f = Null THEN NodePermission(db, u, n) = Owner
     ELSE /\ MayPut(u, f)
          /\ db.node[f].owner = db.node[n].owner
          /\ ~IsDescendant(db, n, f)

\* Before the move, around the destination and after the move.
MoveUsers(n, f) ==
  ListShareUsersAround(db, n)
    \union (IF f = Null THEN {} ELSE ListShareUsersAround(db, f))
    \union ListShareUsersAround(PatchParent(db, n, f), n)

AskMove(h, u, n, f) ==
  /\ Exists(db, n) /\ Parent(db, n) # f
  /\ MayMove(u, n, f)
  /\ Begin(h, [NewRequest(u, "move", n, f) EXCEPT
                 !.users = MoveUsers(n, f), !.uids = ListLiveProcessesUnder(db, n),
                 !.judge = JudgeIds(n, {f, Parent(db, n)})])

Operators(ids) == {u \in Users : \E n \in ids : NodePermission(db, u, n) >= Operate}  \* mutant

\* nodeRecipients
Recipients(ids) == {u \in Users : \E n \in ids : NodePermission(db, u, n) > Block}

AskDelete(h, u, n) ==
  /\ MayTake(u, n)
  /\ Begin(h, [NewRequest(u, "delete", n, Parent(db, n)) EXCEPT
                 !.users = ListShareUsersAround(db, n), !.uids = ListLiveProcessesUnder(db, n),
                 !.told = Recipients(JudgeIds(n, {Parent(db, n)}))])

AskShare(h, u, n, v, perm) ==
  /\ May(u, n, Owner) /\ db.node[n].folder /\ v # u
  /\ Begin(h, [NewRequest(u, "share", n, v) EXCEPT
                 !.perm = perm, !.users = {v}, !.uids = ListLiveProcessesUnder(db, n)])

AskUnshare(h, u, n, v) ==
  /\ May(u, n, Owner) /\ <<n, v>> \in DOMAIN db.share
  /\ Begin(h, [NewRequest(u, "unshare", n, v) EXCEPT
                 !.users = {v}, !.uids = ListLiveProcessesUnder(db, n)])

AskShareProcess(h, u, p, v, perm) ==
  /\ p \in Live(db) /\ ProcessPermission(db, u, p) = Owner /\ v # u
  /\ Begin(h, [NewRequest(u, "pshare", p, v) EXCEPT !.perm = perm, !.users = {v}, !.uids = {p}])

AskUnshareProcess(h, u, p, v) ==
  /\ <<p, v>> \in DOMAIN db.pshare /\ ProcessPermission(db, u, p) = Owner
  /\ Begin(h, [NewRequest(u, "punshare", p, v) EXCEPT !.users = {v}, !.uids = {p}])

AskExec(h, u, n, p) ==
  /\ May(u, n, Operate) /\ ~db.node[n].folder /\ p \notin DOMAIN db.proc
  /\ Begin(h, [NewRequest(u, "exec", n, p) EXCEPT !.owner = db.node[n].owner])

Ask(h, u) ==
  /\ Ready(h)
  /\ \/ \E n \in NodeIds(db) :
          \/ AskDelete(h, u, n)
          \/ \E f \in NodeIds(db) \union {Null} : AskMove(h, u, n, f) \/ AskCopy(h, u, n, f)
          \/ \E v \in Users : AskUnshare(h, u, n, v) \/ \E perm \in Given : AskShare(h, u, n, v, perm)
          \/ \E p \in Procs : AskExec(h, u, n, p)
     \/ \E f \in NodeIds(db) \union {Null}, what \in {"folder", "script"} : AskCreate(h, u, f, what)
     \/ \E p \in DOMAIN db.proc, v \in Users :
          \/ AskUnshareProcess(h, u, p, v)
          \/ \E perm \in Given : AskShareProcess(h, u, p, v, perm)

-----------------------------------------------------------------------------
(* The write and the commit.                                               *)

\* insertCopy
InsertCopy(r) ==
  LET ids == DOMAIN r.copies
      id(m) == NewId(db.next, ids, m)
      source(i) == CHOOSE m \in ids : id(m) = i
      row(m) == [owner |-> r.owner, folder |-> r.copies[m].folder, of |-> m,
                 parent |-> IF m = r.node THEN r.to ELSE id(r.copies[m].parent)]
  IN [db EXCEPT !.next = @ + Cardinality(ids),
                !.node = [i \in NodeIds(db) \union {id(m) : m \in ids} |->
                            IF Exists(db, i) THEN @[i] ELSE row(source(i))]]

Written(r) ==
  CASE r.what \in {"folder", "script"} -> CreateNode(db, r.owner, r.to, r.what = "folder", r.node)
    [] r.what = "copy" -> InsertCopy(r)
    [] r.what = "move" -> PatchParent(db, r.node, r.to)
    [] r.what = "delete" -> DeleteNode(db, r.node)
    [] r.what = "share" -> UpsertNodeShare(db, r.node, r.to, r.perm)
    [] r.what = "unshare" -> DeleteNodeShare(db, r.node, r.to)
    [] r.what = "pshare" -> UpsertProcessShare(db, r.node, r.to, r.perm)
    [] r.what = "punshare" -> DeleteProcessShare(db, r.node, r.to)
    [] r.what = "exec" -> CreateProcess(db, r.to, r.node, r.owner)

\* A foreign key, or no row where the handler needs one: the request rolls back.
Fails(r) ==
  CASE r.what \in {"folder", "script", "copy"} -> r.to # Null /\ ~Exists(db, r.to)
    [] r.what = "move" -> ~Exists(db, r.node) \/ (r.to # Null /\ ~Exists(db, r.to))
    [] r.what = "share" -> ~Exists(db, r.node)
    [] r.what = "unshare" -> <<r.node, r.to>> \notin DOMAIN db.share
    [] r.what = "punshare" -> <<r.node, r.to>> \notin DOMAIN db.pshare
    [] OTHER -> FALSE

Hooks(what) ==
  CASE what \in {"folder", "script", "copy", "move", "delete"} -> "told"
    [] what = "exec" -> "viewers"
    [] OTHER -> "access"

Commit(h) ==
  /\ req[h].step = "write" /\ ~Fails(req[h])
  /\ "viewers" \in Windows \/ At("join") = {}
  /\ db' = Written(req[h])
  /\ req' = [req EXCEPT ![h].step = Hooks(req[h].what)]
  /\ UNCHANGED <<subs, cache, made>>

\* A request may also fail for a reason of its own: the connection, the context.
RollBack(h) ==
  /\ req[h].step = "write"
  /\ req' = [req EXCEPT ![h] = Idle]
  /\ UNCHANGED <<db, subs, cache, made>>

-----------------------------------------------------------------------------
(* The hooks.  A browser that is told of a node loads again the list of    *)
(* its parent and the lists that hold it; told of a share, all it shows.   *)

Reload(u, again) ==
  [f \in Open(db, u) |->
     IF f \in DOMAIN cache[u] /\ f \notin again THEN cache[u][f] ELSE ListOf(db, u, f)]
ListsWith(u, n) == {f \in DOMAIN cache[u] : \E e \in cache[u][f] : e[1] = n}

\* publishNode, and publishUsers of a delete
Tell(h) ==
  LET r == req[h]
      told == IF r.what = "delete" THEN r.told ELSE Recipients(r.judge)
  IN /\ r.step = "told"
     /\ cache' = [u \in Users |->
                     IF u \in told THEN Reload(u, {r.to} \union ListsWith(u, r.id)) ELSE cache[u]]
     /\ req' = [req EXCEPT ![h] = IF r.what \in {"move", "delete"} THEN [r EXCEPT !.step = "access"]
                                  ELSE Idle]
     /\ UNCHANGED <<db, subs, made>>

\* reconcileAccess
Access(h) ==
  LET r == req[h]
      seen == {s \in r.users \X r.uids : ProcessPermission(db, s[1], s[2]) > Block}
  IN /\ r.step = "access"
     /\ subs' = (subs \ (r.users \X r.uids)) \union seen
     /\ cache' = [u \in Users |-> IF u \in r.users THEN Loaded(db, u) ELSE cache[u]]
     /\ req' = [req EXCEPT ![h] = Idle]
     /\ UNCHANGED <<db, made>>

\* subscribeViewers reads, then subscribes.
ReadViewers(h) ==
  /\ req[h].step = "viewers"
  /\ "viewers" \in Windows \/ At("write") = {}
  /\ req' = [req EXCEPT ![h] = [step |-> "join", proc |-> @.to,
                                users |-> ListProcessViewers(db, @.to)]]
  /\ UNCHANGED <<db, subs, cache, made>>
Join(h) ==
  /\ req[h].step = "join"
  /\ subs' = subs \union (req[h].users \X {req[h].proc})
  /\ req' = [req EXCEPT ![h] = Idle]
  /\ UNCHANGED <<db, cache, made>>

\* A worker came back with the process, or reports its end.
Rebind(h, p) ==
  /\ req[h] = Idle /\ p \in Live(db)
  /\ made < MaxReq /\ made' = made + 1
  /\ req' = [req EXCEPT ![h] = [step |-> "viewers", to |-> p]]
  /\ UNCHANGED <<db, subs, cache>>
End(h, p) ==
  /\ req[h] = Idle /\ p \in Live(db)
  /\ made < MaxReq /\ made' = made + 1
  /\ db' = MarkProcessDone(db, p)
  /\ req' = [req EXCEPT ![h] = [step |-> "clean", to |-> p]]
  /\ UNCHANGED <<subs, cache>>
CleanupProcessTopic(h) ==
  /\ req[h].step = "clean"
  /\ subs' = subs \ (Users \X {req[h].to})
  /\ req' = [req EXCEPT ![h] = Idle]
  /\ UNCHANGED <<db, cache, made>>

Next ==
  \E h \in Threads :
    \/ \E u \in Users : Ask(h, u)
    \/ \E p \in Procs : Rebind(h, p) \/ End(h, p)
    \/ Commit(h) \/ RollBack(h) \/ Tell(h) \/ Access(h)
    \/ ReadViewers(h) \/ Join(h) \/ CleanupProcessTopic(h)

Spec == Init /\ [][Next]_vars

-----------------------------------------------------------------------------
(* Properties.                                                             *)

\* The tables reference rows that exist, and a subscription names a process: an invariant
\* of the model, which the statements above rely on.
TypeOK ==
  /\ \A n \in NodeIds(db) : db.node[n].parent \in NodeIds(db) \union {Null}
  /\ DOMAIN db.share \subseteq NodeIds(db) \X Users
  /\ DOMAIN db.pshare \subseteq (DOMAIN db.proc) \X Users
  /\ db.next \in 1..MaxNode + 1 /\ NodeIds(db) \subseteq 1..db.next - 1
  /\ subs \subseteq Users \X (DOMAIN db.proc)

\* The catalog stays a forest of folders, each tree with one owner: no move, copy or create
\* puts a folder below itself, a node under a script, or a node among another account's.
TreeIsSound ==
  \A n \in NodeIds(db) :
    LET f == Parent(db, n)
    IN /\ Down(db, n) \intersect (UpIds(db, n) \ {n}) = {}
       /\ n \notin UpIds(db, f)
       /\ f # Null => db.node[f].folder /\ db.node[f].owner = db.node[n].owner

Quiet == \A h \in Threads : req[h] = Idle

SharesOf(n) == {<<e[1], e[3]>> : e \in ListNodeShareEntries(db, n)}

\* The statements that go down the tree, or start from a share, find what the permission
\* of each node or process by itself says: nobody who has a right is left out of a list of
\* viewers, of shares or of accounts around, and nothing that is blocked is listed.
\* (Compared when no request is on its way: they depend on the tables alone.)
QueriesAgree == Quiet =>
  /\ \A p \in DOMAIN db.proc :
       /\ ListProcessViewers(db, p) = {u \in Users : ProcessPermission(db, u, p) > Block}
       /\ \A u \in Users \ {db.proc[p].owner} :
            ProcessPermission(db, u, p) > Block =>
              <<u, ProcessPermission(db, u, p)>> \in ListProcessShareEntries(db, p)
  /\ \A u \in Users, f \in NodeIds(db) :
       ListVisibleRunsInSubtree(db, u, f) \ VisibleRuns(db, u, {f}) =
         UNION {ListVisibleRunsInFolder(db, u, g) : g \in Down(db, f)}
  /\ \A n \in NodeIds(db), u \in Users :
       /\ db.node[n].owner # u /\ NodePermission(db, u, n) > Block =>
            <<u, NodePermission(db, u, n)>> \in SharesOf(n)
       /\ NodePermission(db, u, n) > Block =>
            \E f \in Open(db, u) : <<n, NodePermission(db, u, n)>> \in ListOf(db, u, f)
       /\ \A f \in Open(db, u) \ {Null} :
            ListOf(db, u, f) = {<<m, NodePermission(db, u, m)>> :
                                  m \in {c \in Children(db, f) : NodePermission(db, u, c) > Block}}
       /\ \A m \in Down(db, n) :
            db.node[n].owner # u /\ NodePermission(db, u, m) > Block => u \in ListShareUsersAround(db, n)

\* An account that does not own a node deletes or moves it only if it may edit all that
\* goes with it, and copies only what it sees.
RightsKept ==
  [][\A h \in Threads :
       req[h].step = "write" /\ req'[h].step \in {"told", "access"} =>
         LET r == req[h]
         IN /\ r.what \in {"delete", "move"} =>
                 \A m \in Down(db, r.node) : NodePermission(db, r.user, m) >= Edit
            /\ r.what = "copy" =>
                 \A m \in DOMAIN r.copies : NodePermission(db, r.user, m) > Block
            /\ r.what \in {"folder", "script", "copy", "move"} /\ r.to # Null =>
                 NodePermission(db, r.user, r.to) >= Edit]_vars

\* A request that has not run its hooks yet and will look at u and p.
Covered(u, p) ==
  \E h \in Threads :
    \/ req[h].step \in {"told", "access"} /\ u \in req[h].users /\ p \in req[h].uids
    \/ req[h].step = "viewers" /\ req[h].to = p /\ u \in ListProcessViewers(db, p)
    \/ req[h].step = "join" /\ req[h].proc = p /\ u \in req[h].users

\* A socket is subscribed to the output of exactly the live processes its account may
\* view, unless a request is about to put it right: a share taken away, a move or a
\* delete leaves nobody listening, a share given or a process started nobody deaf.
SubscribedAgrees ==
  \A u \in Users, p \in Live(db) :
    (<<u, p>> \in subs) = (ProcessPermission(db, u, p) > Block) \/ Covered(u, p)

\* When nothing is on its way, every list a browser holds is what it would be given now.
ListsAgree ==
  Quiet => \A u \in Users : \A f \in DOMAIN cache[u] \intersect Open(db, u) :
             cache[u][f] = ListOf(db, u, f)
=============================================================================
