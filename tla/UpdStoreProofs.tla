--------------------------- MODULE UpdStoreProofs ---------------------------
(* What holds of the store of update bundles: in every window its types    *)
(* and that an upload is stored whole; where some windows are shut, the    *)
(* uses of a build, that rows and folders agree, and what a lock promises  *)
(* (README names the windows).  Base is the invariant the others rest on:  *)
(* what each request knows of the rows it is after, and that two never     *)
(* hold the same.                                                          *)
EXTENDS UpdStore, TLAPS

\* A function of its domain: what the provers need to know of a record.
Rec(r, fields) == DOMAIN r = fields /\ r = [x \in fields |-> r[x]]

IsFile(f) == Rec(f, {"body", "mode"})
IsFiles(fs) == Rec(fs, DOMAIN fs) /\ \A p \in DOMAIN fs : IsFile(fs[p])
IsBundle(row) ==
  /\ Rec(row, {"id", "files", "uses", "sha"})
  /\ row.id \in Nat \ {0} /\ IsFiles(row.files) /\ row.sha = FolderSha(row.files)

RowSteps == {"wait", "hold", "written"}
RowFields == {"step", "what", "ref", "id", "path", "body", "mode", "locked", "excl", "share", "to"}
CopyFields == {"step", "what", "ref", "to", "id", "excl", "share", "read", "files"}
ShaFields == {"step", "ref", "id", "sha", "excl", "share"}
ReadFields == ShaFields \union {"files", "commons"}
RunFields == {"step", "ref", "id", "sha", "files", "commons", "sig"}

IsRow(r) ==
  /\ Rec(r, RowFields) /\ r.step \in RowSteps
  /\ r.what \in {"save", "remove", "mode", "lock"}
  /\ r.what # "lock" => r.path \in {"data", "steps"}
IsCopy(r) == Rec(r, CopyFields) /\ r.step = "copied" /\ r.what = "bundle" /\ r.excl = {}
IsHook(r) == Rec(r, {"step", "ref"}) /\ r.step = "hook"
IsSha(r) == Rec(r, ShaFields) /\ r.step = "sha" /\ r.excl = {}
IsRead(r) == Rec(r, ReadFields) /\ r.step = "files" /\ r.excl = {}
IsRun(r) == Rec(r, RunFields) /\ r.step = "run"
IsRequest(r) ==
  r = Idle \/ IsRow(r) \/ IsCopy(r) \/ IsHook(r) \/ IsSha(r) \/ IsRead(r) \/ IsRun(r)

Tables ==
  /\ Rec(db, {"bundle", "lock", "next", "ok"})
  /\ Rec(db.bundle, DOMAIN db.bundle)
  /\ \A ref \in DOMAIN db.bundle : IsBundle(db.bundle[ref])
  /\ db.next \in Nat \ {0}

-----------------------------------------------------------------------------
\* What taking its row changes in a request.
Taken(r, q, s, e, sh, t) ==
  /\ IsRow(q) /\ q.step = s /\ q.excl = e /\ q.share = sh /\ q.to = t
  /\ q.what = r.what /\ q.ref = r.ref /\ q.id = r.id /\ q.path = r.path
  /\ q.body = r.body /\ q.mode = r.mode /\ q.locked = r.locked

LEMMA TakenRow ==
  ASSUME NEW r, IsRow(r), NEW s \in RowSteps, NEW e, NEW sh, NEW t
  PROVE  /\ Taken(r, [r EXCEPT !.step = s, !.excl = e, !.share = sh, !.to = t], s, e, sh, t)
         /\ Taken(r, [r EXCEPT !.step = s, !.excl = e, !.to = t, !.share = sh], s, e, sh, t)
         /\ Taken(r, [r EXCEPT !.step = s], s, r.excl, r.share, r.to)
  <1>1. Taken(r, [r EXCEPT !.step = s, !.excl = e, !.share = sh, !.to = t], s, e, sh, t)
    BY DEF IsRow, RowSteps, Rec, RowFields, Taken
  <1>2. Taken(r, [r EXCEPT !.step = s, !.excl = e, !.to = t, !.share = sh], s, e, sh, t)
    BY DEF IsRow, RowSteps, Rec, RowFields, Taken
  <1>3. Taken(r, [r EXCEPT !.step = s], s, r.excl, r.share, r.to)
    BY DEF IsRow, RowSteps, Rec, RowFields, Taken
  <1> QED  BY <1>1, <1>2, <1>3

\* A request's step tells its fields.
LEMMA Kinds ==
  ASSUME NEW r, IsRequest(r)
  PROVE  /\ r.step \in RowSteps <=> IsRow(r)
         /\ r.step = "idle" <=> r = Idle
         /\ r.step = "copied" <=> IsCopy(r)
         /\ r.step = "hook" <=> IsHook(r)
         /\ r.step = "sha" <=> IsSha(r)
         /\ r.step = "files" <=> IsRead(r)
         /\ r.step = "run" <=> IsRun(r)
  BY DEF IsRequest, IsRow, IsCopy, IsHook, IsSha, IsRead, IsRun, Idle, RowSteps

\* What a save, a removal and a mode do to contents and to the names in steps.
LEMMA BodiesPut ==
  ASSUME NEW f, NEW p, NEW b
  PROVE  BodiesOf(Save(f, p, b)) = With(BodiesOf(f), p, b)
  BY DEF BodiesOf, Save, With

LEMMA BodiesCut ==
  ASSUME NEW f, NEW p
  PROVE  BodiesOf(Without(f, p)) = Without(BodiesOf(f), p)
  BY DEF BodiesOf, Without, Restrict

LEMMA BodiesMode ==
  ASSUME NEW f, IsFiles(f), NEW p \in DOMAIN f, NEW m
  PROVE  /\ IsFiles(Chmod(f, p, m))
         /\ DOMAIN Chmod(f, p, m) = DOMAIN f
         /\ \A q \in DOMAIN f : Chmod(f, p, m)[q].body = f[q].body
         /\ BodiesOf(Chmod(f, p, m)) = BodiesOf(f)
  BY DEF Chmod, BodiesOf, IsFiles, IsFile, Rec

LEMMA FilesPut ==
  ASSUME NEW f, IsFiles(f), NEW p, NEW b
  PROVE  IsFiles(Save(f, p, b))
  BY DEF IsFiles, IsFile, Rec, Save, With

LEMMA FilesCut ==
  ASSUME NEW f, IsFiles(f), NEW p
  PROVE  IsFiles(Without(f, p))
  BY DEF IsFiles, IsFile, Rec, Without, Restrict

LEMMA NamedPut ==
  ASSUME NEW f, NEW b
  PROVE  /\ Named(Save(f, "data", b)) = Named(f)
         /\ Named(Save(f, "steps", b)) = b
  BY DEF Named, Save, With

LEMMA NamedCut ==
  ASSUME NEW f
  PROVE  /\ Named(Without(f, "data")) = Named(f)
         /\ Named(Without(f, "steps")) = {}
  BY DEF Named, Without, Restrict

LEMMA NamedMode ==
  ASSUME NEW f, IsFiles(f), NEW p \in DOMAIN f, NEW m
  PROVE  Named(Chmod(f, p, m)) = Named(f)
  BY BodiesMode DEF Named

-----------------------------------------------------------------------------
(* What holds of every request and of every two of them.                   *)

IdSteps == RowSteps \union {"copied", "sha", "files", "run"}
Subject(r) == IF r.step = "copied" THEN r.to ELSE r.ref

OneId ==
  /\ \A ref \in DOMAIN db.bundle : IdOf(db, ref) < db.next
  /\ \A r1, r2 \in DOMAIN db.bundle : IdOf(db, r1) = IdOf(db, r2) => r1 = r2

\* update_uses refers to commons there are, by its foreign key; where *copy*
\* is shut, to those that the steps name.
NoCopy == "copy" \notin Windows
NamesOf(d, row) ==
  /\ row.uses \subseteq {IdOf(d, c) : c \in DOMAIN d.bundle}
  /\ NoCopy => /\ Named(row.files) \subseteq DOMAIN d.bundle
               /\ row.uses = {IdOf(d, c) : c \in Named(row.files)}
Names == \A ref \in DOMAIN db.bundle : NamesOf(db, db.bundle[ref])

KnowsId(d, r) ==
  /\ r.id \in Nat /\ r.id < d.next
  /\ \A ref \in DOMAIN d.bundle : IdOf(d, ref) = r.id => ref = Subject(r)

HasRow(d, r) ==
  /\ r.ref \in DOMAIN d.bundle /\ IdOf(d, r.ref) = r.id /\ r.excl = {r.id}
  /\ r.step = "hold" => r.what \in {"save", "remove"}
  /\ r.what # "lock" =>
       /\ IsBundle(r.to) /\ r.to.id = r.id /\ NamesOf(d, r.to)
       /\ r.to.uses \subseteq r.share \/ r.to.uses = d.bundle[r.ref].uses

\* A bundle being made: its source stays as it is where *copy* is shut.
CopyKnows(d, r) ==
  /\ r.ref \notin DOMAIN d.bundle /\ IsFiles(r.files)
  /\ NoCopy =>
       /\ r.id # 0 => r.to \in DOMAIN d.bundle /\ IdOf(d, r.to) = r.id /\ r.id \in r.share
       /\ r.read => r.files = IF r.id = 0 THEN Empty ELSE d.bundle[r.to].files

Alone(d, r) ==
  /\ IsRequest(r)
  /\ r.step \in IdSteps => KnowsId(d, r)
  /\ r.step \in {"hold", "written"} => HasRow(d, r)
  /\ r.step = "copied" => CopyKnows(d, r)

Apart(r, s) ==
  /\ r.step \in Holding /\ s.step \in Holding => r.excl \intersect (s.excl \union s.share) = {}
  /\ r.step = "copied" /\ s.step = "copied" => r.ref # s.ref

Base ==
  /\ Rec(req, Threads)
  /\ Tables /\ OneId /\ Names
  /\ \A h \in Threads : Alone(db, req[h])
  /\ \A h \in Threads : \A k \in Threads \ {h} : Apart(req[h], req[k])

\* Base after a step of one request, from what the step left of the rows.
LEMMA BaseStep ==
  ASSUME Base, NEW h \in Threads, NEW r, req' = [req EXCEPT ![h] = r],
         Tables', OneId', Names', Alone(db', r),
         \A k \in Threads \ {h} : Alone(db', req[k]) /\ Apart(r, req[k]) /\ Apart(req[k], r)
  PROVE  Base'
  <1>1. Rec(req', Threads) /\ req'[h] = r /\ \A k \in Threads \ {h} : req'[k] = req[k]
    BY DEF Base, Rec
  <1>2. \A k \in Threads : Alone(db', req'[k])
    BY <1>1
  <1>3. \A k \in Threads : \A l \in Threads \ {k} : Apart(req'[k], req'[l])
    BY <1>1 DEF Base
  <1> QED  BY <1>1, <1>2, <1>3 DEF Base

LEMMA BaseSame ==
  ASSUME Base, UNCHANGED <<db, req>>
  PROVE  Base'
  BY DEF Base, Tables, OneId, Names, NamesOf

LEMMA BaseRequest ==
  ASSUME Base, NEW h \in Threads, NEW r, req' = [req EXCEPT ![h] = r], UNCHANGED db,
         Alone(db, r), \A k \in Threads \ {h} : Apart(r, req[k]) /\ Apart(req[k], r)
  PROVE  Base'
  <1>1. Tables' /\ OneId' /\ Names'
    BY DEF Base, Tables, OneId, Names, NamesOf
  <1> QED  BY <1>1, BaseStep DEF Base

LEMMA IdleIsAlone ==
  ASSUME NEW d, NEW r
  PROVE  Alone(d, Idle) /\ Apart(Idle, r) /\ Apart(r, Idle)
  BY DEF Alone, Apart, Idle, IsRequest, IdSteps, RowSteps, Holding

LEMMA BaseEnd ==
  ASSUME Base, NEW h \in Threads, End(h), UNCHANGED db
  PROVE  Base'
  BY IdleIsAlone, BaseRequest DEF End, Step

LEMMA BaseAsked ==
  ASSUME Base, NEW h \in Threads, NEW ref \in DOMAIN db.bundle,
         NEW what \in {"save", "remove", "mode", "lock"}, NEW path, NEW body, NEW mode,
         what # "lock" => path \in {"data", "steps"},
         req' = [req EXCEPT ![h] = RowRequest(ref, what, path, body, mode)], UNCHANGED db
  PROVE  Base'
  <1> DEFINE r == RowRequest(ref, what, path, body, mode)
  <1>1. IsRow(r) /\ r.step = "wait" /\ r.id = IdOf(db, ref) /\ r.ref = ref
    BY DEF RowRequest, IsRow, Rec, RowFields, RowSteps
  <1>2. KnowsId(db, r)
    BY <1>1 DEF KnowsId, Subject, Base, OneId, Tables, IsBundle, IdOf
  <1>3. Alone(db, r)
    BY <1>1, <1>2 DEF Alone, IsRequest
  <1>4. \A k \in Threads : Apart(r, req[k]) /\ Apart(req[k], r)
    BY <1>1 DEF Apart, Holding
  <1> QED  BY <1>3, <1>4, BaseRequest

-----------------------------------------------------------------------------
LEMMA FilesChanged ==
  ASSUME NEW d, NEW row, IsBundle(row), NEW f, IsFiles(f)
  PROVE  LET x == Refreshed([row EXCEPT !.files = f])
             y == Refreshed(SaveUses(d, [row EXCEPT !.files = f]))
         IN /\ IsBundle(x) /\ x.id = row.id /\ x.files = f /\ x.uses = row.uses
            /\ IsBundle(y) /\ y.id = row.id /\ y.files = f
            /\ y.uses = {IdOf(d, c) : c \in Named(f)}
  BY DEF Refreshed, SaveUses, IsBundle, Rec, FolderSha

\* What a request that may change a row makes of it.
LEMMA ChangedRow ==
  ASSUME Tables, Names, NEW r, IsRow(r), ~Gone(r), r.what # "lock", Possible(r)
  PROVE  LET to == Changed(r)
             row == db.bundle[r.ref]
         IN /\ IsBundle(to) /\ to.id = r.id /\ NamesOf(db, to)
            /\ to.uses \subseteq Inserted(r, to) \/ to.uses = row.uses
            /\ r.what \in {"save", "remove", "mode"}
            /\ r.what = "save" => to.files = Save(row.files, r.path, r.body)
            /\ r.what = "remove" => to.files = Without(row.files, r.path)
            /\ r.what = "mode" => BodiesOf(to.files) = BodiesOf(row.files)
  <1> DEFINE row == db.bundle[r.ref]
  <1> DEFINE old == row.files
  <1> DEFINE f == FilesAfter(r)
  <1>1. /\ IsBundle(row) /\ row.id = r.id /\ IsFiles(old)
        /\ NamesOf(db, row) /\ r.path \in {"data", "steps"}
        /\ r.what \in {"save", "remove", "mode"}
    BY DEF Gone, Tables, IsBundle, IsRow, Names, IdOf
  <1>2. /\ IsFiles(f)
        /\ r.path = "data" \/ r.what = "mode" => Named(f) = Named(old)
        /\ r.path = "steps" /\ r.what = "save" => Named(f) = r.body
        /\ r.path = "steps" /\ r.what = "remove" => Named(f) = {}
        /\ r.what = "save" => f = Save(old, r.path, r.body)
        /\ r.what = "remove" => f = Without(old, r.path)
        /\ r.what = "mode" => BodiesOf(f) = BodiesOf(old)
    <2>1. CASE r.what = "save"
      <3>1. f = Save(old, r.path, r.body)
        BY <2>1 DEF FilesAfter
      <3> HIDE DEF f, old
      <3> QED  BY <1>1, <2>1, <3>1, FilesPut, NamedPut
    <2>2. CASE r.what = "remove"
      <3>1. f = Without(old, r.path)
        BY <2>2 DEF FilesAfter
      <3> HIDE DEF f, old
      <3> QED  BY <1>1, <2>2, <3>1, FilesCut, NamedCut
    <2>3. CASE r.what = "mode"
      <3>1. f = Chmod(old, r.path, r.mode) /\ r.path \in DOMAIN old
        BY <2>3 DEF FilesAfter, Possible
      <3> HIDE DEF f, old
      <3> QED  BY <1>1, <2>3, <3>1, BodiesMode, NamedMode
    <2> QED  BY <1>1, <2>1, <2>2, <2>3
  <1>3. CASE r.path = "steps" /\ r.what # "mode"
    <2>1. Changed(r) = Refreshed(SaveUses(db, [row EXCEPT !.files = f]))
      BY <1>3 DEF Changed
    <2> HIDE DEF f, row
    <2>2. /\ IsBundle(Changed(r)) /\ Changed(r).id = row.id /\ Changed(r).files = f
          /\ Changed(r).uses = {IdOf(db, c) : c \in Named(f)}
      BY <1>1, <1>2, <2>1, FilesChanged
    <2>3. Named(f) \subseteq DOMAIN db.bundle
      BY <1>1, <1>2, <1>3 DEF Possible
    <2>4. Changed(r).uses \subseteq Inserted(r, Changed(r))
      <3>1. CASE r.what = "save"
        BY <1>3, <3>1 DEF Inserted
      <3>2. CASE r.what = "remove"
        BY <1>2, <1>3, <2>2, <3>2
      <3> QED  BY <1>1, <1>3, <3>1, <3>2
    <2> QED  BY <1>1, <1>2, <1>3, <2>2, <2>3, <2>4 DEF NamesOf, row
  <1>4. CASE r.path = "data" \/ r.what = "mode"
    <2>1. Changed(r) = Refreshed([row EXCEPT !.files = f])
      BY <1>4 DEF Changed
    <2> HIDE DEF f, row
    <2>2. /\ IsBundle(Changed(r)) /\ Changed(r).id = row.id /\ Changed(r).files = f
          /\ Changed(r).uses = row.uses
      BY <1>1, <1>2, <2>1, FilesChanged
    <2> QED  BY <1>1, <1>2, <1>4, <2>2 DEF NamesOf, row
  <1> QED  BY <1>1, <1>3, <1>4

-----------------------------------------------------------------------------
LEMMA KeepsAlone ==
  ASSUME NEW d, NEW e, NEW r, Alone(d, r), e.bundle = d.bundle, e.next = d.next
  PROVE  Alone(e, r)
  BY DEF Alone, KnowsId, HasRow, CopyKnows, NamesOf, IdOf

LEMMA BaseEndSame ==
  ASSUME Base, NEW h \in Threads, End(h), Tables', db'.bundle = db.bundle, db'.next = db.next
  PROVE  Base'
  <1>1. OneId' /\ Names'
    BY DEF Base, OneId, Names, NamesOf, IdOf
  <1>2. \A k \in Threads : Alone(db', req[k])
    BY KeepsAlone DEF Base
  <1> QED  BY <1>1, <1>2, IdleIsAlone, BaseStep DEF End, Step

\* The steps that take a row, a build's lock and the folder.
LEMMA TakesRow ==
  ASSUME Base, NEW h \in Threads, TakeRow(h)
  PROVE  LET r == req[h]
             q == req'[h]
             s == IF r.what = "mode" THEN "written" ELSE "hold"
         IN /\ Alone(db, r) /\ IsRow(r) /\ r.step = "wait" /\ KnowsId(db, r)
            /\ r.what \in {"save", "remove", "mode"} /\ ~Gone(r) /\ ~r.locked /\ Possible(r)
            /\ Free(h, r.id) /\ Sharable(h, Inserted(r, q.to))
            /\ req' = [req EXCEPT ![h] = q] /\ UNCHANGED <<db, disk, upload>>
            /\ Taken(r, q, s, {r.id}, Inserted(r, q.to), Changed(r))
  <1> DEFINE r == req[h]
  <1> DEFINE to == Changed(r)
  <1> DEFINE s == IF r.what = "mode" THEN "written" ELSE "hold"
  <1> DEFINE q == [r EXCEPT !.step = s, !.excl = {r.id}, !.share = Inserted(r, to), !.to = to]
  <1>1. /\ Alone(db, r) /\ IsRow(r) /\ r.step = "wait" /\ KnowsId(db, r)
        /\ r.what \in {"save", "remove", "mode"}
    BY Kinds DEF Base, Alone, TakeRow, RowSteps, IdSteps, IsRow
  <1>2. ~Gone(r) /\ ~r.locked /\ Possible(r)
    BY DEF TakeRow, Accepted
  <1>3. Taken(r, q, s, {r.id}, Inserted(r, to), to)
    <2> HIDE DEF r, to
    <2> QED  BY <1>1, TakenRow DEF RowSteps
  <1>4. /\ req' = [req EXCEPT ![h] = q] /\ UNCHANGED <<db, disk, upload>>
        /\ Free(h, r.id) /\ Sharable(h, Inserted(r, to))
    BY DEF TakeRow, Step
  <1> HIDE DEF q, to, s
  <1>5. req'[h] = q
    BY <1>4 DEF Base, Rec
  <1> QED  BY <1>1, <1>2, <1>3, <1>4, <1>5 DEF Taken, to, s

LEMMA TakesLock ==
  ASSUME Base, NEW h \in Threads, TakeLock(h)
  PROVE  LET r == req[h]
             q == req'[h]
             uses == db.bundle[r.ref].uses
         IN /\ Alone(db, r) /\ IsRow(r) /\ r.step = "wait" /\ KnowsId(db, r)
            /\ r.what = "lock" /\ ~Gone(r) /\ ~r.locked /\ IsLockable(db, r.ref)
            /\ Free(h, r.id) /\ Sharable(h, q.share)
            /\ "commons" \in Windows \/ (Sharable(h, uses) /\ q.share = uses)
            /\ "wait" \in Windows \/ \A k \in At({"wait"}) : req[k].id \notin uses
            /\ req' = [req EXCEPT ![h] = q] /\ UNCHANGED <<db, disk, upload>>
            /\ Taken(r, q, "written", {r.id}, q.share, LockRows(db, r.ref))
  <1> DEFINE r == req[h]
  <1> DEFINE uses == db.bundle[r.ref].uses
  <1> DEFINE sh == IF Sharable(h, uses) THEN uses ELSE {}
  <1> DEFINE to == LockRows(db, r.ref)
  <1> DEFINE q == [r EXCEPT !.step = "written", !.excl = {r.id}, !.to = to, !.share = sh]
  <1>1. /\ Alone(db, r) /\ IsRow(r) /\ r.step = "wait" /\ KnowsId(db, r) /\ r.what = "lock"
    BY Kinds DEF Base, Alone, TakeLock, RowSteps, IdSteps
  <1>2. ~Gone(r) /\ ~r.locked /\ IsLockable(db, r.ref)
    BY <1>1 DEF TakeLock, Accepted
  <1>3. Taken(r, q, "written", {r.id}, sh, to)
    <2> HIDE DEF r, to, sh
    <2> QED  BY <1>1, TakenRow DEF RowSteps
  <1>4. /\ req' = [req EXCEPT ![h] = q] /\ UNCHANGED <<db, disk, upload>>
        /\ Free(h, r.id) /\ Sharable(h, sh)
        /\ "commons" \in Windows \/ (Sharable(h, uses) /\ sh = uses)
        /\ "wait" \in Windows \/ \A k \in At({"wait"}) : req[k].id \notin uses
    BY DEF TakeLock, Step, Sharable
  <1> HIDE DEF q, to, sh
  <1>5. req'[h] = q
    BY <1>4 DEF Base, Rec
  <1> QED  BY <1>1, <1>2, <1>3, <1>4, <1>5 DEF Taken, to

LEMMA WritesDisk ==
  ASSUME Base, NEW h \in Threads, WriteDisk(h)
  PROVE  LET r == req[h]
             q == req'[h]
         IN /\ Alone(db, r) /\ IsRow(r) /\ r.step = "hold" /\ KnowsId(db, r) /\ HasRow(db, r)
            /\ req' = [req EXCEPT ![h] = q] /\ UNCHANGED <<db, upload>>
            /\ Taken(r, q, "written", r.excl, r.share, r.to)
  <1> DEFINE r == req[h]
  <1> DEFINE q == [r EXCEPT !.step = "written"]
  <1>1. Alone(db, r) /\ IsRow(r) /\ r.step = "hold" /\ KnowsId(db, r) /\ HasRow(db, r)
    BY Kinds DEF Base, Alone, WriteDisk, RowSteps, IdSteps
  <1>2. Taken(r, q, "written", r.excl, r.share, r.to)
    <2> HIDE DEF r
    <2> QED  BY <1>1, TakenRow DEF RowSteps
  <1>3. req' = [req EXCEPT ![h] = q] /\ UNCHANGED <<db, upload>>
    BY DEF WriteDisk, Step
  <1> HIDE DEF q
  <1>4. req'[h] = q
    BY <1>3 DEF Base, Rec
  <1> QED  BY <1>1, <1>2, <1>3, <1>4

LEMMA BaseTakeRow ==
  ASSUME Base, NEW h \in Threads, TakeRow(h)
  PROVE  Base'
  <1> DEFINE r == req[h]
  <1> DEFINE q == req'[h]
  <1>1. /\ KnowsId(db, r) /\ IsRow(r) /\ ~Gone(r) /\ Possible(r)
        /\ r.what \in {"save", "remove", "mode"} /\ Free(h, r.id) /\ Sharable(h, q.share)
        /\ req' = [req EXCEPT ![h] = q] /\ UNCHANGED db /\ IsRow(q) /\ q.step \in {"hold", "written"}
        /\ q.excl = {r.id} /\ q.share = Inserted(r, q.to) /\ q.to = Changed(r)
        /\ q.what = r.what /\ q.ref = r.ref /\ q.id = r.id
        /\ q.step = "hold" => q.what \in {"save", "remove"}
    BY TakesRow DEF Taken
  <1>2. /\ IsBundle(q.to) /\ q.to.id = r.id /\ NamesOf(db, q.to)
        /\ q.to.uses \subseteq q.share \/ q.to.uses = db.bundle[r.ref].uses
    BY <1>1, ChangedRow DEF Base
  <1> HIDE DEF r, q
  <1>3. HasRow(db, q)
    BY <1>1, <1>2 DEF HasRow, Gone
  <1>4. Alone(db, q)
    BY <1>1, <1>3 DEF IsRow, RowSteps, KnowsId, Subject, Alone, IsRequest
  <1>5. \A k \in Threads \ {h} : Apart(q, req[k]) /\ Apart(req[k], q)
    BY <1>1 DEF Apart, Free, Sharable, At
  <1> QED  BY <1>1, <1>4, <1>5, BaseRequest

LEMMA BaseTakeLock ==
  ASSUME Base, NEW h \in Threads, TakeLock(h)
  PROVE  Base'
  <1> DEFINE r == req[h]
  <1> DEFINE q == req'[h]
  <1>1. /\ KnowsId(db, r) /\ IsRow(r) /\ ~Gone(r) /\ r.what = "lock"
        /\ Free(h, r.id) /\ Sharable(h, q.share)
        /\ req' = [req EXCEPT ![h] = q] /\ UNCHANGED db /\ IsRow(q) /\ q.step = "written"
        /\ q.excl = {r.id} /\ q.what = r.what /\ q.ref = r.ref /\ q.id = r.id
    BY TakesLock DEF Taken
  <1> HIDE DEF r, q
  <1>2. HasRow(db, q)
    BY <1>1 DEF HasRow, Gone
  <1>3. Alone(db, q)
    BY <1>1, <1>2 DEF IsRow, RowSteps, KnowsId, Subject, Alone, IsRequest
  <1>4. \A k \in Threads \ {h} : Apart(q, req[k]) /\ Apart(req[k], q)
    BY <1>1 DEF Apart, Free, Sharable, At
  <1> QED  BY <1>1, <1>3, <1>4, BaseRequest

LEMMA BaseWriteDisk ==
  ASSUME Base, NEW h \in Threads, WriteDisk(h)
  PROVE  Base'
  <1> DEFINE r == req[h]
  <1> DEFINE q == req'[h]
  <1>1. /\ KnowsId(db, r) /\ HasRow(db, r) /\ r.step = "hold" /\ IsRow(r)
        /\ req' = [req EXCEPT ![h] = q] /\ UNCHANGED db
        /\ Taken(r, q, "written", r.excl, r.share, r.to)
    BY WritesDisk
  <1> HIDE DEF q
  <1>2. HasRow(db, q)
    BY <1>1 DEF HasRow, Taken
  <1>3. Alone(db, q)
    BY <1>1, <1>2 DEF IsRow, RowSteps, KnowsId, Subject, Alone, IsRequest, Taken
  <1>4. \A k \in Threads \ {h} : Apart(q, req[k]) /\ Apart(req[k], q)
    BY <1>1 DEF Base, Apart, Holding, Taken
  <1> QED  BY <1>1, <1>3, <1>4, BaseRequest

LEMMA BaseCommitRow ==
  ASSUME Base, NEW h \in Threads, CommitRow(h)
  PROVE  Base'
  <1> DEFINE r == req[h]
  <1> DEFINE ref == r.ref
  <1> DEFINE to == r.to
  <1>1. /\ Alone(db, r) /\ r.step = "written" /\ HasRow(db, r) /\ Tables
        /\ End(h)
    BY DEF Base, Alone, CommitRow
  <1>2. CASE r.what = "lock"
    <2>1. db' = [db EXCEPT !.lock = @ \union to]
      BY <1>2 DEF CommitRow
    <2>2. Tables' /\ db'.bundle = db.bundle /\ db'.next = db.next
      BY <1>1, <2>1 DEF Tables, Rec
    <2> QED  BY <1>1, <2>2, BaseEndSame
  <1>3. CASE r.what # "lock"
    <2>1. db' = [db EXCEPT !.bundle[ref] = to]
      BY <1>3 DEF CommitRow
    <2>2. /\ ref \in DOMAIN db.bundle /\ IdOf(db, ref) = to.id /\ to.id = r.id
          /\ IsBundle(to) /\ NamesOf(db, to) /\ r.excl = {r.id}
      BY <1>1, <1>3 DEF HasRow
    <2> HIDE DEF r, ref, to
    <2>3. /\ DOMAIN db'.bundle = DOMAIN db.bundle /\ db'.bundle[ref] = to
          /\ \A x \in DOMAIN db.bundle \ {ref} : db'.bundle[x] = db.bundle[x]
          /\ Rec(db', {"bundle", "lock", "next", "ok"}) /\ Rec(db'.bundle, DOMAIN db'.bundle)
          /\ db'.next = db.next
      BY <1>1, <2>1, <2>2 DEF Tables, Rec
    <2>4. \A x \in DOMAIN db.bundle : IdOf(db', x) = IdOf(db, x)
      BY <2>2, <2>3 DEF IdOf
    <2>5. \A row : NamesOf(db, row) => NamesOf(db', row)
      BY <2>3, <2>4 DEF NamesOf
    <2>6. Tables' /\ OneId'
      BY <1>1, <2>2, <2>3, <2>4 DEF Tables, OneId, Base
    <2>7. Names'
      <3>1. \A x \in DOMAIN db'.bundle : NamesOf(db', db'.bundle[x])
        BY <2>2, <2>3, <2>5 DEF Base, Names
      <3> QED  BY <3>1 DEF Names
    <2>8. \A k \in Threads \ {h} : Alone(db', req[k])
      <3> SUFFICES ASSUME NEW k \in Threads \ {h} PROVE Alone(db', req[k])
        OBVIOUS
      <3>1. Alone(db, req[k]) /\ Apart(r, req[k])
        BY DEF Base, r
      <3>2. req[k].step \in IdSteps => KnowsId(db', req[k])
        BY <2>3, <2>4, <3>1 DEF Alone, KnowsId
      <3>3. ASSUME req[k].step \in {"hold", "written"} PROVE HasRow(db', req[k])
        <4>1. HasRow(db, req[k]) /\ req[k].ref # ref
          BY <1>1, <2>2, <3>1, <3>3 DEF Alone, Apart, HasRow, Holding, r
        <4> QED  BY <2>3, <2>4, <2>5, <4>1 DEF HasRow
      <3>4. ASSUME req[k].step = "copied" PROVE CopyKnows(db', req[k])
        <4>1. CopyKnows(db, req[k])
          BY <3>1, <3>4 DEF Alone
        <4>2. r.id \notin req[k].share
          BY <1>1, <2>2, <3>1, <3>4 DEF Apart, Holding, r
        <4>3. NoCopy /\ req[k].id # 0 => req[k].to # ref
          BY <2>2, <4>1, <4>2 DEF CopyKnows
        <4> QED  BY <2>3, <2>4, <4>1, <4>3 DEF CopyKnows
      <3> QED  BY <3>1, <3>2, <3>3, <3>4 DEF Alone
    <2> QED  BY <1>1, <2>6, <2>7, <2>8, IdleIsAlone, BaseStep DEF End, Step
  <1> QED  BY <1>2, <1>3

LEMMA BaseAskDelete ==
  ASSUME Base, NEW h \in Threads, NEW ref, AskDelete(h, ref)
  PROVE  Base'
  <1> DEFINE q == [step |-> "hook", ref |-> ref]
  <1> DEFINE id == IdOf(db, ref)
  <1>1. /\ ref \in DOMAIN db.bundle /\ Free(h, id) /\ UsedBy(db, id) = {}
        /\ db' = DeleteBundle(db, ref) /\ req' = [req EXCEPT ![h] = q] /\ Tables
    BY DEF AskDelete, Begin, Base
  <1>2. /\ DOMAIN db'.bundle = DOMAIN db.bundle \ {ref}
        /\ \A x \in DOMAIN db.bundle \ {ref} : db'.bundle[x] = db.bundle[x]
        /\ Rec(db', {"bundle", "lock", "next", "ok"}) /\ Rec(db'.bundle, DOMAIN db'.bundle)
        /\ db'.next = db.next
    <2> DEFINE b == Without(db.bundle, ref)
    <2> DEFINE l == LocksLeft(db.lock, id)
    <2> DEFINE o == {x \in db.ok : x.id # id}
    <2>1. db' = [db EXCEPT !.bundle = b, !.lock = l, !.ok = o]
      BY <1>1 DEF DeleteBundle
    <2>2. /\ DOMAIN b = DOMAIN db.bundle \ {ref} /\ Rec(b, DOMAIN b)
          /\ \A x \in DOMAIN b : b[x] = db.bundle[x]
      BY DEF Without, Restrict, Rec
    <2> HIDE DEF b, l, o
    <2>3. Rec(db', {"bundle", "lock", "next", "ok"}) /\ db'.bundle = b /\ db'.next = db.next
      BY <1>1, <2>1 DEF Tables, Rec
    <2> QED  BY <2>2, <2>3
  <1>3. \A x \in DOMAIN db'.bundle : IdOf(db', x) = IdOf(db, x) /\ IdOf(db, x) # id
    BY <1>1, <1>2 DEF IdOf, Base, OneId
  <1>4. \A row : NamesOf(db, row) /\ id \notin row.uses => NamesOf(db', row)
    <2> SUFFICES ASSUME NEW row, NamesOf(db, row), id \notin row.uses PROVE NamesOf(db', row)
      OBVIOUS
    <2>1. NoCopy => ref \notin Named(row.files)
      BY DEF NamesOf
    <2>2. row.uses \subseteq {IdOf(db', c) : c \in DOMAIN db'.bundle}
      BY <1>2, <1>3 DEF NamesOf
    <2> QED  BY <1>2, <1>3, <2>1, <2>2 DEF NamesOf
  <1>5. \A x \in DOMAIN db.bundle : id \notin db.bundle[x].uses
    BY <1>1 DEF UsedBy
  <1>6. Tables' /\ OneId'
    BY <1>1, <1>2, <1>3 DEF Tables, OneId, Base
  <1>7. Names'
    <2>1. \A x \in DOMAIN db'.bundle : NamesOf(db', db'.bundle[x])
      BY <1>2, <1>4, <1>5 DEF Base, Names
    <2> QED  BY <2>1 DEF Names
  <1>8. \A k \in Threads \ {h} : Alone(db', req[k])
    <2> SUFFICES ASSUME NEW k \in Threads \ {h} PROVE Alone(db', req[k])
      OBVIOUS
    <2>1. Alone(db, req[k])
      BY DEF Base
    <2>2. req[k].step \in IdSteps => KnowsId(db', req[k])
      BY <1>2, <1>3, <2>1 DEF Alone, KnowsId
    <2>3. ASSUME req[k].step \in {"hold", "written"} PROVE HasRow(db', req[k])
      <3>1. HasRow(db, req[k]) /\ id \notin req[k].excl /\ id \notin req[k].share
        BY <1>1, <2>1, <2>3 DEF Alone, Free, At, Holding
      <3>2. req[k].ref # ref
        BY <3>1 DEF HasRow
      <3>3. req[k].what # "lock" => id \notin req[k].to.uses
        BY <1>5, <3>1 DEF HasRow
      <3> QED  BY <1>2, <1>3, <1>4, <3>1, <3>2, <3>3 DEF HasRow
    <2>4. ASSUME req[k].step = "copied" PROVE CopyKnows(db', req[k])
      <3>1. CopyKnows(db, req[k]) /\ id \notin req[k].share
        BY <1>1, <2>1, <2>4 DEF Alone, Free, At, Holding
      <3> QED  BY <1>2, <1>3, <3>1 DEF CopyKnows
    <2> QED  BY <2>1, <2>2, <2>3, <2>4 DEF Alone
  <1>9. /\ Alone(db', q)
        /\ \A k \in Threads : Apart(q, req[k]) /\ Apart(req[k], q)
    <2>1. IsHook(q)
      BY DEF IsHook, Rec
    <2> QED  BY <2>1 DEF Alone, Apart, IsRequest, IdSteps, RowSteps, Holding
  <1> QED  BY <1>1, <1>6, <1>7, <1>8, <1>9, BaseStep

LEMMA BaseCommitBundle ==
  ASSUME Base, NEW h \in Threads, CommitBundle(h)
  PROVE  Base'
  <1> DEFINE r == req[h]
  <1> DEFINE ref == r.ref
  <1> DEFINE files == r.files
  <1> DEFINE uses == SourceUses(r)
  <1> DEFINE row == NewRow(files, uses)
  <1>1. /\ Alone(db, r) /\ r.step = "copied" /\ KnowsId(db, r) /\ Tables /\ OneId
        /\ CopyKnows(db, r) /\ r.read /\ ref \notin DOMAIN db.bundle /\ End(h)
        /\ db' = [db EXCEPT !.bundle = With(@, ref, row), !.next = @ + 1]
    BY DEF Base, Alone, CommitBundle, CopyKnows, IdSteps
  <1>2. IsBundle(row) /\ NamesOf(db, row) /\ row.id = db.next
    <2>1. IsFiles(files) /\ NamesOf(db, [files |-> files, uses |-> uses])
      <3>1. CASE RefWith(db, r.id) = {}
        <4>1. uses = {} /\ (NoCopy => r.id = 0)
          BY <1>1, <3>1 DEF SourceUses, CopyKnows, RefWith
        <4>2. NoCopy => files = Empty /\ Named(Empty) = {}
          BY <1>1, <4>1 DEF CopyKnows, Empty, Named
        <4> QED  BY <1>1, <4>1, <4>2 DEF CopyKnows, NamesOf
      <3>2. CASE RefWith(db, r.id) # {}
        <4>1. r.to \in DOMAIN db.bundle /\ IdOf(db, r.to) = r.id
          BY <1>1, <3>2 DEF KnowsId, RefWith, Subject
        <4>2. uses = db.bundle[r.to].uses /\ NamesOf(db, db.bundle[r.to]) /\ r.id # 0
          BY <1>1, <3>2, <4>1 DEF SourceUses, Base, Names, Tables, IsBundle, IdOf
        <4>3. NoCopy => files = db.bundle[r.to].files
          BY <1>1, <4>2 DEF CopyKnows
        <4> HIDE DEF files, uses, r
        <4> QED  BY <1>1, <4>2, <4>3 DEF CopyKnows, NamesOf, files
      <3> QED  BY <3>1, <3>2
    <2> HIDE DEF files, uses
    <2> QED  BY <1>1, <2>1 DEF NewRow, IsBundle, Rec, NamesOf, Tables, FolderSha
  <1> HIDE DEF row, ref
  <1>3. /\ DOMAIN db'.bundle = DOMAIN db.bundle \union {ref} /\ db'.bundle[ref] = row
        /\ \A x \in DOMAIN db.bundle : db'.bundle[x] = db.bundle[x]
        /\ Rec(db', {"bundle", "lock", "next", "ok"}) /\ Rec(db'.bundle, DOMAIN db'.bundle)
        /\ db'.next = db.next + 1 /\ db.next \in Nat \ {0}
    <2> DEFINE b == With(db.bundle, ref, row)
    <2>1. db' = [db EXCEPT !.bundle = b, !.next = db.next + 1]
      BY <1>1
    <2>2. /\ DOMAIN b = DOMAIN db.bundle \union {ref} /\ Rec(b, DOMAIN b) /\ b[ref] = row
          /\ \A x \in DOMAIN db.bundle : x # ref => b[x] = db.bundle[x]
      BY DEF With, Rec
    <2> HIDE DEF b
    <2>3. Rec(db', {"bundle", "lock", "next", "ok"}) /\ db'.bundle = b /\ db'.next = db.next + 1
      BY <1>1, <2>1 DEF Tables, Rec
    <2> QED  BY <1>1, <2>2, <2>3 DEF Tables
  <1>4. /\ \A x \in DOMAIN db.bundle : IdOf(db', x) = IdOf(db, x) /\ IdOf(db, x) \in Nat
        /\ IdOf(db', ref) = db.next
    BY <1>1, <1>2, <1>3 DEF IdOf, Tables, IsBundle
  <1>5. \A x : NamesOf(db, x) => NamesOf(db', x)
    BY <1>3, <1>4 DEF NamesOf
  <1>6. Tables' /\ OneId'
    <2>1. Tables'
      BY <1>1, <1>2, <1>3 DEF Tables
    <2>2. OneId'
      BY <1>1, <1>3, <1>4 DEF OneId
    <2> QED  BY <2>1, <2>2
  <1>7. Names'
    <2>1. \A x \in DOMAIN db'.bundle : NamesOf(db', db'.bundle[x])
      BY <1>2, <1>3, <1>5 DEF Base, Names
    <2> QED  BY <2>1 DEF Names
  <1>8. \A k \in Threads \ {h} : Alone(db', req[k])
    <2> SUFFICES ASSUME NEW k \in Threads \ {h} PROVE Alone(db', req[k])
      OBVIOUS
    <2>1. Alone(db, req[k]) /\ Apart(r, req[k])
      BY DEF Base
    <2>2. req[k].step \in IdSteps => KnowsId(db', req[k])
      BY <1>3, <1>4, <2>1 DEF Alone, KnowsId
    <2>3. req[k].step \in {"hold", "written"} => HasRow(db', req[k])
      BY <1>1, <1>3, <1>4, <1>5, <2>1 DEF Alone, HasRow
    <2>4. req[k].step = "copied" => CopyKnows(db', req[k])
      BY <1>1, <1>3, <1>4, <2>1 DEF Alone, Apart, CopyKnows, ref
    <2> QED  BY <2>1, <2>2, <2>3, <2>4 DEF Alone
  <1> QED  BY <1>1, <1>6, <1>7, <1>8, IdleIsAlone, BaseStep DEF End, Step

LEMMA CopiesFiles ==
  ASSUME Base, NEW h \in Threads, CopyFiles(h)
  PROVE  LET r == req[h]
             q == req'[h]
         IN /\ Alone(db, r) /\ IsCopy(r) /\ KnowsId(db, r) /\ CopyKnows(db, r)
            /\ req' = [req EXCEPT ![h] = q] /\ UNCHANGED <<db, disk, upload>>
            /\ IsCopy(q) /\ q.files = SourceFiles(r) /\ q.ref = r.ref
            /\ q.id = r.id /\ q.to = r.to /\ q.share = r.share
  <1> DEFINE r == req[h]
  <1> DEFINE f == SourceFiles(r)
  <1> DEFINE q == [r EXCEPT !.read = TRUE, !.files = f]
  <1>1. /\ Alone(db, r) /\ IsCopy(r) /\ KnowsId(db, r) /\ CopyKnows(db, r)
        /\ req' = [req EXCEPT ![h] = q] /\ UNCHANGED <<db, disk, upload>>
    BY Kinds DEF Base, Alone, CopyFiles, Step, IdSteps
  <1> HIDE DEF r, f
  <1>2. /\ IsCopy(q) /\ q.files = f /\ q.ref = r.ref
        /\ q.id = r.id /\ q.to = r.to /\ q.share = r.share
    BY <1>1 DEF IsCopy, Rec, CopyFields
  <1> HIDE DEF q
  <1>3. req'[h] = q
    BY <1>1 DEF Base, Rec
  <1> QED  BY <1>1, <1>2, <1>3 DEF r, f

LEMMA BaseCopyFiles ==
  ASSUME Base, NEW h \in Threads, CopyFiles(h)
  PROVE  Base'
  <1> DEFINE r == req[h]
  <1> DEFINE q == req'[h]
  <1>1. /\ IsCopy(r) /\ KnowsId(db, r) /\ CopyKnows(db, r) /\ Tables
        /\ req' = [req EXCEPT ![h] = q] /\ UNCHANGED db
        /\ IsCopy(q) /\ q.files = SourceFiles(r) /\ q.ref = r.ref
        /\ q.id = r.id /\ q.to = r.to /\ q.share = r.share
    BY CopiesFiles DEF Base
  <1>2. \A k \in Threads \ {h} : Apart(r, req[k]) /\ Apart(req[k], r)
    BY DEF Base
  <1> HIDE DEF r, q
  <1>3. /\ r.id = 0 => RefWith(db, r.id) = {}
        /\ RefWith(db, r.id) # {} => r.to \in DOMAIN db.bundle
    BY <1>1 DEF IsCopy, KnowsId, Subject, RefWith, Tables, IsBundle, IdOf
  <1>4. IsFiles(SourceFiles(r))
    <2>1. IsFiles(Empty)
      BY DEF IsFiles, Empty, Rec
    <2> QED  BY <1>1, <1>3, <2>1 DEF SourceFiles, Tables, IsBundle
  <1>5. NoCopy => SourceFiles(r) = IF r.id = 0 THEN Empty ELSE db.bundle[r.to].files
    BY <1>1, <1>3 DEF SourceFiles, CopyKnows, RefWith
  <1>6. Alone(db, q)
    BY <1>1, <1>4, <1>5 DEF IsCopy, RowSteps, IdSteps, KnowsId, Subject, CopyKnows, Alone, IsRequest
  <1>7. \A k \in Threads \ {h} : Apart(q, req[k]) /\ Apart(req[k], q)
    BY <1>1, <1>2 DEF IsCopy, Apart, Holding
  <1> QED  BY <1>1, <1>6, <1>7, BaseRequest

LEMMA BaseAskBundle ==
  ASSUME Base, NEW h \in Threads, NEW ref, NEW from, AskBundle(h, ref, from)
  PROVE  Base'
  <1> DEFINE src == IF from = Null \/ "copy" \in Windows THEN {} ELSE {IdOf(db, from)}
  <1> DEFINE id == IF from = Null THEN 0 ELSE IdOf(db, from)
  <1> DEFINE q == [step |-> "copied", what |-> "bundle", ref |-> ref, to |-> from,
                   id |-> id, excl |-> {}, share |-> src,
                   read |-> from = Null, files |-> Empty]
  <1>1. /\ ref \notin DOMAIN db.bundle /\ \A k \in At({"copied"}) : req[k].ref # ref
        /\ from # Null => from \in DOMAIN db.bundle
        /\ Sharable(h, src) /\ req' = [req EXCEPT ![h] = q] /\ UNCHANGED db
    BY DEF AskBundle, Begin
  <1>2. /\ id \in Nat /\ id < db.next /\ \A x \in DOMAIN db.bundle : IdOf(db, x) = id => x = from
        /\ id = 0 <=> from = Null
        /\ NoCopy /\ id # 0 => from \in DOMAIN db.bundle /\ IdOf(db, from) = id /\ id \in src
    BY <1>1 DEF Base, Tables, OneId, IsBundle, IdOf, NoCopy
  <1> HIDE DEF src, id
  <1>3. /\ IsCopy(q) /\ q.excl = {} /\ q.ref = ref /\ q.share = src /\ q.id = id /\ q.to = from
        /\ q.files = Empty /\ (q.read <=> from = Null)
    BY DEF IsCopy, Rec, CopyFields
  <1> HIDE DEF q
  <1>4. Alone(db, q)
    <2>1. CopyKnows(db, q)
      BY <1>1, <1>2, <1>3 DEF CopyKnows, IsFiles, Empty, Rec
    <2> QED  BY <1>1, <1>2, <1>3, <2>1 DEF IsCopy, Alone, IsRequest, RowSteps, KnowsId, Subject
  <1>5. \A k \in Threads \ {h} : Apart(q, req[k]) /\ Apart(req[k], q)
    BY <1>1, <1>3 DEF Apart, Sharable, At
  <1> QED  BY <1>1, <1>4, <1>5, BaseRequest

LEMMA BaseAskDeploy ==
  ASSUME Base, NEW h \in Threads, NEW ref, AskDeploy(h, ref)
  PROVE  Base'
  <1> DEFINE read == {IdOf(db, ref)} \union db.bundle[ref].uses
  <1> DEFINE sh == IF "plan" \in Windows THEN {} ELSE read
  <1> DEFINE q == [step |-> "sha", ref |-> ref, id |-> IdOf(db, ref),
                   sha |-> db.bundle[ref].sha, excl |-> {}, share |-> sh]
  <1>1. ref \in DOMAIN db.bundle /\ Sharable(h, sh) /\ req' = [req EXCEPT ![h] = q] /\ UNCHANGED db
    BY DEF AskDeploy, Begin, Sharable
  <1> HIDE DEF read, sh
  <1>2. IsSha(q) /\ q.excl = {} /\ q.share = sh /\ q.ref = ref /\ q.id = IdOf(db, ref)
    BY DEF IsSha, Rec, ShaFields
  <1> HIDE DEF q
  <1>3. Alone(db, q)
    BY <1>1, <1>2 DEF IsSha, Alone, IsRequest, KnowsId, Subject, Base, Tables, OneId, IsBundle, IdOf
  <1>4. \A k \in Threads \ {h} : Apart(q, req[k]) /\ Apart(req[k], q)
    BY <1>1, <1>2 DEF IsSha, Apart, Sharable, At
  <1> QED  BY <1>1, <1>3, <1>4, BaseRequest

LEMMA BaseReadFiles ==
  ASSUME Base, NEW h \in Threads, ReadFiles(h)
  PROVE  Base'
  <1> DEFINE r == req[h]
  <1>1. CASE Gone(r)
    BY <1>1, BaseEnd DEF ReadFiles
  <1>2. CASE ~Gone(r)
    <2> DEFINE files == db.bundle[r.ref].files
    <2> DEFINE commons == UsedFiles(db, r.ref)
    <2> DEFINE q == [step |-> "files", ref |-> r.ref, id |-> r.id, sha |-> r.sha,
                     excl |-> {}, share |-> r.share, files |-> files, commons |-> commons]
    <2>1. req' = [req EXCEPT ![h] = q] /\ UNCHANGED db
      BY <1>2 DEF ReadFiles, Step
    <2>2. Alone(db, r) /\ IsSha(r) /\ KnowsId(db, r)
      BY Kinds DEF Base, Alone, ReadFiles, IdSteps
    <2> HIDE DEF files, commons
    <2>3. IsRead(q) /\ q.excl = {} /\ q.share = r.share /\ q.ref = r.ref /\ q.id = r.id
      BY DEF IsRead, Rec, ReadFields, ShaFields
    <2> HIDE DEF q
    <2>4. Alone(db, q)
      BY <2>2, <2>3 DEF IsSha, IsRead, Alone, IsRequest, KnowsId, Subject
    <2>5. \A k \in Threads \ {h} : Apart(q, req[k]) /\ Apart(req[k], q)
      BY <2>2, <2>3 DEF IsSha, IsRead, Apart, Base, Holding
    <2> QED  BY <2>1, <2>4, <2>5, BaseRequest
  <1> QED  BY <1>1, <1>2

LEMMA BaseStartDeploy ==
  ASSUME Base, NEW h \in Threads, StartDeploy(h)
  PROVE  Base'
  <1> DEFINE r == req[h]
  <1>1. CASE Gone(r)
    BY <1>1, BaseEnd DEF StartDeploy
  <1>2. CASE ~Gone(r)
    <2> DEFINE sig == UsesSig(db, r.ref)
    <2> DEFINE q == [step |-> "run", ref |-> r.ref, id |-> r.id, sha |-> r.sha,
                     files |-> r.files, commons |-> r.commons, sig |-> sig]
    <2>1. req' = [req EXCEPT ![h] = q] /\ UNCHANGED db
      BY <1>2 DEF StartDeploy, Step
    <2>2. Alone(db, r) /\ IsRead(r) /\ KnowsId(db, r)
      BY Kinds DEF Base, Alone, StartDeploy, IdSteps
    <2> HIDE DEF sig
    <2>3. IsRun(q) /\ q.ref = r.ref /\ q.id = r.id
      BY DEF IsRun, Rec, RunFields
    <2> HIDE DEF q
    <2>4. Alone(db, q)
      BY <2>2, <2>3 DEF IsRead, IsRun, Alone, IsRequest, KnowsId, Subject
    <2>5. \A k \in Threads \ {h} : Apart(q, req[k]) /\ Apart(req[k], q)
      BY <2>3 DEF IsRun, Apart, Holding
    <2> QED  BY <2>1, <2>4, <2>5, BaseRequest
  <1> QED  BY <1>1, <1>2

LEMMA BaseEndDeploy ==
  ASSUME Base, NEW h \in Threads, EndDeploy(h)
  PROVE  Base'
  <1>1. Tables' /\ db'.bundle = db.bundle /\ db'.next = db.next
    BY DEF EndDeploy, Base, Tables, Rec
  <1> QED  BY <1>1, BaseEndSame DEF EndDeploy

LEMMA BaseCrash ==
  ASSUME Base, Crash
  PROVE  Base'
  <1>1. Tables' /\ OneId' /\ Names' /\ req' = [h \in Threads |-> Idle]
    BY DEF Crash, Base, Tables, OneId, Names, NamesOf
  <1>2. Rec(req', Threads) /\ \A h \in Threads : req'[h] = Idle
    BY <1>1 DEF Rec
  <1> QED  BY <1>1, <1>2, IdleIsAlone DEF Base

LEMMA BaseChunk ==
  ASSUME Base, NEW h \in Threads, NEW offset, NEW n, Chunk(h, offset, n)
  PROVE  Base'
  <1>1. CASE UNCHANGED req
    BY <1>1, BaseSame DEF Chunk
  <1>2. ASSUME NEW body, MayAsk(h, upload.ref),
               Step(h, RowRequest(upload.ref, "save", "data", body, NewMode)), UNCHANGED db
        PROVE  Base'
    BY <1>2, BaseAsked DEF MayAsk, Step
  <1>3. \/ UNCHANGED req
        \/ \E body : /\ MayAsk(h, upload.ref)
                     /\ Step(h, RowRequest(upload.ref, "save", "data", body, NewMode))
    <2>1. Put(offset, n).ref = upload.ref
      BY DEF Put
    <2> QED  BY <2>1 DEF Chunk
  <1> QED  BY <1>1, <1>2, <1>3 DEF Chunk

LEMMA BaseAsk ==
  ASSUME Base, NEW h \in Threads, NEW ref, Ask(h, ref)
  PROVE  Base'
  <1>1. ASSUME NEW what \in {"save", "remove", "mode", "lock"}, NEW path, NEW body, NEW mode,
               what # "lock" => path \in {"data", "steps"}, AskRow(h, ref, what, path, body, mode)
        PROVE  Base'
    BY <1>1, BaseAsked DEF AskRow, Begin, MayAsk
  <1>2. ASSUME NEW w \in Bodies(ref) PROVE w[1] \in {"data", "steps"}
    BY DEF Bodies
  <1> QED  BY <1>1, <1>2 DEF Ask

LEMMA BaseInit ==
  ASSUME Init
  PROVE  Base
  <1>1. PICK b \in Builds, c \in Commons, x \in Texts : db = Deployed(b, c, x)
    BY DEF Init
  <1> DEFINE data == DataOnly(x)
  <1> DEFINE steps == StepsOnly({c})
  <1>2. /\ IsFiles(data) /\ IsFiles(steps) /\ Named(data) = {} /\ Named(steps) = {c}
    BY DEF IsFiles, IsFile, Rec, File, Named, DataOnly, StepsOnly
  <1>3. /\ DOMAIN db.bundle = {b, c} /\ Rec(db.bundle, DOMAIN db.bundle)
        /\ db.next = 3 /\ Rec(db, {"bundle", "lock", "next", "ok"})
        /\ db.bundle[c] = [id |-> 1, files |-> data, uses |-> {}, sha |-> data]
        /\ b # c => db.bundle[b] = [id |-> 2, files |-> steps, uses |-> {1}, sha |-> steps]
    BY <1>1 DEF Rec, Deployed
  <1> HIDE DEF data, steps
  <1>4. /\ IsBundle(db.bundle[c]) /\ IdOf(db, c) = 1
        /\ b # c => IsBundle(db.bundle[b]) /\ IdOf(db, b) = 2
    BY <1>2, <1>3 DEF IsBundle, Rec, FolderSha, IdOf
  <1>5. Tables /\ OneId
    BY <1>3, <1>4 DEF Tables, OneId
  <1>6. Names
    BY <1>2, <1>3, <1>4 DEF Names, NamesOf
  <1>7. Rec(req, Threads) /\ \A h \in Threads : req[h] = Idle
    BY DEF Init, Rec
  <1> QED  BY <1>5, <1>6, <1>7, IdleIsAlone DEF Base

LEMMA BaseNext ==
  ASSUME Base, [Next]_vars
  PROVE  Base'
  <1>1. CASE UNCHANGED vars
    BY <1>1, BaseSame DEF vars
  <1>2. ASSUME NEW h \in Threads, Continue(h) PROVE Base'
    BY <1>2, BaseTakeRow, BaseTakeLock, BaseEnd, BaseWriteDisk, BaseCommitRow, BaseCopyFiles, BaseCommitBundle,
       BaseReadFiles, BaseStartDeploy, BaseEndDeploy
       DEF Continue, Refuse, FailCommit, RemoveFolder
  <1>3. ASSUME NEW h \in Threads, NEW ref \in Refs, Requested(h, ref) PROVE Base'
    BY <1>3, BaseAsk, BaseAskDelete, BaseAskDeploy, BaseAskBundle DEF Requested
  <1>4. ASSUME NEW h \in Threads, NEW offset, NEW n, Chunk(h, offset, n) PROVE Base'
    BY <1>4, BaseChunk
  <1>5. ASSUME NEW ref, NEW body, AskUpload(ref, body) PROVE Base'
    BY <1>5, BaseSame DEF AskUpload
  <1>6. CASE DropUpload \/ Crash
    BY <1>6, BaseSame, BaseCrash DEF DropUpload
  <1> QED  BY <1>1, <1>2, <1>3, <1>4, <1>5, <1>6 DEF Next

\* update_uses says of a build what the steps.json it was saved with names:
\* saveUses and DeleteBundleUses run in the transaction that holds the row,
\* and a common in use cannot be deleted.  Shut is a save of the source
\* between CopyBundleFiles and CopyBundleUses, which gives the copy the files
\* of before and the uses of after.
THEOREM UsesAreSound ==
  ASSUME NoCopy
  PROVE  Spec => []UsesAreNamed
  <1>1. Base => UsesAreNamed
    BY DEF Base, Names, NamesOf, UsesAreNamed
  <1> QED  BY <1>1, BaseInit, BaseNext, PTL DEF Spec

-----------------------------------------------------------------------------
(* Types.                                                                  *)

InRefs ==
  /\ DOMAIN db.bundle \subseteq Refs /\ DOMAIN disk \subseteq Refs
  /\ \A h \in Threads : req[h].step = "copied" => req[h].ref \in Refs

LEMMA InRefsStep ==
  ASSUME Base, InRefs, NEW h \in Threads, NEW r, req' = [req EXCEPT ![h] = r],
         r.step = "copied" => r.ref \in Refs,
         DOMAIN db'.bundle \subseteq Refs, DOMAIN disk' \subseteq Refs
  PROVE  InRefs'
  <1>1. \A k \in Threads : req'[k] = IF k = h THEN r ELSE req[k]
    BY DEF Base, Rec
  <1> QED  BY <1>1 DEF InRefs

LEMMA InRefsContinue ==
  ASSUME Base, InRefs, NEW h \in Threads, Continue(h)
  PROVE  InRefs'
  <1> DEFINE q == req'[h]
  <1>1. (q.step = "copied" => q.ref \in Refs) /\ req' = [req EXCEPT ![h] = q]
    <2>4. CASE CopyFiles(h)
      BY <2>4, CopiesFiles DEF IsCopy, InRefs
    <2>1. CASE TakeRow(h) \/ TakeLock(h) \/ WriteDisk(h)
      BY <2>1, TakesRow, TakesLock, WritesDisk DEF Taken
    <2>2. CASE ReadFiles(h) \/ StartDeploy(h)
      BY <2>2 DEF ReadFiles, StartDeploy, End, Step, Idle, Base, Rec
    <2>3. CASE End(h)
      BY <2>3 DEF End, Step, Idle, Base, Rec
    <2> QED  BY <2>1, <2>2, <2>3, <2>4 DEF Continue, Refuse, CommitRow, FailCommit, CommitBundle,
                                          RemoveFolder, EndDeploy
  <1>2. DOMAIN db'.bundle \subseteq Refs
    <2>1. CASE CommitRow(h)
      BY <2>1 DEF CommitRow, Base, Tables, Rec, InRefs
    <2>2. CASE CommitBundle(h)
      <3> DEFINE ref == req[h].ref
      <3> DEFINE row == NewRow(req[h].files, SourceUses(req[h]))
      <3> DEFINE b == With(db.bundle, ref, row)
      <3>1. db' = [db EXCEPT !.bundle = b, !.next = @ + 1] /\ ref \in Refs
        BY <2>2 DEF CommitBundle, InRefs
      <3>2. DOMAIN b = DOMAIN db.bundle \union {ref}
        BY DEF With
      <3> HIDE DEF b, ref
      <3>3. db'.bundle = b
        BY <3>1 DEF Base, Tables, Rec
      <3> QED  BY <3>1, <3>2, <3>3 DEF InRefs
    <2>3. CASE EndDeploy(h)
      BY <2>3 DEF EndDeploy, Base, Tables, Rec, InRefs
    <2> QED  BY <2>1, <2>2, <2>3 DEF Continue, TakeRow, TakeLock, Refuse, WriteDisk, FailCommit,
                                     CopyFiles, RemoveFolder, ReadFiles, StartDeploy, InRefs
  <1>3. DOMAIN disk' \subseteq Refs
    <2>1. CASE WriteDisk(h)
      <3>1. req[h].ref \in Refs
        BY <2>1, WritesDisk DEF HasRow, InRefs
      <3> QED  BY <2>1, <3>1 DEF WriteDisk, With, InRefs
    <2>2. CASE RemoveFolder(h)
      BY <2>2 DEF RemoveFolder, RemoveBundle, Without, Restrict, InRefs
    <2> QED  BY <2>1, <2>2 DEF Continue, TakeRow, TakeLock, Refuse, CommitRow, FailCommit,
                               CopyFiles, CommitBundle, ReadFiles, StartDeploy, EndDeploy, InRefs
  <1> HIDE DEF q
  <1> QED  BY <1>1, <1>2, <1>3, InRefsStep

LEMMA InRefsRequested ==
  ASSUME Base, InRefs, NEW h \in Threads, NEW ref \in Refs, Requested(h, ref)
  PROVE  InRefs'
  <1>1. CASE AskDelete(h, ref)
    <2> DEFINE b == Without(db.bundle, ref)
    <2> DEFINE l == LocksLeft(db.lock, IdOf(db, ref))
    <2> DEFINE o == {x \in db.ok : x.id # IdOf(db, ref)}
    <2> DEFINE q == [step |-> "hook", ref |-> ref]
    <2>1. db' = [db EXCEPT !.bundle = b, !.lock = l, !.ok = o] /\ req' = [req EXCEPT ![h] = q]
          /\ UNCHANGED disk
      BY <1>1 DEF AskDelete, DeleteBundle, Begin
    <2>2. DOMAIN b \subseteq DOMAIN db.bundle /\ q.step # "copied"
      BY DEF Without, Restrict
    <2> HIDE DEF b, l, o, q
    <2>3. db'.bundle = b
      BY <2>1 DEF Base, Tables, Rec
    <2>4. DOMAIN db'.bundle \subseteq Refs /\ DOMAIN disk' \subseteq Refs
      BY <2>1, <2>2, <2>3 DEF InRefs
    <2> QED  BY <2>1, <2>2, <2>4, InRefsStep
  <1>2. ASSUME NEW from, AskBundle(h, ref, from) PROVE InRefs'
    <2> DEFINE old == RemoveBundle(disk, ref)
    <2> DEFINE new == IF from = Null THEN Empty ELSE Folder(from)
    <2>1. disk' = With(old, ref, new)
      BY <1>2 DEF AskBundle, MkBundle, RemoveBundle, Without, Restrict
    <2>2. DOMAIN old \subseteq DOMAIN disk
      BY DEF RemoveBundle, Without, Restrict
    <2> HIDE DEF old, new
    <2>3. DOMAIN disk' \subseteq Refs /\ DOMAIN db'.bundle \subseteq Refs
      BY <1>2, <2>1, <2>2 DEF With, InRefs, AskBundle
    <2>4. req'[h].ref = ref /\ req' = [req EXCEPT ![h] = req'[h]]
      BY <1>2 DEF AskBundle, Begin, Base, Rec
    <2> QED  BY <2>3, <2>4, InRefsStep
  <1>3. CASE AskDeploy(h, ref)
    <2>1. req'[h].step = "sha" /\ req' = [req EXCEPT ![h] = req'[h]] /\ UNCHANGED <<db, disk>>
      BY <1>3 DEF AskDeploy, Begin, Base, Rec
    <2> QED  BY <2>1, InRefsStep DEF InRefs
  <1>4. CASE Ask(h, ref)
    <2>1. ASSUME NEW what, NEW path, NEW body, NEW mode, AskRow(h, ref, what, path, body, mode)
          PROVE  InRefs'
      BY <2>1, InRefsStep DEF AskRow, Begin, RowRequest, InRefs
    <2> QED  BY <1>4, <2>1 DEF Ask
  <1> QED  BY <1>1, <1>2, <1>3, <1>4 DEF Requested

LEMMA InRefsNext ==
  ASSUME Base, InRefs, [Next]_vars
  PROVE  InRefs'
  <1>1. CASE UNCHANGED <<db, disk, req>>
    BY <1>1 DEF InRefs
  <1>2. ASSUME NEW h \in Threads, NEW offset, NEW n, Chunk(h, offset, n) PROVE InRefs'
    <2>1. \/ UNCHANGED req
          \/ \E ref, body : req' = [req EXCEPT ![h] = RowRequest(ref, "save", "data", body, NewMode)]
      BY <1>2 DEF Chunk, Step
    <2>2. ASSUME NEW ref, NEW body PROVE RowRequest(ref, "save", "data", body, NewMode).step # "copied"
      BY DEF RowRequest
    <2>3. UNCHANGED <<db, disk>>
      BY <1>2 DEF Chunk
    <2> QED  BY <1>1, <2>1, <2>2, <2>3, InRefsStep DEF InRefs
  <1>3. CASE Crash
    <2>1. \A h \in Threads : req'[h].step = "idle"
      BY <1>3 DEF Crash, Idle
    <2> QED  BY <1>3, <2>1 DEF Crash, InRefs
  <1> QED  BY <1>1, <1>2, <1>3, InRefsContinue, InRefsRequested DEF Next, AskUpload, DropUpload, vars

LEMMA InRefsInit ==
  ASSUME Init
  PROVE  InRefs
  BY DEF Init, Deployed, InRefs, Refs, Idle

\* Rows and folders belong to bundles, ids are never given twice, and FOR
\* UPDATE keeps two requests from changing one row.
THEOREM TypesSound == Spec => []TypeOK
  <1>1. Base /\ InRefs => TypeOK
    BY DEF Base, OneId, Apart, InRefs, TypeOK, At
  <1>2. Base /\ InRefs /\ [Next]_vars => Base' /\ InRefs'
    BY BaseNext, InRefsNext
  <1> QED  BY <1>1, <1>2, BaseInit, InRefsInit, PTL DEF Spec

-----------------------------------------------------------------------------
(* Uploads.                                                                *)

UploadFields == {"ref", "body", "received", "written"}
IsUpload(up) ==
  /\ Rec(up, UploadFields) /\ up.body # Hole
  /\ up.received \in 0..Size /\ up.written = 1..up.received

SavesWhole(r) ==
  r.step \in {"wait", "hold"} /\ r.what = "save" /\ r.path = "data" => r.body # Hole

WholeFolder(folder) == "data" \in DOMAIN folder => folder["data"] # Hole

Whole ==
  /\ upload # Null => IsUpload(upload)
  /\ \A h \in Threads : SavesWhole(req[h])
  /\ \A ref \in DOMAIN disk : WholeFolder(disk[ref])

LEMMA WholeStep ==
  ASSUME Base, Whole, NEW h \in Threads, NEW r, req' = [req EXCEPT ![h] = r], SavesWhole(r),
         upload' = upload \/ upload' = Null, \A ref \in DOMAIN disk' : WholeFolder(disk'[ref])
  PROVE  Whole'
  <1>1. \A k \in Threads : SavesWhole(req'[k])
    BY DEF Base, Rec, Whole
  <1> QED  BY <1>1 DEF Whole

LEMMA WholePut ==
  ASSUME NEW offset \in 0..Size, NEW n \in 0..Size,
         IsUpload(upload), InOrder(offset), offset + n <= Size
  PROVE  IsUpload(Put(offset, n)) /\ Put(offset, n).ref = upload.ref
         /\ Put(offset, n).received \in 0..Size
  <1> DEFINE got == upload.received
  <1> DEFINE end == IF got < offset + n THEN offset + n ELSE got
  <1> DEFINE all == upload.written \union (offset + 1 .. offset + n)
  <1>1. Put(offset, n) = [upload EXCEPT !.received = end, !.written = all]
    BY DEF Put
  <1>2. got \in Nat /\ offset \in Nat /\ n \in Nat /\ offset <= got /\ upload.written = 1..got
    BY SizeAssumption DEF IsUpload, InOrder
  <1>3. end \in 0..Size
    BY <1>2, SizeAssumption DEF IsUpload
  <1>4. all = 1..end
    BY <1>2
  <1> HIDE DEF end, all
  <1> QED  BY <1>1, <1>3, <1>4 DEF IsUpload, Rec, UploadFields

LEMMA WholeChunk ==
  ASSUME Base, Whole, NEW h \in Threads, NEW offset \in 0..Size, NEW n \in 0..Size,
         Chunk(h, offset, n)
  PROVE  Whole'
  <1> DEFINE up == Put(offset, n)
  <1>1. IsUpload(up)
    BY WholePut DEF Chunk, Whole
  <1>2. UNCHANGED disk
    BY DEF Chunk
  <1>3. CASE upload' = up /\ UNCHANGED req
    BY <1>1, <1>2, <1>3 DEF Whole
  <1>4. CASE up.received = Size /\ upload' = Null
    <2> DEFINE body == IF up.written = 1..Size THEN up.body ELSE Hole
    <2> DEFINE r == RowRequest(up.ref, "save", "data", body, NewMode)
    <2>1. body # Hole
      BY <1>1, <1>4 DEF IsUpload
    <2>2. SavesWhole(r)
      BY <2>1 DEF SavesWhole, RowRequest
    <2>3. UNCHANGED req \/ req' = [req EXCEPT ![h] = r]
      BY <1>4 DEF Chunk, Step
    <2> HIDE DEF r, up
    <2>4. CASE UNCHANGED req
      BY <1>2, <1>4, <2>4 DEF Whole
    <2>5. CASE req' = [req EXCEPT ![h] = r]
      BY <1>2, <1>4, <2>2, <2>5, WholeStep DEF Whole
    <2> QED  BY <2>3, <2>4, <2>5
  <1> QED  BY <1>3, <1>4 DEF Chunk

LEMMA WholeFolders ==
  ASSUME Whole, NEW ref
  PROVE  WholeFolder(Folder(ref)) /\ WholeFolder(Empty)
  BY DEF Whole, Folder, WholeFolder, Empty

LEMMA WholeWriteDisk ==
  ASSUME Base, Whole, NEW h \in Threads, WriteDisk(h)
  PROVE  Whole'
  <1> DEFINE r == req[h]
  <1> DEFINE q == req'[h]
  <1>1. /\ r.step = "hold" /\ SavesWhole(r) /\ q.step = "written"
        /\ req' = [req EXCEPT ![h] = q] /\ UNCHANGED upload
    BY WritesDisk DEF Taken, Whole
  <1>2. \A x \in DOMAIN disk' : WholeFolder(disk'[x])
    <2>1. WholeFolder(Folder(r.ref)) /\ \A x \in DOMAIN disk : WholeFolder(disk[x])
      BY WholeFolders DEF Whole
    <2>2. CASE r.what = "save"
      <3> DEFINE new == With(Folder(r.ref), r.path, r.body)
      <3>1. WholeFolder(new)
        BY <1>1, <2>1, <2>2 DEF SavesWhole, WholeFolder, With
      <3>2. disk' = With(disk, r.ref, new)
        BY <2>2 DEF WriteDisk
      <3> HIDE DEF new, r
      <3> QED  BY <2>1, <3>1, <3>2 DEF With
    <2>3. CASE r.what # "save" /\ r.ref \in DOMAIN disk
      <3> DEFINE new == Without(disk[r.ref], r.path)
      <3>1. WholeFolder(new)
        BY <2>1, <2>3 DEF WholeFolder, Without, Restrict
      <3>2. disk' = [disk EXCEPT ![r.ref] = new]
        BY <2>3 DEF WriteDisk
      <3> HIDE DEF new, r
      <3> QED  BY <2>1, <3>1, <3>2
    <2>4. CASE r.what # "save" /\ r.ref \notin DOMAIN disk
      BY <2>1, <2>4 DEF WriteDisk
    <2> QED  BY <2>2, <2>3, <2>4
  <1> QED  BY <1>1, <1>2, WholeStep DEF SavesWhole

LEMMA WholeFoldersCut ==
  ASSUME Whole, NEW ref
  PROVE  \A x \in DOMAIN RemoveBundle(disk, ref) : WholeFolder(RemoveBundle(disk, ref)[x])
  BY DEF Whole, RemoveBundle, Without, Restrict

LEMMA WholeAskBundle ==
  ASSUME Base, Whole, NEW h \in Threads, NEW ref, NEW from, AskBundle(h, ref, from)
  PROVE  Whole'
  <1> DEFINE new == IF from = Null THEN Empty ELSE Folder(from)
  <1> DEFINE old == RemoveBundle(disk, ref)
  <1>1. disk' = With(old, ref, new)
    BY DEF AskBundle, MkBundle, RemoveBundle, Without, Restrict
  <1>2. WholeFolder(new) /\ \A x \in DOMAIN old : WholeFolder(old[x])
    BY WholeFolders, WholeFoldersCut
  <1> HIDE DEF new, old
  <1>3. \A x \in DOMAIN disk' : WholeFolder(disk'[x])
    BY <1>1, <1>2 DEF With
  <1>4. req'[h].step = "copied" /\ req' = [req EXCEPT ![h] = req'[h]]
    BY DEF AskBundle, Begin, Base, Rec
  <1> QED  BY <1>3, <1>4, WholeStep DEF SavesWhole, AskBundle

LEMMA WholeAsk ==
  ASSUME Base, Whole, NEW h \in Threads, NEW ref, Ask(h, ref)
  PROVE  Whole'
  <1>1. ASSUME NEW what, NEW path, NEW body, NEW mode, AskRow(h, ref, what, path, body, mode),
               what = "save" /\ path = "data" => body # Hole
        PROVE  Whole'
    <2> DEFINE r == RowRequest(ref, what, path, body, mode)
    <2>1. SavesWhole(r)
      BY <1>1 DEF SavesWhole, RowRequest
    <2>2. req' = [req EXCEPT ![h] = r] /\ UNCHANGED <<disk, upload>>
      BY <1>1 DEF AskRow, Begin
    <2> HIDE DEF r
    <2> QED  BY <2>1, <2>2, WholeStep DEF Whole
  <1>2. ASSUME NEW w \in Bodies(ref) PROVE w[1] = "data" => w[2] # Hole
    BY HoleAssumption DEF Bodies
  <1> QED  BY <1>1, <1>2 DEF Ask

\* Steps that keep no file and end or go on as something other than a save.
LEMMA WholeOther ==
  ASSUME Base, Whole, NEW h \in Threads, NEW r, req' = [req EXCEPT ![h] = r],
         r.step \notin {"wait", "hold"}, UNCHANGED <<disk, upload>>
  PROVE  Whole'
  BY WholeStep DEF Whole, SavesWhole

LEMMA WholeTakeRow ==
  ASSUME Base, Whole, NEW h \in Threads, TakeRow(h) \/ TakeLock(h)
  PROVE  Whole'
  <1> DEFINE r == req[h]
  <1> DEFINE q == req'[h]
  <1>1. /\ r.step = "wait" /\ req' = [req EXCEPT ![h] = q] /\ UNCHANGED <<disk, upload>>
        /\ q.what = r.what /\ q.path = r.path /\ q.body = r.body
    BY TakesRow, TakesLock DEF Taken
  <1>2. SavesWhole(q)
    BY <1>1 DEF SavesWhole, Whole
  <1> QED  BY <1>1, <1>2, WholeStep DEF Whole

LEMMA WholeNext ==
  ASSUME Base, Whole, [Next]_vars
  PROVE  Whole'
  <1>1. CASE UNCHANGED vars
    BY <1>1 DEF vars, Whole
  <1>2. ASSUME NEW h \in Threads, Continue(h) PROVE Whole'
    <2>1. CASE End(h) /\ UNCHANGED <<disk, upload>>
      BY <2>1, WholeOther DEF End, Step, Idle
    <2>2. CASE RemoveFolder(h)
      BY <2>2, WholeFoldersCut, WholeStep DEF RemoveFolder, End, Step, SavesWhole, Idle
    <2>3. CASE ReadFiles(h) \/ StartDeploy(h)
      <3>1. req'[h].step \in {"idle", "files", "run"}
        BY <2>3 DEF ReadFiles, StartDeploy, End, Step, Idle, Base, Rec
      <3>2. req' = [req EXCEPT ![h] = req'[h]]
        BY <2>3 DEF ReadFiles, StartDeploy, End, Step, Base, Rec
      <3> QED  BY <2>3, <3>1, <3>2, WholeOther DEF ReadFiles, StartDeploy
    <2>4. CASE CopyFiles(h)
      BY <2>4, CopiesFiles, WholeOther DEF IsCopy
    <2> QED  BY <1>2, <2>1, <2>2, <2>3, <2>4, WholeTakeRow, WholeWriteDisk
             DEF Continue, Refuse, CommitRow, FailCommit, CommitBundle, EndDeploy
  <1>3. ASSUME NEW h \in Threads, NEW ref \in Refs, Requested(h, ref) PROVE Whole'
    <2>1. CASE AskDelete(h, ref)
      BY <2>1, WholeOther DEF AskDelete, Begin
    <2>2. CASE AskDeploy(h, ref)
      <3>1. req'[h].step = "sha" /\ req' = [req EXCEPT ![h] = req'[h]]
        BY <2>2 DEF AskDeploy, Begin, Base, Rec
      <3> QED  BY <2>2, <3>1, WholeOther DEF AskDeploy
    <2> QED  BY <1>3, <2>1, <2>2, WholeAsk, WholeAskBundle DEF Requested
  <1>4. ASSUME NEW h \in Threads, NEW offset \in 0..Size, NEW n \in 0..Size, Chunk(h, offset, n)
        PROVE  Whole'
    BY <1>4, WholeChunk
  <1>5. ASSUME NEW ref, NEW body \in Texts, AskUpload(ref, body) PROVE Whole'
    <2> DEFINE up == [ref |-> ref, body |-> body, received |-> 0, written |-> {}]
    <2>1. IsUpload(up)
      BY HoleAssumption, SizeAssumption DEF IsUpload, Rec, UploadFields
    <2>2. upload' = up /\ UNCHANGED <<disk, req>>
      BY <1>5 DEF AskUpload
    <2> HIDE DEF up
    <2> QED  BY <2>1, <2>2 DEF Whole
  <1>6. CASE DropUpload
    BY <1>6 DEF DropUpload, Whole
  <1>7. CASE Crash
    <2>1. \A h \in Threads : req'[h] = Idle
      BY <1>7 DEF Crash
    <2> QED  BY <1>7, <2>1 DEF Crash, Whole, SavesWhole, Idle
  <1> QED  BY <1>1, <1>2, <1>3, <1>4, <1>5, <1>6, <1>7 DEF Next

LEMMA WholeInit ==
  ASSUME Init
  PROVE  Whole
  <1>1. PICK b \in Builds, c \in Commons, x \in Texts :
          disk = [r \in {b, c} |-> BodiesOf(IF r = c THEN DataOnly(x) ELSE StepsOnly({c}))]
    BY DEF Init
  <1>2. WholeFolder(BodiesOf(DataOnly(x))) /\ WholeFolder(BodiesOf(StepsOnly({c})))
    BY HoleAssumption DEF WholeFolder, BodiesOf, DataOnly, StepsOnly, File
  <1>3. \A r \in DOMAIN disk : WholeFolder(disk[r])
    BY <1>1, <1>2
  <1>4. upload = Null /\ \A h \in Threads : req[h] = Idle
    BY DEF Init
  <1> QED  BY <1>3, <1>4 DEF Whole, SavesWhole, Idle

\* A folder never holds a file that an upload left with a hole: a chunk
\* beyond what was received is refused, so the bytes written are those from
\* the first to received, whatever is repeated or overlaps.
THEOREM UploadsSound == Spec => []UploadsAreWhole
  <1>1. Whole => UploadsAreWhole
    BY DEF Whole, WholeFolder, UploadsAreWhole
  <1>2. Base /\ Whole /\ [Next]_vars => Base' /\ Whole'
    BY BaseNext, WholeNext
  <1> QED  BY <1>1, <1>2, BaseInit, WholeInit, PTL DEF Spec

-----------------------------------------------------------------------------
(* Rows and folders agree, where the three windows that break it are shut. *)
Shut == {"hooks", "copy", "fail"} \intersect Windows = {}

Busy == {"hold", "written", "copied", "hook"}

Agrees(d, f, ref) == ref \in DOMAIN f /\ f[ref] = BodiesOf(d.bundle[ref].files)

\* A request that has its row: what the folder holds before and after the
\* rename or the removal, against what the row is to become.
HeldOnDisk(d, f, r) ==
  LET old == BodiesOf(d.bundle[r.ref].files)
      new == BodiesOf(r.to.files)
  IN /\ r.ref \in DOMAIN f
     /\ f[r.ref] = IF r.step = "hold" \/ r.what = "lock" THEN old ELSE new
     /\ r.what = "mode" => new = old
     /\ r.step = "hold" =>
          new = IF r.what = "save" THEN With(old, r.path, r.body) ELSE Without(old, r.path)

\* A bundle being made: its folder is a copy of what the source still is.
CopiedOnDisk(d, f, r) ==
  /\ r.ref \in DOMAIN f
  /\ r.id = 0 => f[r.ref] = Empty
  /\ r.id # 0 => /\ r.to \in DOMAIN d.bundle /\ IdOf(d, r.to) = r.id /\ r.id \in r.share
                 /\ f[r.ref] = BodiesOf(d.bundle[r.to].files)

OnDisk(d, f, r) ==
  /\ r.step \in {"hold", "written"} => HeldOnDisk(d, f, r)
  /\ r.step = "copied" => CopiedOnDisk(d, f, r)
  /\ r.step = "hook" => r.ref \notin DOMAIN d.bundle

Unhooked(r, s) == r.step = "hook" /\ s.step = "copied" => r.ref # s.ref

DiskInv ==
  /\ Rec(disk, DOMAIN disk)
  /\ \A h \in Threads : OnDisk(db, disk, req[h])
  /\ \A h, k \in Threads : Unhooked(req[h], req[k])
  /\ \A ref \in DOMAIN db.bundle : Quiet(ref) => Agrees(db, disk, ref)

-----------------------------------------------------------------------------
LEMMA DiskStep ==
  ASSUME Base, DiskInv, NEW h \in Threads, NEW r, req' = [req EXCEPT ![h] = r],
         Rec(disk', DOMAIN disk'), OnDisk(db', disk', r),
         \A k \in Threads \ {h} : /\ OnDisk(db', disk', req[k])
                                  /\ Unhooked(r, req[k]) /\ Unhooked(req[k], r),
         \A ref \in DOMAIN db'.bundle : Quiet(ref)' => Agrees(db', disk', ref)
  PROVE  DiskInv'
  <1>1. req'[h] = r /\ \A k \in Threads \ {h} : req'[k] = req[k]
    BY DEF Base, Rec
  <1>2. \A k \in Threads : OnDisk(db', disk', req'[k])
    BY <1>1
  <1>3. Unhooked(r, r)
    BY DEF Unhooked
  <1>4. \A k, l \in Threads : Unhooked(req'[k], req'[l])
    BY <1>1, <1>3 DEF DiskInv
  <1> QED  BY <1>2, <1>4 DEF DiskInv

\* A bundle no other request is busy with was quiet.
LEMMA WasQuiet ==
  ASSUME Base, NEW h \in Threads, NEW r, req' = [req EXCEPT ![h] = r], NEW ref, Quiet(ref)',
         req[h].step \in Busy => req[h].ref # ref
  PROVE  Quiet(ref)
  <1>1. \A k \in Threads \ {h} : req'[k] = req[k]
    BY DEF Base, Rec
  <1> QED  BY <1>1 DEF Quiet, At, Busy

LEMMA DiskSame ==
  ASSUME Base, DiskInv, NEW h \in Threads, NEW r, req' = [req EXCEPT ![h] = r],
         db'.bundle = db.bundle, disk' = disk, r.step \notin Busy,
         req[h].step \in Busy /\ req[h].ref \in DOMAIN db.bundle => Agrees(db, disk, req[h].ref)
  PROVE  DiskInv'
  <1>1. /\ Rec(disk', DOMAIN disk') /\ OnDisk(db', disk', r)
        /\ \A k \in Threads \ {h} : /\ OnDisk(db', disk', req[k])
                                    /\ Unhooked(r, req[k]) /\ Unhooked(req[k], r)
    BY DEF DiskInv, OnDisk, Unhooked, Busy, HeldOnDisk, CopiedOnDisk, IdOf
  <1>2. ASSUME NEW ref \in DOMAIN db'.bundle, Quiet(ref)' PROVE Agrees(db', disk', ref)
    BY <1>2, WasQuiet DEF DiskInv, Agrees
  <1> QED  BY <1>1, <1>2, DiskStep

\* The folder of a bundle whose row a request has just taken agrees with it.
LEMMA TakenAgrees ==
  ASSUME Base, DiskInv, NEW h \in Threads, NEW ref \in DOMAIN db.bundle,
         \A k \in At(Holding) \ {h} : IdOf(db, ref) \notin req[k].excl,
         req[h].step \notin Busy
  PROVE  Agrees(db, disk, ref)
  <1>1. Quiet(ref)
    <2> SUFFICES ASSUME NEW k \in Threads, req[k].step \in Busy, req[k].ref = ref PROVE FALSE
      BY DEF Quiet, At, Busy
    <2>1. req[k].step \in {"hold", "written"}
      BY DEF DiskInv, OnDisk, Base, Alone, CopyKnows, Busy
    <2>2. req[k].excl = {IdOf(db, ref)}
      BY <2>1 DEF Base, Alone, HasRow
    <2> QED  BY <2>1, <2>2 DEF At, Holding, Busy
  <1> QED  BY <1>1 DEF DiskInv

LEMMA DiskTakeRow ==
  ASSUME Base, DiskInv, NEW h \in Threads, TakeRow(h)
  PROVE  DiskInv'
  <1> DEFINE r == req[h]
  <1> DEFINE q == req'[h]
  <1>1. /\ IsRow(r) /\ r.step = "wait" /\ ~Gone(r) /\ Possible(r) /\ Free(h, r.id)
        /\ r.what \in {"save", "remove", "mode"}
        /\ req' = [req EXCEPT ![h] = q] /\ UNCHANGED <<db, disk>>
        /\ q.step = IF r.what = "mode" THEN "written" ELSE "hold"
        /\ q.what = r.what /\ q.ref = r.ref /\ q.path = r.path /\ q.body = r.body
        /\ q.to = Changed(r)
    BY TakesRow DEF Taken
  <1> DEFINE row == db.bundle[r.ref]
  <1>2. /\ r.what = "save" => q.to.files = Save(row.files, r.path, r.body)
        /\ r.what = "remove" => q.to.files = Without(row.files, r.path)
        /\ r.what = "mode" => BodiesOf(q.to.files) = BodiesOf(row.files)
    BY <1>1, ChangedRow DEF Base
  <1>3. Agrees(db, disk, r.ref)
    BY <1>1, TakenAgrees DEF Free, Busy, Gone
  <1> HIDE DEF r, q
  <1>4. OnDisk(db, disk, q)
    BY <1>1, <1>2, <1>3, BodiesPut, BodiesCut DEF OnDisk, HeldOnDisk, Agrees, row
  <1>5. \A k \in Threads : Unhooked(q, req[k]) /\ Unhooked(req[k], q)
    BY <1>1 DEF Unhooked
  <1>6. ASSUME NEW ref \in DOMAIN db'.bundle, Quiet(ref)' PROVE Agrees(db', disk', ref)
    BY <1>1, <1>6, WasQuiet DEF DiskInv, Agrees, Busy, r
  <1> QED  BY <1>1, <1>4, <1>5, <1>6, DiskStep DEF DiskInv

LEMMA DiskTakeLock ==
  ASSUME Base, DiskInv, NEW h \in Threads, TakeLock(h)
  PROVE  DiskInv'
  <1> DEFINE r == req[h]
  <1> DEFINE q == req'[h]
  <1>1. /\ r.step = "wait" /\ ~Gone(r) /\ Free(h, r.id)
        /\ req' = [req EXCEPT ![h] = q] /\ UNCHANGED <<db, disk>>
        /\ q.step = "written" /\ q.what = "lock" /\ q.ref = r.ref
    BY TakesLock DEF Taken
  <1>2. Agrees(db, disk, r.ref)
    BY <1>1, TakenAgrees DEF Free, Busy, Gone
  <1> HIDE DEF r, q
  <1>3. OnDisk(db, disk, q)
    BY <1>1, <1>2 DEF OnDisk, HeldOnDisk, Agrees
  <1>4. \A k \in Threads : Unhooked(q, req[k]) /\ Unhooked(req[k], q)
    BY <1>1 DEF Unhooked
  <1>5. ASSUME NEW ref \in DOMAIN db'.bundle, Quiet(ref)' PROVE Agrees(db', disk', ref)
    BY <1>1, <1>5, WasQuiet DEF DiskInv, Agrees, Busy, r
  <1> QED  BY <1>1, <1>3, <1>4, <1>5, DiskStep DEF DiskInv

LEMMA DiskWriteDisk ==
  ASSUME Base, DiskInv, NEW h \in Threads, WriteDisk(h)
  PROVE  DiskInv'
  <1> DEFINE r == req[h]
  <1> DEFINE q == req'[h]
  <1> DEFINE ref == r.ref
  <1> DEFINE new == BodiesOf(r.to.files)
  <1>1. /\ r.step = "hold" /\ HasRow(db, r) /\ HeldOnDisk(db, disk, r) /\ UNCHANGED db
        /\ req' = [req EXCEPT ![h] = q] /\ q.step = "written"
        /\ q.what = r.what /\ q.ref = ref /\ q.to = r.to
        /\ Rec(disk, DOMAIN disk)
    BY WritesDisk DEF Taken, DiskInv, OnDisk
  <1>2. disk' = [disk EXCEPT ![ref] = new]
    <2>1. /\ ref \in DOMAIN disk /\ disk[ref] = BodiesOf(db.bundle[ref].files)
          /\ new = IF r.what = "save" THEN With(disk[ref], r.path, r.body)
                   ELSE Without(disk[ref], r.path)
      BY <1>1 DEF HeldOnDisk
    <2>2. CASE r.what = "save"
      <3>1. disk' = With(disk, ref, With(disk[ref], r.path, r.body))
        BY <2>1, <2>2 DEF WriteDisk, Folder
      <3> HIDE DEF new, ref
      <3> QED  BY <1>1, <2>1, <2>2, <3>1 DEF With, Rec
    <2>3. CASE r.what # "save"
      <3>1. disk' = [disk EXCEPT ![ref] = Without(disk[ref], r.path)]
        BY <2>1, <2>3 DEF WriteDisk
      <3> QED  BY <2>1, <2>3, <3>1
    <2> QED  BY <2>2, <2>3
  <1> HIDE DEF new, q
  <1>3. /\ DOMAIN disk' = DOMAIN disk /\ disk'[ref] = new
        /\ \A x \in DOMAIN disk : x # ref => disk'[x] = disk[x]
        /\ Rec(disk', DOMAIN disk')
    BY <1>1, <1>2 DEF HeldOnDisk, Rec
  <1>4. OnDisk(db', disk', q)
    BY <1>1, <1>3 DEF OnDisk, HeldOnDisk, HasRow, new
  <1>5. \A k \in Threads \ {h} : OnDisk(db', disk', req[k])
    <2> SUFFICES ASSUME NEW k \in Threads \ {h} PROVE OnDisk(db', disk', req[k])
      OBVIOUS
    <2>1. OnDisk(db, disk, req[k]) /\ Alone(db, req[k]) /\ Apart(r, req[k])
      BY DEF DiskInv, Base
    <2>2. req[k].step \in {"hold", "written", "copied"} => req[k].ref # ref
      BY <1>1, <2>1 DEF Alone, CopyKnows, Apart, HasRow, Holding
    <2> QED  BY <1>1, <1>3, <2>1, <2>2 DEF OnDisk, HeldOnDisk, CopiedOnDisk
  <1>6. \A k \in Threads : Unhooked(q, req[k]) /\ Unhooked(req[k], q)
    BY <1>1 DEF Unhooked
  <1>7. ASSUME NEW x \in DOMAIN db'.bundle, Quiet(x)' PROVE Agrees(db', disk', x)
    <2>1. x # ref
      BY <1>1, <1>7 DEF Quiet, At
    <2> QED  BY <1>1, <1>3, <1>7, <2>1, WasQuiet DEF DiskInv, Agrees
  <1> QED  BY <1>1, <1>3, <1>4, <1>5, <1>6, <1>7, DiskStep

LEMMA DiskCommitRow ==
  ASSUME Base, DiskInv, NEW h \in Threads, CommitRow(h)
  PROVE  DiskInv'
  <1> DEFINE r == req[h]
  <1> DEFINE ref == r.ref
  <1> DEFINE to == r.to
  <1>1. /\ r.step = "written" /\ HasRow(db, r) /\ HeldOnDisk(db, disk, r) /\ UNCHANGED disk
        /\ req' = [req EXCEPT ![h] = Idle] /\ Tables
    BY DEF CommitRow, End, Step, DiskInv, OnDisk, Base, Alone
  <1>2. CASE r.what = "lock"
    <2>1. db'.bundle = db.bundle
      BY <1>1, <1>2 DEF CommitRow, Tables, Rec
    <2>2. Agrees(db, disk, ref)
      BY <1>1, <1>2 DEF HeldOnDisk, Agrees
    <2> QED  BY <1>1, <2>1, <2>2, DiskSame DEF Idle, Busy
  <1>3. CASE r.what # "lock"
    <2>1. db' = [db EXCEPT !.bundle[ref] = to]
      BY <1>3 DEF CommitRow
    <2>2. ref \in DOMAIN db.bundle /\ IdOf(db, ref) = to.id /\ to.id = r.id /\ r.excl = {r.id}
      BY <1>1, <1>3 DEF HasRow
    <2> HIDE DEF r, ref, to
    <2>3. /\ DOMAIN db'.bundle = DOMAIN db.bundle /\ db'.bundle[ref] = to
          /\ \A x \in DOMAIN db.bundle \ {ref} : db'.bundle[x] = db.bundle[x]
      BY <1>1, <2>1, <2>2 DEF Tables, Rec
    <2>4. \A k \in Threads \ {h} : OnDisk(db', disk', req[k])
      <3> SUFFICES ASSUME NEW k \in Threads \ {h} PROVE OnDisk(db', disk', req[k])
        OBVIOUS
      <3>1. OnDisk(db, disk, req[k]) /\ Alone(db, req[k]) /\ Apart(r, req[k])
        BY DEF DiskInv, Base, r
      <3>2. req[k].step \in {"hold", "written"} => req[k].ref # ref
        BY <1>1, <3>1 DEF Alone, Apart, HasRow, Holding, ref
      <3>3. req[k].step = "copied" /\ req[k].id # 0 => req[k].to # ref
        BY <1>1, <2>2, <3>1 DEF Apart, OnDisk, CopiedOnDisk, Holding
      <3>4. req[k].step = "copied" /\ req[k].id # 0 => req[k].to \in DOMAIN db.bundle
        BY <3>1 DEF OnDisk, CopiedOnDisk
      <3> QED  BY <1>1, <2>3, <3>1, <3>2, <3>3, <3>4 DEF OnDisk, HeldOnDisk, CopiedOnDisk, HasRow, Alone, IdOf
    <2>5. Agrees(db', disk', ref)
      BY <1>1, <1>3, <2>3 DEF HeldOnDisk, Agrees, ref, to
    <2>6. ASSUME NEW x \in DOMAIN db'.bundle, Quiet(x)' PROVE Agrees(db', disk', x)
      BY <1>1, <2>3, <2>5, <2>6, WasQuiet DEF DiskInv, Agrees, ref, r
    <2>7. /\ OnDisk(db', disk', Idle)
          /\ \A k \in Threads : Unhooked(Idle, req[k]) /\ Unhooked(req[k], Idle)
      BY DEF OnDisk, Unhooked, Idle
    <2> QED  BY <1>1, <2>4, <2>6, <2>7, DiskStep DEF DiskInv
  <1> QED  BY <1>2, <1>3

LEMMA DiskAskBundle ==
  ASSUME Base, DiskInv, Shut, NEW h \in Threads, NEW ref, NEW from, AskBundle(h, ref, from)
  PROVE  DiskInv'
  <1> DEFINE q == req'[h]
  <1> DEFINE new == IF from = Null THEN Empty ELSE Folder(from)
  <1>1. /\ req[h] = Idle /\ req' = [req EXCEPT ![h] = q] /\ UNCHANGED db
        /\ q.step = "copied" /\ q.ref = ref /\ q.to = from
        /\ q.id = IF from = Null THEN 0 ELSE IdOf(db, from)
        /\ q.share = IF from = Null THEN {} ELSE {q.id}
    BY DEF AskBundle, Begin, Base, Rec, Shut
  <1>2. /\ ref \notin DOMAIN db.bundle /\ ref \notin Hooks
        /\ \A k \in At({"copied"}) : req[k].ref # ref
        /\ from # Null => from \in DOMAIN db.bundle /\ Sharable(h, {IdOf(db, from)})
    BY DEF AskBundle, Shut
  <1>3. disk' = With(Without(disk, ref), ref, new)
    BY DEF AskBundle, MkBundle, RemoveBundle, Without, Restrict
  <1>4. from # Null => Agrees(db, disk, from)
    BY <1>1, <1>2, TakenAgrees DEF Sharable, Idle, Busy
  <1>5. /\ from = Null => new = Empty
        /\ from # Null => new = BodiesOf(db.bundle[from].files)
    BY <1>4 DEF Agrees, Folder
  <1> HIDE DEF q, new
  <1>6. /\ ref \in DOMAIN disk' /\ disk'[ref] = new /\ Rec(disk', DOMAIN disk')
        /\ \A x \in DOMAIN disk : x # ref => x \in DOMAIN disk' /\ disk'[x] = disk[x]
    BY <1>3 DEF With, Without, Restrict, Rec
  <1>7. OnDisk(db', disk', q)
    <2>1. from # Null => IdOf(db, from) # 0
      BY <1>2 DEF Base, Tables, IsBundle, IdOf
    <2> QED  BY <1>1, <1>2, <1>5, <1>6, <2>1 DEF OnDisk, CopiedOnDisk
  <1>8. \A k \in Threads \ {h} : OnDisk(db', disk', req[k])
    <2> SUFFICES ASSUME NEW k \in Threads \ {h} PROVE OnDisk(db', disk', req[k])
      OBVIOUS
    <2>1. OnDisk(db, disk, req[k]) /\ Alone(db, req[k])
      BY DEF DiskInv, Base
    <2>2. req[k].step \in {"hold", "written", "copied"} => req[k].ref # ref
      BY <1>2, <2>1 DEF Alone, HasRow, CopyKnows, At
    <2> QED  BY <1>1, <1>6, <2>1, <2>2 DEF OnDisk, HeldOnDisk, CopiedOnDisk
  <1>9. \A k \in Threads : Unhooked(q, req[k]) /\ Unhooked(req[k], q)
    BY <1>1, <1>2 DEF Unhooked, Hooks, At
  <1>10. ASSUME NEW x \in DOMAIN db'.bundle, Quiet(x)' PROVE Agrees(db', disk', x)
    <2>1. req[h].step \notin Busy
      BY <1>1 DEF Idle, Busy
    <2>2. Quiet(x)
      BY <1>1, <1>10, <2>1, WasQuiet
    <2> QED  BY <1>1, <1>2, <1>6, <2>2 DEF DiskInv, Agrees
  <1> QED  BY <1>1, <1>6, <1>7, <1>8, <1>9, <1>10, DiskStep

LEMMA DiskCommitBundle ==
  ASSUME Base, DiskInv, Shut, NEW h \in Threads, CommitBundle(h)
  PROVE  DiskInv'
  <1> DEFINE r == req[h]
  <1> DEFINE ref == r.ref
  <1> DEFINE files == r.files
  <1> DEFINE uses == SourceUses(r)
  <1> DEFINE row == NewRow(files, uses)
  <1>1. /\ r.step = "copied" /\ CopiedOnDisk(db, disk, r) /\ Tables /\ UNCHANGED disk
        /\ ref \notin DOMAIN db.bundle /\ req' = [req EXCEPT ![h] = Idle]
        /\ db' = [db EXCEPT !.bundle = With(@, ref, row), !.next = @ + 1]
    BY DEF Base, Alone, CopyKnows, CommitBundle, End, Step, DiskInv, OnDisk
  <1>2. disk[ref] = BodiesOf(files)
    <2>1. files = IF r.id = 0 THEN Empty ELSE db.bundle[r.to].files
      BY DEF Base, Alone, CopyKnows, NoCopy, Shut, CommitBundle
    <2>2. BodiesOf(Empty) = Empty
      BY DEF BodiesOf, Empty
    <2> QED  BY <1>1, <2>1, <2>2 DEF CopiedOnDisk
  <1>3. row.files = files
    BY DEF NewRow
  <1> HIDE DEF row, files, ref
  <1>4. /\ DOMAIN db'.bundle = DOMAIN db.bundle \union {ref} /\ db'.bundle[ref] = row
        /\ \A x \in DOMAIN db.bundle : db'.bundle[x] = db.bundle[x]
    <2> DEFINE b == With(db.bundle, ref, row)
    <2>1. db'.bundle = b
      <3> HIDE DEF b
      <3> QED  BY <1>1 DEF Tables, Rec, b
    <2> QED  BY <1>1, <2>1 DEF With
  <1>5. \A k \in Threads \ {h} : OnDisk(db', disk', req[k])
    <2> SUFFICES ASSUME NEW k \in Threads \ {h} PROVE OnDisk(db', disk', req[k])
      OBVIOUS
    <2>1. OnDisk(db, disk, req[k]) /\ Alone(db, req[k]) /\ Unhooked(req[k], r)
      BY DEF DiskInv, Base
    <2> QED  BY <1>1, <1>4, <2>1 DEF OnDisk, HeldOnDisk, CopiedOnDisk, HasRow, Alone, Unhooked, IdOf, ref
  <1>6. Agrees(db', disk', ref)
    BY <1>1, <1>2, <1>3, <1>4 DEF Agrees, CopiedOnDisk, ref
  <1>7. ASSUME NEW x \in DOMAIN db'.bundle, Quiet(x)' PROVE Agrees(db', disk', x)
    BY <1>1, <1>4, <1>6, <1>7, WasQuiet DEF DiskInv, Agrees, ref
  <1>8. /\ OnDisk(db', disk', Idle)
        /\ \A k \in Threads : Unhooked(Idle, req[k]) /\ Unhooked(req[k], Idle)
    BY DEF OnDisk, Unhooked, Idle
  <1> QED  BY <1>1, <1>5, <1>7, <1>8, DiskStep DEF DiskInv

LEMMA DiskCopyFiles ==
  ASSUME Base, DiskInv, NEW h \in Threads, CopyFiles(h)
  PROVE  DiskInv'
  <1> DEFINE r == req[h]
  <1> DEFINE q == req'[h]
  <1>1. /\ r.step = "copied" /\ q.step = "copied" /\ OnDisk(db, disk, r)
        /\ req' = [req EXCEPT ![h] = q] /\ UNCHANGED <<db, disk>>
        /\ q.ref = r.ref /\ q.id = r.id /\ q.to = r.to /\ q.share = r.share
    BY CopiesFiles DEF IsCopy, DiskInv
  <1>2. /\ \A k \in Threads : Unhooked(r, req[k]) /\ Unhooked(req[k], r)
        /\ \A k \in Threads : OnDisk(db, disk, req[k])
    BY DEF DiskInv
  <1> HIDE DEF q
  <1>3. OnDisk(db', disk', q) /\ \A k \in Threads : OnDisk(db', disk', req[k])
    BY <1>1, <1>2 DEF OnDisk, CopiedOnDisk
  <1>4. \A k \in Threads : Unhooked(q, req[k]) /\ Unhooked(req[k], q)
    BY <1>1, <1>2 DEF Unhooked
  <1>5. ASSUME NEW x \in DOMAIN db'.bundle, Quiet(x)' PROVE Agrees(db', disk', x)
    <2>1. Quiet(x)
      <3>1. \A k \in Threads : req'[k] = IF k = h THEN q ELSE req[k]
        BY <1>1 DEF Base, Rec
      <3> QED  BY <1>1, <1>5, <3>1 DEF Quiet, At
    <2> QED  BY <1>1, <2>1 DEF DiskInv, Agrees
  <1> QED  BY <1>1, <1>3, <1>4, <1>5, DiskStep DEF DiskInv

LEMMA DiskAskDelete ==
  ASSUME Base, DiskInv, NEW h \in Threads, NEW ref, AskDelete(h, ref)
  PROVE  DiskInv'
  <1> DEFINE q == [step |-> "hook", ref |-> ref]
  <1> DEFINE id == IdOf(db, ref)
  <1>1. /\ req[h] = Idle /\ ref \in DOMAIN db.bundle /\ Free(h, id) /\ Tables /\ UNCHANGED disk
        /\ db' = DeleteBundle(db, ref) /\ req' = [req EXCEPT ![h] = q]
    BY DEF AskDelete, Begin, Base
  <1>2. /\ DOMAIN db'.bundle = DOMAIN db.bundle \ {ref}
        /\ \A x \in DOMAIN db.bundle \ {ref} : db'.bundle[x] = db.bundle[x]
    <2> DEFINE b == Without(db.bundle, ref)
    <2> DEFINE l == LocksLeft(db.lock, id)
    <2> DEFINE o == {x \in db.ok : x.id # id}
    <2>1. db' = [db EXCEPT !.bundle = b, !.lock = l, !.ok = o]
      BY <1>1 DEF DeleteBundle
    <2>2. db'.bundle = b
      <3> HIDE DEF b, l, o
      <3> QED  BY <1>1, <2>1 DEF Tables, Rec
    <2> QED  BY <2>2 DEF Without, Restrict
  <1>3. \A k \in Threads \ {h} : OnDisk(db', disk', req[k]) /\ (req[k].step = "copied" => req[k].ref # ref)
    <2> SUFFICES ASSUME NEW k \in Threads \ {h}
                 PROVE  OnDisk(db', disk', req[k]) /\ (req[k].step = "copied" => req[k].ref # ref)
      OBVIOUS
    <2>1. OnDisk(db, disk, req[k]) /\ Alone(db, req[k])
      BY DEF DiskInv, Base
    <2>2. req[k].step \in {"hold", "written", "copied"} => id \notin req[k].excl /\ id \notin req[k].share
      BY <1>1 DEF Free, At, Holding
    <2>3. req[k].step \in {"hold", "written"} => req[k].ref # ref
      BY <2>1, <2>2 DEF Alone, HasRow
    <2>4. req[k].step = "copied" /\ req[k].id # 0 => req[k].to # ref
      BY <2>1, <2>2 DEF OnDisk, CopiedOnDisk
    <2>5. req[k].step = "copied" => req[k].ref # ref
      BY <1>1, <2>1 DEF Alone, CopyKnows
    <2> QED  BY <1>1, <1>2, <2>1, <2>3, <2>4, <2>5
             DEF OnDisk, HeldOnDisk, CopiedOnDisk, HasRow, Alone, IdOf
  <1>4. /\ OnDisk(db', disk', q)
        /\ \A k \in Threads \ {h} : Unhooked(q, req[k]) /\ Unhooked(req[k], q)
    BY <1>2, <1>3 DEF OnDisk, Unhooked
  <1>5. ASSUME NEW x \in DOMAIN db'.bundle, Quiet(x)' PROVE Agrees(db', disk', x)
    <2>1. req[h].step \notin Busy
      BY <1>1 DEF Idle, Busy
    <2>2. Quiet(x)
      <3> HIDE DEF q
      <3> QED  BY <1>1, <1>5, <2>1, WasQuiet
    <2> QED  BY <1>1, <1>2, <2>2 DEF DiskInv, Agrees
  <1> QED  BY <1>1, <1>3, <1>4, <1>5, DiskStep DEF DiskInv

LEMMA DiskRemoveFolder ==
  ASSUME Base, DiskInv, NEW h \in Threads, RemoveFolder(h)
  PROVE  DiskInv'
  <1> DEFINE ref == req[h].ref
  <1>1. /\ req[h].step = "hook" /\ ref \notin DOMAIN db.bundle
        /\ req' = [req EXCEPT ![h] = Idle] /\ UNCHANGED db /\ disk' = Without(disk, ref)
    BY DEF RemoveFolder, End, Step, RemoveBundle, DiskInv, OnDisk
  <1> HIDE DEF ref
  <1>2. /\ DOMAIN disk' = DOMAIN disk \ {ref} /\ Rec(disk', DOMAIN disk')
        /\ \A x \in DOMAIN disk' : disk'[x] = disk[x]
    BY <1>1 DEF Without, Restrict, Rec
  <1>3. \A k \in Threads \ {h} : OnDisk(db', disk', req[k])
    <2> SUFFICES ASSUME NEW k \in Threads \ {h} PROVE OnDisk(db', disk', req[k])
      OBVIOUS
    <2>1. OnDisk(db, disk, req[k]) /\ Alone(db, req[k]) /\ Unhooked(req[h], req[k])
      BY DEF DiskInv, Base
    <2>2. req[k].step \in {"hold", "written", "copied"} => req[k].ref # ref
      BY <1>1, <2>1 DEF Alone, HasRow, Unhooked, ref
    <2> QED  BY <1>1, <1>2, <2>1, <2>2 DEF OnDisk, HeldOnDisk, CopiedOnDisk
  <1>4. ASSUME NEW x \in DOMAIN db'.bundle, Quiet(x)' PROVE Agrees(db', disk', x)
    BY <1>1, <1>2, <1>4, WasQuiet DEF DiskInv, Agrees, ref
  <1>5. /\ OnDisk(db', disk', Idle)
        /\ \A k \in Threads : Unhooked(Idle, req[k]) /\ Unhooked(req[k], Idle)
    BY DEF OnDisk, Unhooked, Idle
  <1> QED  BY <1>1, <1>2, <1>3, <1>4, <1>5, DiskStep

\* Where no commit fails after the folder was written, a request that stops
\* before its commit leaves a folder that agrees with the row.
LEMMA StoppedAgrees ==
  ASSUME Base, DiskInv, NEW h \in Threads, h \notin Torn,
         req[h].step \in Busy, req[h].ref \in DOMAIN db.bundle
  PROVE  Agrees(db, disk, req[h].ref)
  <1>1. OnDisk(db, disk, req[h]) /\ Alone(db, req[h])
    BY DEF Base, DiskInv
  <1>2. req[h].step \in {"hold", "written"}
    BY <1>1 DEF Alone, CopyKnows, OnDisk, Busy
  <1>3. IsRow(req[h])
    BY <1>1, <1>2, Kinds DEF Alone, RowSteps
  <1> QED  BY <1>1, <1>2, <1>3 DEF Agrees, OnDisk, HeldOnDisk, Torn, At, IsRow

LEMMA DiskFailCommit ==
  ASSUME Base, DiskInv, Shut, NEW h \in Threads, FailCommit(h)
  PROVE  DiskInv'
  <1>1. /\ req' = [req EXCEPT ![h] = Idle] /\ UNCHANGED <<db, disk>> /\ h \notin Torn
    BY DEF FailCommit, End, Step, Shut
  <1> QED  BY <1>1, StoppedAgrees, DiskSame DEF Idle, Busy

LEMMA DiskCrash ==
  ASSUME Base, DiskInv, Shut, Crash
  PROVE  DiskInv'
  <1>1. Torn = {} /\ UNCHANGED <<db, disk>> /\ \A h \in Threads : req'[h] = Idle
    BY DEF Crash, Shut
  <1>2. \A h, k \in Threads : OnDisk(db', disk', req'[h]) /\ Unhooked(req'[h], req'[k])
    BY <1>1 DEF OnDisk, Unhooked, Idle
  <1>3. ASSUME NEW ref \in DOMAIN db.bundle PROVE Agrees(db, disk, ref)
    <2>1. CASE Quiet(ref)
      BY <2>1 DEF DiskInv
    <2>2. CASE ~Quiet(ref)
      <3>1. PICK h \in Threads : req[h].step \in Busy /\ req[h].ref = ref
        BY <2>2 DEF Quiet, At, Busy
      <3> QED  BY <1>1, <3>1, StoppedAgrees
    <2> QED  BY <2>1, <2>2
  <1> QED  BY <1>1, <1>2, <1>3 DEF DiskInv, Agrees

-----------------------------------------------------------------------------
\* Requests that leave rows and folders alone.
LEMMA DiskBegin ==
  ASSUME Base, DiskInv, NEW h \in Threads, req[h] = Idle, NEW r, req' = [req EXCEPT ![h] = r],
         r.step \notin Busy, UNCHANGED <<db, disk>>
  PROVE  DiskInv'
  <1>1. req[h].step \notin Busy
    BY DEF Idle, Busy
  <1> QED  BY <1>1, DiskSame

LEMMA DiskContinue ==
  ASSUME Base, DiskInv, NEW h \in Threads,
         Refuse(h) \/ ReadFiles(h) \/ StartDeploy(h) \/ EndDeploy(h)
  PROVE  DiskInv'
  <1>1. /\ req' = [req EXCEPT ![h] = req'[h]] /\ UNCHANGED disk
        /\ req[h].step \notin Busy /\ req'[h].step \notin Busy
    BY DEF Refuse, ReadFiles, StartDeploy, EndDeploy, End, Step, Idle, Busy, Base, Rec
  <1>2. db'.bundle = db.bundle
    BY DEF Refuse, ReadFiles, StartDeploy, EndDeploy, Base, Tables, Rec
  <1> QED  BY <1>1, <1>2, DiskSame

LEMMA DiskAsk ==
  ASSUME Base, DiskInv, NEW h \in Threads, NEW ref, Ask(h, ref)
  PROVE  DiskInv'
  <1>1. ASSUME NEW what, NEW path, NEW body, NEW mode, AskRow(h, ref, what, path, body, mode)
        PROVE  DiskInv'
    <2>1. /\ req' = [req EXCEPT ![h] = req'[h]] /\ UNCHANGED <<db, disk>>
          /\ req[h] = Idle /\ req'[h].step = "wait"
      BY <1>1 DEF AskRow, Begin, RowRequest, Base, Rec
    <2> QED  BY <2>1, DiskBegin DEF Busy
  <1> QED  BY <1>1 DEF Ask

LEMMA DiskChunk ==
  ASSUME Base, DiskInv, NEW h \in Threads, NEW offset, NEW n, Chunk(h, offset, n)
  PROVE  DiskInv'
  <1>1. UNCHANGED <<db, disk>> /\ req[h] = Idle
    BY DEF Chunk
  <1>2. \/ UNCHANGED req
        \/ \E body : Step(h, RowRequest(Put(offset, n).ref, "save", "data", body, NewMode))
    BY DEF Chunk
  <1>3. CASE UNCHANGED req
    BY <1>1, <1>3 DEF DiskInv, Quiet, At
  <1>4. ASSUME NEW body, Step(h, RowRequest(Put(offset, n).ref, "save", "data", body, NewMode))
        PROVE  DiskInv'
    <2>1. req' = [req EXCEPT ![h] = req'[h]] /\ req'[h].step = "wait"
      BY <1>4 DEF Step, RowRequest, Base, Rec
    <2> QED  BY <1>1, <2>1, DiskBegin DEF Busy
  <1> QED  BY <1>2, <1>3, <1>4

LEMMA DiskAskDeploy ==
  ASSUME Base, DiskInv, NEW h \in Threads, NEW ref, AskDeploy(h, ref)
  PROVE  DiskInv'
  <1>1. /\ req' = [req EXCEPT ![h] = req'[h]] /\ UNCHANGED <<db, disk>>
        /\ req[h] = Idle /\ req'[h].step = "sha"
    BY DEF AskDeploy, Begin, Base, Rec
  <1> QED  BY <1>1, DiskBegin DEF Busy

LEMMA DiskNext ==
  ASSUME Base, DiskInv, Shut, [Next]_vars
  PROVE  DiskInv'
  <1>1. CASE UNCHANGED <<db, disk, req>>
    BY <1>1 DEF DiskInv, Quiet, At
  <1>2. ASSUME NEW h \in Threads, Continue(h) PROVE DiskInv'
    BY <1>2, DiskTakeRow, DiskTakeLock, DiskContinue, DiskWriteDisk, DiskCommitRow,
       DiskFailCommit, DiskCopyFiles, DiskCommitBundle, DiskRemoveFolder DEF Continue
  <1>3. ASSUME NEW h \in Threads, NEW ref \in Refs, Requested(h, ref) PROVE DiskInv'
    BY <1>3, DiskAsk, DiskAskDelete, DiskAskDeploy, DiskAskBundle DEF Requested
  <1>4. ASSUME NEW h \in Threads, NEW offset, NEW n, Chunk(h, offset, n) PROVE DiskInv'
    BY <1>4, DiskChunk
  <1>5. (\E ref \in Refs, body \in Texts : AskUpload(ref, body)) \/ DropUpload => UNCHANGED <<db, disk, req>>
    BY DEF AskUpload, DropUpload
  <1> QED  BY <1>1, <1>2, <1>3, <1>4, <1>5, DiskCrash DEF Next, vars

LEMMA DiskInit ==
  ASSUME Init
  PROVE  DiskInv
  <1>1. PICK b \in Builds, c \in Commons, x \in Texts :
          /\ db = Deployed(b, c, x)
          /\ disk = [r \in {b, c} |-> BodiesOf(IF r = c THEN DataOnly(x) ELSE StepsOnly({c}))]
    BY DEF Init
  <1>2. /\ DOMAIN db.bundle = {b, c} /\ db.bundle[c].files = DataOnly(x)
        /\ b # c => db.bundle[b].files = StepsOnly({c})
    BY <1>1 DEF Deployed
  <1>3. \A r \in DOMAIN db.bundle : Agrees(db, disk, r)
    BY <1>1, <1>2 DEF Agrees
  <1>4. Rec(disk, DOMAIN disk) /\ \A h \in Threads : req[h] = Idle
    BY <1>1 DEF Rec, Init
  <1> QED  BY <1>3, <1>4 DEF DiskInv, OnDisk, Unhooked, Idle

\* A bundle that no request is changing has the folder its rows say: the
\* rename, removal or copy comes before the commit that records it, under the
\* row's lock.  Shut are a new bundle of a name whose hook is yet to remove
\* the old folder, a copy of a folder that changes before its rows are copied,
\* and a commit that fails after the folder was written.
THEOREM DiskSound ==
  ASSUME Shut
  PROVE  Spec => []DiskAgrees
  <1>1. Base /\ DiskInv => DiskAgrees
    BY DEF Base, Tables, IsBundle, DiskInv, Agrees, DiskAgrees
  <1>2. Base /\ DiskInv /\ [Next]_vars => Base' /\ DiskInv'
    BY BaseNext, DiskNext
  <1> QED  BY <1>1, <1>2, BaseInit, DiskInit, PTL DEF Spec

-----------------------------------------------------------------------------
(* What a lock promises: the bundle stays as it is, and is as deployed.    *)
(* Both hold where GetBundleForUpdate sees the locks as of when it has the *)
(* row ("wait") and updLockBuild holds the rows of the commons too         *)
(* ("commons").                                                            *)
Closed == {"wait", "commons"} \intersect Windows = {}

\* A folder's name is given again only when the hook that removes it has run.
HooksFirst == "hooks" \notin Windows

\* A request knows the lock of the row it is after; one that took the row
\* found none; one that is locking a build has the commons' rows too.
KnowsLock(d, r) ==
  /\ r.step \in RowSteps /\ IsLocked(d, r.id) => r.locked
  /\ r.step \in {"hold", "written"} => ~r.locked
  /\ r.step = "written" /\ r.what = "lock" =>
       r.to = LockRows(d, r.ref) /\ r.share = d.bundle[r.ref].uses

\* Two requests never are after the same row, and none waits for a row that
\* is being locked.
Exclude(r, s) ==
  /\ r.step \in RowSteps /\ s.step \in RowSteps => r.id # s.id
  /\ r.step = "wait" /\ s.step = "written" /\ s.what = "lock" => r.id \notin s.share
  /\ HooksFirst /\ r.step = "hook" /\ s.step = "copied" => r.ref # s.ref

\* A request that removes a folder or makes one, and the rows.
FolderOf(d, f, r) == HooksFirst =>
  /\ r.step = "hook" => r.ref \notin DOMAIN d.bundle
  /\ r.step = "copied" => r.ref \in DOMAIN f

EachHasFolder(d, f) == HooksFirst => DOMAIN d.bundle \subseteq DOMAIN f

LocksHold(d) ==
  /\ \A l \in d.lock : RefWith(d, l.id) # {}
  /\ \A l \in d.lock, b \in DOMAIN d.bundle :
       l.id = IdOf(d, b) /\ l.via = l.id => \A id \in d.bundle[b].uses : IsLocked(d, id)

LockInv ==
  /\ \A h \in Threads : KnowsLock(db, req[h]) /\ FolderOf(db, disk, req[h])
  /\ \A h \in Threads : \A k \in Threads \ {h} : Exclude(req[h], req[k])
  /\ LocksHold(db)
  /\ EachHasFolder(db, disk)

-----------------------------------------------------------------------------
\* The rows with this id are what they were.
Same(id) ==
  RefWith(db', id) = RefWith(db, id) /\ \A c \in RefWith(db, id) : db'.bundle[c] = db.bundle[c]

\* A bundle whose row and commons are what they were is locked, signed and
\* installed as before.
LEMMA SameUses ==
  ASSUME Names, NEW ref \in DOMAIN db.bundle, Same(IdOf(db, ref)),
         \A id \in db.bundle[ref].uses : Same(id)
  PROVE  /\ db'.bundle[ref] = db.bundle[ref] /\ ref \in DOMAIN db'.bundle
         /\ LockRows(db', ref) = LockRows(db, ref)
         /\ UsesSig(db', ref) = UsesSig(db, ref)
         /\ UsedFiles(db', ref) = UsedFiles(db, ref)
  <1>1. db'.bundle[ref] = db.bundle[ref] /\ ref \in DOMAIN db'.bundle
    BY DEF Same, RefWith
  <1>2. LockRows(db', ref) = LockRows(db, ref)
    <2> DEFINE all(d) == {ref} \union UNION {RefWith(d, id) : id \in d.bundle[ref].uses}
    <2>1. all(db') = all(db)
      BY <1>1 DEF Same
    <2>2. \A r \in all(db) : db'.bundle[r] = db.bundle[r]
      BY <1>1 DEF Same
    <2> QED  BY <1>1, <2>1, <2>2 DEF LockRows, IdOf
  <1>3. UsesSig(db', ref) = UsesSig(db, ref)
    <2> DEFINE all(d) == {c \in DOMAIN d.bundle : IdOf(d, c) \in d.bundle[ref].uses}
    <2>1. all(db') = all(db) /\ \A c \in all(db) : db'.bundle[c] = db.bundle[c]
      BY <1>1 DEF Same, RefWith
    <2> QED  BY <2>1 DEF UsesSig, IdOf
  <1>4. UsedFiles(db', ref) = UsedFiles(db, ref)
    <2>1. ASSUME NEW id \in db.bundle[ref].uses
          PROVE  (LET c == CHOOSE x \in RefWith(db', id) : TRUE IN db'.bundle[c].files)
                   = LET c == CHOOSE x \in RefWith(db, id) : TRUE IN db.bundle[c].files
      <3> DEFINE old == CHOOSE x \in RefWith(db, id) : TRUE
      <3>1. RefWith(db', id) = RefWith(db, id)
        BY DEF Same
      <3>2. (CHOOSE x \in RefWith(db', id) : TRUE) = old
        BY <3>1
      <3>3. RefWith(db, id) # {}
        BY DEF Names, NamesOf, RefWith
      <3>4. old \in RefWith(db, id)
        BY <3>3
      <3> HIDE DEF old
      <3> QED  BY <3>2, <3>4 DEF Same
    <2> QED  BY <1>1, <2>1 DEF UsedFiles
  <1> QED  BY <1>1, <1>2, <1>3, <1>4

-----------------------------------------------------------------------------
(* What the steps that change the tables leave alone.                      *)

LEMMA RowCommitted ==
  ASSUME Base, NEW h \in Threads, CommitRow(h), req[h].what # "lock"
  PROVE  LET r == req[h]
         IN /\ r.step = "written" /\ HasRow(db, r)
            /\ req' = [req EXCEPT ![h] = Idle] /\ UNCHANGED <<disk, upload>>
            /\ DOMAIN db'.bundle = DOMAIN db.bundle
            /\ \A x \in DOMAIN db.bundle : x # r.ref => db'.bundle[x] = db.bundle[x]
            /\ \A x \in DOMAIN db.bundle : IdOf(db', x) = IdOf(db, x)
            /\ db'.lock = db.lock /\ db'.ok = db.ok
            /\ \A id : id # r.id => Same(id)
  <1> DEFINE r == req[h]
  <1> DEFINE ref == r.ref
  <1> DEFINE to == r.to
  <1>1. /\ r.step = "written" /\ HasRow(db, r) /\ Tables /\ OneId
        /\ req' = [req EXCEPT ![h] = Idle] /\ UNCHANGED <<disk, upload>>
        /\ db' = [db EXCEPT !.bundle[ref] = to]
    BY DEF Base, Alone, CommitRow, End, Step
  <1>2. ref \in DOMAIN db.bundle /\ IdOf(db, ref) = r.id /\ to.id = r.id
    BY <1>1 DEF HasRow
  <1> HIDE DEF ref, to, r
  <1>3. /\ DOMAIN db'.bundle = DOMAIN db.bundle /\ db'.bundle[ref] = to
        /\ \A x \in DOMAIN db.bundle : x # ref => db'.bundle[x] = db.bundle[x]
        /\ db'.lock = db.lock /\ db'.ok = db.ok
    BY <1>1, <1>2 DEF Tables, Rec
  <1>4. \A x \in DOMAIN db.bundle : IdOf(db', x) = IdOf(db, x)
    BY <1>2, <1>3 DEF IdOf
  <1>5. ASSUME NEW id, id # r.id PROVE Same(id)
    <2>1. RefWith(db', id) = RefWith(db, id) /\ ref \notin RefWith(db, id)
      BY <1>2, <1>3, <1>4, <1>5 DEF RefWith
    <2>2. \A c \in RefWith(db, id) : c \in DOMAIN db.bundle
      BY DEF RefWith
    <2> QED  BY <1>3, <2>1, <2>2 DEF Same
  <1> QED  BY <1>1, <1>3, <1>4, <1>5 DEF r, ref

LEMMA LockCommitted ==
  ASSUME Base, NEW h \in Threads, CommitRow(h), req[h].what = "lock"
  PROVE  LET r == req[h]
         IN /\ r.step = "written" /\ HasRow(db, r)
            /\ req' = [req EXCEPT ![h] = Idle] /\ UNCHANGED <<disk, upload>>
            /\ db'.bundle = db.bundle /\ db'.ok = db.ok /\ db'.lock = db.lock \union r.to
            /\ \A id : Same(id)
  BY DEF Base, Alone, CommitRow, End, Step, Tables, Rec, Same, RefWith, IdOf

LEMMA Deleted ==
  ASSUME Base, NEW h \in Threads, NEW ref, AskDelete(h, ref)
  PROVE  LET id == IdOf(db, ref)
         IN /\ req[h] = Idle /\ ref \in DOMAIN db.bundle
            /\ Free(h, id) /\ UsedBy(db, id) = {}
            /\ req' = [req EXCEPT ![h] = [step |-> "hook", ref |-> ref]] /\ UNCHANGED <<disk, upload>>
            /\ DOMAIN db'.bundle = DOMAIN db.bundle \ {ref}
            /\ \A x \in DOMAIN db'.bundle : db'.bundle[x] = db.bundle[x] /\ IdOf(db', x) = IdOf(db, x)
            /\ db'.lock = LocksLeft(db.lock, id) /\ db'.ok = {o \in db.ok : o.id # id}
            /\ \A x : x # id => Same(x)
  <1> DEFINE id == IdOf(db, ref)
  <1> DEFINE b == Without(db.bundle, ref)
  <1> DEFINE l == LocksLeft(db.lock, id)
  <1> DEFINE o == {x \in db.ok : x.id # id}
  <1>1. /\ req[h] = Idle /\ ref \in DOMAIN db.bundle /\ Free(h, id) /\ UsedBy(db, id) = {} /\ Tables
        /\ req' = [req EXCEPT ![h] = [step |-> "hook", ref |-> ref]] /\ UNCHANGED <<disk, upload>>
    BY DEF AskDelete, Begin, Base
  <1>2. db' = [db EXCEPT !.bundle = b, !.lock = l, !.ok = o]
    BY DEF AskDelete, DeleteBundle
  <1>3. db'.bundle = b /\ db'.lock = l /\ db'.ok = o
    <2> HIDE DEF b, l, o
    <2> QED  BY <1>1, <1>2 DEF Tables, Rec
  <1>4. /\ DOMAIN db'.bundle = DOMAIN db.bundle \ {ref}
        /\ \A x \in DOMAIN db'.bundle : db'.bundle[x] = db.bundle[x] /\ IdOf(db', x) = IdOf(db, x)
    BY <1>3 DEF Without, Restrict, IdOf
  <1>5. ASSUME NEW x, x # id PROVE Same(x)
    <2>1. RefWith(db', x) = RefWith(db, x)
      BY <1>1, <1>4, <1>5 DEF RefWith
    <2>2. \A c \in RefWith(db', x) : c \in DOMAIN db'.bundle
      BY DEF RefWith
    <2> QED  BY <1>4, <2>1, <2>2 DEF Same
  <1> QED  BY <1>1, <1>3, <1>4, <1>5

LEMMA BundleCommitted ==
  ASSUME Base, NEW h \in Threads, CommitBundle(h)
  PROVE  LET r == req[h]
         IN /\ r.step = "copied" /\ r.ref \notin DOMAIN db.bundle
            /\ req' = [req EXCEPT ![h] = Idle] /\ UNCHANGED <<disk, upload>>
            /\ DOMAIN db'.bundle = DOMAIN db.bundle \union {r.ref}
            /\ \A x \in DOMAIN db.bundle : db'.bundle[x] = db.bundle[x] /\ IdOf(db', x) = IdOf(db, x)
            /\ IdOf(db', r.ref) = db.next
            /\ db'.lock = db.lock /\ db'.ok = db.ok
            /\ \A id : id # db.next => Same(id)
  <1> DEFINE r == req[h]
  <1> DEFINE ref == r.ref
  <1> DEFINE row == NewRow(r.files, SourceUses(r))
  <1>1. /\ r.step = "copied" /\ ref \notin DOMAIN db.bundle /\ Tables
        /\ req' = [req EXCEPT ![h] = Idle] /\ UNCHANGED <<disk, upload>>
        /\ db' = [db EXCEPT !.bundle = With(@, ref, row), !.next = @ + 1]
    BY DEF Base, Alone, CopyKnows, CommitBundle, End, Step
  <1>2. row.id = db.next
    BY DEF NewRow
  <1> HIDE DEF row, ref
  <1>3. /\ DOMAIN db'.bundle = DOMAIN db.bundle \union {ref} /\ db'.bundle[ref] = row
        /\ \A x \in DOMAIN db.bundle : db'.bundle[x] = db.bundle[x]
        /\ db'.lock = db.lock /\ db'.ok = db.ok
    <2> DEFINE b == With(db.bundle, ref, row)
    <2>1. db'.bundle = b /\ db'.lock = db.lock /\ db'.ok = db.ok
      <3> HIDE DEF b
      <3> QED  BY <1>1 DEF Tables, Rec, b
    <2> QED  BY <1>1, <2>1 DEF With
  <1>4. \A x \in DOMAIN db.bundle : IdOf(db', x) = IdOf(db, x)
    BY <1>3 DEF IdOf
  <1>5. IdOf(db', ref) = db.next
    BY <1>2, <1>3 DEF IdOf
  <1>6. ASSUME NEW id, id # db.next PROVE Same(id)
    <2>1. RefWith(db', id) = RefWith(db, id)
      BY <1>3, <1>4, <1>5, <1>6 DEF RefWith
    <2>2. \A c \in RefWith(db, id) : c \in DOMAIN db.bundle
      BY DEF RefWith
    <2> QED  BY <1>3, <2>1, <2>2 DEF Same
  <1> QED  BY <1>1, <1>3, <1>4, <1>5, <1>6 DEF ref

-----------------------------------------------------------------------------
LEMMA LockStep ==
  ASSUME Base, LockInv, NEW h \in Threads, NEW r, req' = [req EXCEPT ![h] = r],
         KnowsLock(db', r), FolderOf(db', disk', r),
         \A k \in Threads \ {h} : /\ KnowsLock(db', req[k]) /\ FolderOf(db', disk', req[k])
                                  /\ Exclude(r, req[k]) /\ Exclude(req[k], r),
         LocksHold(db'), EachHasFolder(db', disk')
  PROVE  LockInv'
  <1>1. req'[h] = r /\ \A k \in Threads \ {h} : req'[k] = req[k]
    BY DEF Base, Rec
  <1>2. \A k \in Threads : KnowsLock(db', req'[k]) /\ FolderOf(db', disk', req'[k])
    BY <1>1
  <1>3. \A k \in Threads : \A l \in Threads \ {k} : Exclude(req'[k], req'[l])
    BY <1>1 DEF LockInv
  <1> QED  BY <1>2, <1>3 DEF LockInv

\* Rows and locks, and no folder, change.
LEMMA LockRequest ==
  ASSUME Base, LockInv, NEW h \in Threads, NEW r, req' = [req EXCEPT ![h] = r],
         db' = db \/ (db'.bundle = db.bundle /\ db'.lock = db.lock), DOMAIN disk \subseteq DOMAIN disk',
         KnowsLock(db, r), FolderOf(db, disk', r),
         \A k \in Threads \ {h} : Exclude(r, req[k]) /\ Exclude(req[k], r)
  PROVE  LockInv'
  <1>1. /\ KnowsLock(db', r) /\ FolderOf(db', disk', r)
        /\ \A k \in Threads \ {h} : KnowsLock(db', req[k]) /\ FolderOf(db', disk', req[k])
    BY DEF LockInv, KnowsLock, FolderOf, IsLocked, LockRows, RefWith, IdOf
  <1>2. LocksHold(db') /\ EachHasFolder(db', disk')
    BY DEF LockInv, LocksHold, RefWith, IdOf, IsLocked, EachHasFolder
  <1> QED  BY <1>1, <1>2, LockStep

LEMMA Unlocking ==
  ASSUME NEW d, NEW f, NEW r, NEW s, r.step \notin RowSteps \union {"hook", "copied"}
  PROVE  KnowsLock(d, r) /\ FolderOf(d, f, r) /\ Exclude(r, s) /\ Exclude(s, r)
  BY DEF KnowsLock, FolderOf, Exclude, RowSteps

LEMMA IdleUnlocking ==
  ASSUME NEW d, NEW f, NEW s
  PROVE  KnowsLock(d, Idle) /\ FolderOf(d, f, Idle) /\ Exclude(Idle, s) /\ Exclude(s, Idle)
  BY Unlocking DEF Idle, RowSteps

\* A lock takes the build and each common it uses.
LEMMA LocksEach ==
  ASSUME NEW ref, NEW c, c = ref \/ \E i \in db.bundle[ref].uses : c \in RefWith(db, i)
  PROVE  \E l \in LockRows(db, ref) : l.id = IdOf(db, c)
  <1> DEFINE l == [id |-> IdOf(db, c), via |-> IdOf(db, ref), sha |-> db.bundle[c].sha]
  <1>1. l \in LockRows(db, ref)
    BY DEF LockRows
  <1>2. l.id = IdOf(db, c)
    OBVIOUS
  <1> HIDE DEF l
  <1> QED  BY <1>1, <1>2

\* The steps that neither take a row nor change one.
LEMMA LockOther ==
  ASSUME Base, LockInv, NEW h \in Threads, NEW r, req' = [req EXCEPT ![h] = r],
         db'.bundle = db.bundle /\ db'.lock = db.lock, DOMAIN disk \subseteq DOMAIN disk',
         r.step \notin RowSteps \union {"hook", "copied"}
  PROVE  LockInv'
  BY Unlocking, LockRequest

LEMMA OthersKnow ==
  ASSUME Base, LockInv, NEW k \in Threads, NEW x, \A id : id # x => Same(id),
         req[k].step \in Holding => x \notin req[k].excl /\ x \notin req[k].share,
         req[k].step \in RowSteps /\ IsLocked(db', req[k].id) => IsLocked(db, req[k].id)
  PROVE  KnowsLock(db', req[k])
  <1>1. KnowsLock(db, req[k]) /\ Alone(db, req[k]) /\ Names
    BY DEF LockInv, Base
  <1>2. ASSUME req[k].step = "written", req[k].what = "lock"
        PROVE  /\ req[k].to = LockRows(db', req[k].ref)
               /\ req[k].share = db'.bundle[req[k].ref].uses
    <2>1. /\ req[k].ref \in DOMAIN db.bundle /\ IdOf(db, req[k].ref) # x
          /\ x \notin db.bundle[req[k].ref].uses
      BY <1>1, <1>2 DEF Alone, HasRow, KnowsLock, Holding
    <2>2. /\ db'.bundle[req[k].ref] = db.bundle[req[k].ref]
          /\ LockRows(db', req[k].ref) = LockRows(db, req[k].ref)
      BY <1>1, <2>1, SameUses
    <2> QED  BY <1>1, <1>2, <2>2 DEF KnowsLock
  <1> QED  BY <1>1, <1>2 DEF KnowsLock

LEMMA SameLocks ==
  ASSUME LockInv, NEW x, \A id : id # x => Same(id), ~IsLocked(db, x), db'.lock = db.lock
  PROVE  LocksHold(db')
  <1>1. \A l \in db'.lock : l.id # x /\ RefWith(db', l.id) # {}
    BY DEF LockInv, LocksHold, IsLocked, Same
  <1>2. ASSUME NEW l \in db'.lock, NEW b \in DOMAIN db'.bundle, l.id = IdOf(db', b), l.via = l.id
        PROVE  \A id \in db'.bundle[b].uses : IsLocked(db', id)
    <2>1. b \in RefWith(db', l.id)
      BY <1>2 DEF RefWith
    <2>2. b \in RefWith(db, l.id) /\ db'.bundle[b] = db.bundle[b]
      BY <1>1, <2>1 DEF Same
    <2>3. b \in DOMAIN db.bundle /\ IdOf(db, b) = l.id
      BY <2>2 DEF RefWith
    <2> QED  BY <1>2, <2>2, <2>3 DEF LockInv, LocksHold, IsLocked
  <1> QED  BY <1>1, <1>2 DEF LocksHold

LEMMA LockCommitRow ==
  ASSUME Base, LockInv, NEW h \in Threads, CommitRow(h), req[h].what # "lock"
  PROVE  LockInv'
  <1> DEFINE r == req[h]
  <1>1. /\ r.step = "written" /\ HasRow(db, r) /\ req' = [req EXCEPT ![h] = Idle] /\ UNCHANGED disk
        /\ DOMAIN db'.bundle = DOMAIN db.bundle
        /\ db'.lock = db.lock /\ \A id : id # r.id => Same(id)
    BY RowCommitted
  <1>2. ~IsLocked(db, r.id)
    BY <1>1 DEF LockInv, KnowsLock, RowSteps
  <1>3. LocksHold(db') /\ EachHasFolder(db', disk')
    BY <1>1, <1>2, SameLocks DEF LockInv, EachHasFolder
  <1>4. \A k \in Threads \ {h} : KnowsLock(db', req[k]) /\ FolderOf(db', disk', req[k])
    <2> SUFFICES ASSUME NEW k \in Threads \ {h}
                 PROVE  KnowsLock(db', req[k]) /\ FolderOf(db', disk', req[k])
      OBVIOUS
    <2>1. req[k].step \in Holding => r.id \notin req[k].excl /\ r.id \notin req[k].share
      BY <1>1 DEF Base, Apart, HasRow, Holding
    <2>2. IsLocked(db', req[k].id) => IsLocked(db, req[k].id)
      BY <1>1 DEF IsLocked
    <2> HIDE DEF r
    <2>3. KnowsLock(db', req[k])
      BY <1>1, <2>1, <2>2, OthersKnow
    <2> QED  BY <1>1, <2>3 DEF LockInv, FolderOf
  <1> QED  BY <1>1, <1>3, <1>4, IdleUnlocking, LockStep

LEMMA LockCommitLock ==
  ASSUME Base, LockInv, NEW h \in Threads, CommitRow(h), req[h].what = "lock"
  PROVE  LockInv'
  <1> DEFINE r == req[h]
  <1> DEFINE ids == {r.id} \union db.bundle[r.ref].uses
  <1>1. /\ r.step = "written" /\ HasRow(db, r) /\ req' = [req EXCEPT ![h] = Idle] /\ UNCHANGED disk
        /\ db'.bundle = db.bundle /\ db'.lock = db.lock \union r.to
        /\ r.to = LockRows(db, r.ref) /\ r.share = db.bundle[r.ref].uses
        /\ r.what = "lock" /\ r.excl = {r.id} /\ r.ref \in DOMAIN db.bundle /\ IdOf(db, r.ref) = r.id
    BY LockCommitted DEF LockInv, KnowsLock, HasRow
  <1> HIDE DEF r
  <1>2. \A l \in r.to : /\ l.id \in ids /\ RefWith(db, l.id) # {} /\ l.via = r.id
    BY <1>1 DEF LockRows, RefWith
  <1>3. \A id \in ids : \E l \in r.to : l.id = id
    <2> SUFFICES ASSUME NEW id \in ids PROVE \E l \in r.to : l.id = id
      OBVIOUS
    <2>1. CASE id = r.id
      BY <1>1, <2>1, LocksEach
    <2>2. CASE id \in db.bundle[r.ref].uses
      <3>1. PICK c \in DOMAIN db.bundle : IdOf(db, c) = id
        BY <1>1, <2>2 DEF Base, Names, NamesOf
      <3>2. c \in RefWith(db, id)
        BY <3>1 DEF RefWith
      <3> QED  BY <1>1, <2>2, <3>1, <3>2, LocksEach
    <2> QED  BY <2>1, <2>2
  <1>4. \A k \in Threads \ {h} : KnowsLock(db', req[k]) /\ FolderOf(db', disk', req[k])
    <2> SUFFICES ASSUME NEW k \in Threads \ {h}
                 PROVE  KnowsLock(db', req[k]) /\ FolderOf(db', disk', req[k])
      OBVIOUS
    <2>1. KnowsLock(db, req[k]) /\ FolderOf(db, disk, req[k]) /\ Alone(db, req[k])
          /\ Exclude(req[k], r) /\ Apart(req[k], r)
      BY DEF LockInv, Base, r
    <2>2. req[k].step \in RowSteps => req[k].id \notin ids
      BY <1>1, <2>1 DEF Exclude, Apart, Alone, HasRow, RowSteps, Holding
    <2>3. req[k].step \in RowSteps /\ IsLocked(db', req[k].id) => req[k].locked
      BY <1>1, <1>2, <2>1, <2>2 DEF IsLocked, KnowsLock
    <2>4. LockRows(db', req[k].ref) = LockRows(db, req[k].ref)
      BY <1>1 DEF LockRows, RefWith, IdOf
    <2> QED  BY <1>1, <2>1, <2>3, <2>4 DEF KnowsLock, FolderOf
  <1>5. LocksHold(db')
    <2>1. \A l \in db'.lock : RefWith(db', l.id) # {}
      BY <1>1, <1>2 DEF LockInv, LocksHold, RefWith, IdOf
    <2>2. ASSUME NEW l \in db'.lock, NEW b \in DOMAIN db'.bundle, l.id = IdOf(db', b), l.via = l.id
          PROVE  \A id \in db'.bundle[b].uses : IsLocked(db', id)
      <3>1. CASE l \in db.lock
        BY <1>1, <2>2, <3>1 DEF LockInv, LocksHold, IsLocked, IdOf
      <3>2. CASE l \in r.to
        <4>1. b = r.ref
          BY <1>1, <1>2, <2>2, <3>2 DEF Base, OneId, IdOf
        <4> QED  BY <1>1, <1>3, <4>1 DEF IsLocked
      <3> QED  BY <1>1, <2>2, <3>1, <3>2
    <2> QED  BY <2>1, <2>2 DEF LocksHold
  <1> QED  BY <1>1, <1>4, <1>5, IdleUnlocking, LockStep DEF LockInv, EachHasFolder

LEMMA LockCopyFiles ==
  ASSUME Base, LockInv, NEW h \in Threads, CopyFiles(h)
  PROVE  LockInv'
  <1> DEFINE r == req[h]
  <1> DEFINE q == req'[h]
  <1>1. /\ r.step = "copied" /\ q.step = "copied" /\ q.ref = r.ref
        /\ req' = [req EXCEPT ![h] = q] /\ UNCHANGED <<db, disk>>
    BY CopiesFiles DEF IsCopy
  <1>2. /\ FolderOf(db, disk, r)
        /\ \A k \in Threads \ {h} : Exclude(r, req[k]) /\ Exclude(req[k], r)
    BY DEF LockInv
  <1> HIDE DEF r, q
  <1>3. KnowsLock(db, q) /\ FolderOf(db, disk', q)
    BY <1>1, <1>2 DEF KnowsLock, FolderOf, RowSteps
  <1>4. \A k \in Threads \ {h} : Exclude(q, req[k]) /\ Exclude(req[k], q)
    BY <1>1, <1>2 DEF Exclude, RowSteps
  <1> QED  BY <1>1, <1>3, <1>4, LockRequest

LEMMA LockCommitBundle ==
  ASSUME Base, LockInv, NEW h \in Threads, CommitBundle(h)
  PROVE  LockInv'
  <1> DEFINE r == req[h]
  <1>1. /\ r.step = "copied" /\ req' = [req EXCEPT ![h] = Idle] /\ UNCHANGED disk
        /\ DOMAIN db'.bundle = DOMAIN db.bundle \union {r.ref}
        /\ db'.lock = db.lock /\ \A id : id # db.next => Same(id)
    BY BundleCommitted
  <1>2. \A id : RefWith(db, id) # {} => id # db.next
    BY DEF Base, OneId, Tables, RefWith
  <1>3. ~IsLocked(db, db.next)
    BY <1>2 DEF LockInv, LocksHold, IsLocked
  <1>4. HooksFirst => r.ref \in DOMAIN disk
    BY <1>1 DEF LockInv, FolderOf
  <1>5. LocksHold(db') /\ EachHasFolder(db', disk')
    BY <1>1, <1>3, <1>4, SameLocks DEF LockInv, EachHasFolder
  <1>6. \A k \in Threads \ {h} : KnowsLock(db', req[k]) /\ FolderOf(db', disk', req[k])
    <2> SUFFICES ASSUME NEW k \in Threads \ {h}
                 PROVE  KnowsLock(db', req[k]) /\ FolderOf(db', disk', req[k])
      OBVIOUS
    <2>1. Alone(db, req[k]) /\ KnowsLock(db, req[k]) /\ FolderOf(db, disk, req[k]) /\ Exclude(req[k], r)
      BY DEF Base, LockInv
    <2> HIDE DEF r
    <2>2. req[k].step \in RowSteps => req[k].id # db.next
      BY <2>1 DEF Alone, KnowsId, IdSteps, Base, Tables
    <2>3. ASSUME req[k].step = "written", req[k].what = "lock"
          PROVE  /\ req[k].to = LockRows(db', req[k].ref)
                 /\ req[k].share = db'.bundle[req[k].ref].uses
      <3>1. req[k].ref \in DOMAIN db.bundle /\ IdOf(db, req[k].ref) # db.next
        BY <2>1, <2>2, <2>3 DEF Alone, HasRow, RowSteps
      <3>2. \A id \in db.bundle[req[k].ref].uses : id # db.next
        BY <1>2, <3>1 DEF Base, Names, NamesOf, RefWith
      <3> QED  BY <1>1, <2>1, <2>3, <3>1, <3>2, SameUses DEF KnowsLock, Base
    <2>4. KnowsLock(db', req[k])
      BY <1>1, <2>1, <2>3 DEF KnowsLock, IsLocked
    <2> QED  BY <1>1, <2>1, <2>4 DEF FolderOf, Exclude
  <1> QED  BY <1>1, <1>5, <1>6, IdleUnlocking, LockStep

\* Deleting a bundle takes its locks along and forgets by way of whom the
\* others were made.
LEMMA LocksAfter ==
  ASSUME NEW locks, NEW id
  PROVE  /\ \A l \in LocksLeft(locks, id) :
              l.id # id /\ \E k \in locks : k.id = l.id /\ (l.via # Null => k.via = l.via)
         /\ \A k \in locks : k.id # id => \E l \in LocksLeft(locks, id) : l.id = k.id
  <1> DEFINE new(l) == [id |-> l.id, via |-> IF l.via = id THEN Null ELSE l.via, sha |-> l.sha]
  <1>1. \A k \in locks : k.id # id => new(k) \in LocksLeft(locks, id)
    BY DEF LocksLeft
  <1>2. \A l \in LocksLeft(locks, id) : \E k \in locks : k.id # id /\ l = new(k)
    BY DEF LocksLeft
  <1>3. \A k : new(k).id = k.id /\ (new(k).via # Null => new(k).via = k.via)
    OBVIOUS
  <1> HIDE DEF new
  <1> QED  BY <1>1, <1>2, <1>3

LEMMA LockAskDelete ==
  ASSUME Base, LockInv, NEW h \in Threads, NEW ref, AskDelete(h, ref)
  PROVE  LockInv'
  <1> DEFINE id == IdOf(db, ref)
  <1> DEFINE q == [step |-> "hook", ref |-> ref]
  <1>1. /\ ref \in DOMAIN db.bundle /\ Free(h, id) /\ UsedBy(db, id) = {}
        /\ req' = [req EXCEPT ![h] = q] /\ UNCHANGED disk
        /\ DOMAIN db'.bundle = DOMAIN db.bundle \ {ref}
        /\ \A x \in DOMAIN db'.bundle : db'.bundle[x] = db.bundle[x] /\ IdOf(db', x) = IdOf(db, x)
        /\ db'.lock = LocksLeft(db.lock, id)
        /\ \A x : x # id => Same(x)
    BY Deleted
  <1>2. \A x : IsLocked(db', x) <=> x # id /\ IsLocked(db, x)
    BY <1>1, LocksAfter DEF IsLocked
  <1>3. LocksHold(db')
    <2>1. \A l \in db'.lock : RefWith(db', l.id) # {}
      <3> SUFFICES ASSUME NEW l \in db'.lock PROVE RefWith(db', l.id) # {}
        OBVIOUS
      <3>1. l.id # id /\ RefWith(db, l.id) # {}
        BY <1>1, LocksAfter DEF LockInv, LocksHold
      <3> QED  BY <1>1, <3>1 DEF Same
    <2>2. ASSUME NEW l \in db'.lock, NEW b \in DOMAIN db'.bundle, l.id = IdOf(db', b), l.via = l.id
          PROVE  \A x \in db'.bundle[b].uses : IsLocked(db', x)
      <3>1. b \in DOMAIN db.bundle /\ l.id = IdOf(db, b) /\ db'.bundle[b] = db.bundle[b]
        BY <1>1, <2>2
      <3>2. l.via # Null
        BY <2>2, <3>1, NullAssumption DEF Base, Tables, IsBundle, IdOf
      <3>3. PICK k \in db.lock : k.id = l.id /\ k.via = l.via
        BY <1>1, <3>2, LocksAfter
      <3>4. \A x \in db.bundle[b].uses : IsLocked(db, x) /\ x # id
        BY <1>1, <2>2, <3>1, <3>3 DEF LockInv, LocksHold, UsedBy
      <3> QED  BY <1>2, <3>1, <3>4
    <2> QED  BY <2>1, <2>2 DEF LocksHold
  <1>4. \A k \in Threads \ {h} :
          /\ KnowsLock(db', req[k]) /\ FolderOf(db', disk', req[k])
          /\ req[k].step = "copied" => req[k].ref # ref
    <2> SUFFICES ASSUME NEW k \in Threads \ {h}
                 PROVE  /\ KnowsLock(db', req[k]) /\ FolderOf(db', disk', req[k])
                        /\ req[k].step = "copied" => req[k].ref # ref
      OBVIOUS
    <2>1. req[k].step \in Holding => id \notin req[k].excl /\ id \notin req[k].share
      BY <1>1 DEF Free, At
    <2>2. KnowsLock(db', req[k])
      <3> HIDE DEF id
      <3> QED  BY <1>1, <1>2, <2>1, OthersKnow
    <2>3. Alone(db, req[k]) /\ FolderOf(db, disk, req[k])
      BY DEF Base, LockInv
    <2> QED  BY <1>1, <2>2, <2>3 DEF FolderOf, Alone, CopyKnows
  <1>5. /\ KnowsLock(db', q) /\ FolderOf(db', disk', q)
        /\ \A k \in Threads \ {h} : Exclude(q, req[k]) /\ Exclude(req[k], q)
    BY <1>1, <1>4 DEF KnowsLock, FolderOf, Exclude, RowSteps
  <1> HIDE DEF q, id
  <1> QED  BY <1>1, <1>3, <1>4, <1>5, LockStep DEF LockInv, EachHasFolder

LEMMA LockTakeRow ==
  ASSUME Base, LockInv, NEW h \in Threads, TakeRow(h)
  PROVE  LockInv'
  <1> DEFINE r == req[h]
  <1> DEFINE q == req'[h]
  <1>1. /\ r.step = "wait" /\ ~r.locked /\ req' = [req EXCEPT ![h] = q] /\ UNCHANGED <<db, disk>>
        /\ q.step \in {"hold", "written"} /\ q.what = r.what /\ q.what # "lock"
        /\ q.id = r.id /\ q.locked = r.locked
    BY TakesRow DEF Taken
  <1> HIDE DEF q
  <1>2. KnowsLock(db, q) /\ FolderOf(db, disk, q)
    BY <1>1 DEF LockInv, KnowsLock, FolderOf, RowSteps
  <1>3. \A k \in Threads \ {h} : Exclude(q, req[k]) /\ Exclude(req[k], q)
    BY <1>1 DEF LockInv, Exclude, RowSteps
  <1> QED  BY <1>1, <1>2, <1>3, LockRequest

LEMMA LockTakeLock ==
  ASSUME Base, LockInv, Closed, NEW h \in Threads, TakeLock(h)
  PROVE  LockInv'
  <1> DEFINE r == req[h]
  <1> DEFINE q == req'[h]
  <1>1. /\ r.step = "wait" /\ ~r.locked /\ req' = [req EXCEPT ![h] = q] /\ UNCHANGED <<db, disk>>
        /\ q.step = "written" /\ q.what = "lock" /\ q.id = r.id /\ q.ref = r.ref /\ q.locked = r.locked
        /\ q.share = db.bundle[r.ref].uses /\ q.to = LockRows(db, r.ref)
        /\ \A k \in At({"wait"}) : req[k].id \notin q.share
    BY TakesLock DEF Taken, Closed
  <1> HIDE DEF q
  <1>2. KnowsLock(db, q) /\ FolderOf(db, disk, q)
    BY <1>1 DEF LockInv, KnowsLock, FolderOf, RowSteps
  <1>3. \A k \in Threads \ {h} : Exclude(q, req[k]) /\ Exclude(req[k], q)
    BY <1>1 DEF LockInv, Exclude, RowSteps, At
  <1> QED  BY <1>1, <1>2, <1>3, LockRequest

LEMMA FoldersWritten ==
  ASSUME Base, NEW h \in Threads, WriteDisk(h)
  PROVE  /\ DOMAIN disk \subseteq DOMAIN disk'
         /\ \A x \in DOMAIN disk : x # req[h].ref => disk'[x] = disk[x]
  BY DEF WriteDisk, With

LEMMA LockWriteDisk ==
  ASSUME Base, LockInv, NEW h \in Threads, WriteDisk(h)
  PROVE  LockInv'
  <1> DEFINE r == req[h]
  <1> DEFINE q == req'[h]
  <1>1. /\ r.step = "hold" /\ req' = [req EXCEPT ![h] = q] /\ UNCHANGED db
        /\ q.step = "written" /\ q.what = r.what /\ q.what # "lock"
        /\ q.id = r.id /\ q.locked = r.locked
    BY WritesDisk DEF Taken, HasRow
  <1> HIDE DEF q
  <1>2. KnowsLock(db, q) /\ FolderOf(db, disk', q)
    BY <1>1 DEF LockInv, KnowsLock, FolderOf, RowSteps
  <1>3. \A k \in Threads \ {h} : Exclude(q, req[k]) /\ Exclude(req[k], q)
    BY <1>1 DEF LockInv, Exclude, RowSteps
  <1> QED  BY <1>1, <1>2, <1>3, FoldersWritten, LockRequest

LEMMA LockAsked ==
  ASSUME Base, LockInv, Closed, NEW h \in Threads, NEW ref, MayAsk(h, ref),
         NEW what, NEW path, NEW body, NEW mode,
         req' = [req EXCEPT ![h] = RowRequest(ref, what, path, body, mode)], UNCHANGED <<db, disk>>
  PROVE  LockInv'
  <1> DEFINE r == RowRequest(ref, what, path, body, mode)
  <1>1. /\ r.step = "wait" /\ r.ref = ref /\ r.id = IdOf(db, ref)
        /\ r.locked = IsLocked(db, r.id) /\ req' = [req EXCEPT ![h] = r]
    BY DEF RowRequest
  <1>2. /\ ref \in DOMAIN db.bundle /\ Free(h, IdOf(db, ref))
        /\ \A k \in At({"wait"}) : req[k].ref # ref
    BY DEF MayAsk, Closed
  <1> HIDE DEF r
  <1>3. KnowsLock(db, r) /\ FolderOf(db, disk, r)
    BY <1>1 DEF KnowsLock, FolderOf
  <1>4. ASSUME NEW k \in Threads \ {h} PROVE Exclude(r, req[k]) /\ Exclude(req[k], r)
    <2>1. Alone(db, req[k])
      BY DEF Base
    <2>2. req[k].step = "wait" => req[k].id # r.id
      BY <1>1, <1>2, <2>1 DEF Alone, KnowsId, IdSteps, RowSteps, Subject, At
    <2>3. req[k].step \in {"hold", "written"} => r.id \notin req[k].share /\ r.id # req[k].id
      BY <1>1, <1>2, <2>1 DEF Free, At, Holding, Alone, HasRow
    <2> QED  BY <1>1, <2>2, <2>3 DEF Exclude, RowSteps
  <1> QED  BY <1>1, <1>3, <1>4, LockRequest

LEMMA LockAsk ==
  ASSUME Base, LockInv, Closed, NEW h \in Threads, NEW ref, Ask(h, ref)
  PROVE  LockInv'
  <1>1. ASSUME NEW what, NEW path, NEW body, NEW mode, AskRow(h, ref, what, path, body, mode)
        PROVE  LockInv'
    BY <1>1, LockAsked DEF AskRow, Begin
  <1> QED  BY <1>1 DEF Ask

LEMMA LockIdle ==
  ASSUME LockInv, UNCHANGED <<db, disk, req>>
  PROVE  LockInv'
  BY DEF LockInv, LocksHold, IsLocked, RefWith, IdOf, EachHasFolder

LEMMA LockChunk ==
  ASSUME Base, LockInv, Closed, NEW h \in Threads, NEW offset, NEW n, Chunk(h, offset, n)
  PROVE  LockInv'
  <1>1. CASE UNCHANGED req
    BY <1>1, LockIdle DEF Chunk
  <1>2. ASSUME NEW body, MayAsk(h, upload.ref),
               Step(h, RowRequest(upload.ref, "save", "data", body, NewMode)), UNCHANGED <<db, disk>>
        PROVE  LockInv'
    BY <1>2, LockAsked DEF Step
  <1>3. \/ UNCHANGED req
        \/ \E body : /\ MayAsk(h, upload.ref)
                     /\ Step(h, RowRequest(upload.ref, "save", "data", body, NewMode))
    <2>1. Put(offset, n).ref = upload.ref
      BY DEF Put
    <2> QED  BY <2>1 DEF Chunk
  <1> QED  BY <1>1, <1>2, <1>3 DEF Chunk

\* The folder of a new bundle is made while no row, hook or copy has its name.
LEMMA FolderMade ==
  ASSUME Base, LockInv, NEW h \in Threads, NEW ref, NEW from, AskBundle(h, ref, from)
  PROVE  /\ ref \notin DOMAIN db.bundle /\ UNCHANGED db
         /\ HooksFirst => \A k \in At({"copied", "hook"}) : req[k].ref # ref
         /\ req' = [req EXCEPT ![h] = req'[h]] /\ req'[h].step = "copied" /\ req'[h].ref = ref
         /\ DOMAIN disk' = DOMAIN disk \union {ref}
         /\ \A x \in DOMAIN disk : x # ref => disk'[x] = disk[x]
  <1> DEFINE new == IF from = Null THEN Empty ELSE Folder(from)
  <1> DEFINE old == RemoveBundle(disk, ref)
  <1>1. disk' = With(old, ref, new)
    BY DEF AskBundle, MkBundle, RemoveBundle, Without, Restrict
  <1>2. DOMAIN old = DOMAIN disk \ {ref} /\ \A x \in DOMAIN old : old[x] = disk[x]
    BY DEF RemoveBundle, Without, Restrict
  <1> HIDE DEF new, old
  <1>3. DOMAIN disk' = DOMAIN disk \union {ref} /\ \A x \in DOMAIN disk : x # ref => disk'[x] = disk[x]
    BY <1>1, <1>2 DEF With
  <1>4. req'[h].step = "copied" /\ req'[h].ref = ref /\ req' = [req EXCEPT ![h] = req'[h]]
    BY DEF AskBundle, Begin, Base, Rec
  <1>5. HooksFirst => \A k \in At({"copied", "hook"}) : req[k].ref # ref
    BY DEF AskBundle, At, Hooks, HooksFirst
  <1> QED  BY <1>3, <1>4, <1>5 DEF AskBundle

LEMMA LockAskBundle ==
  ASSUME Base, LockInv, NEW h \in Threads, NEW ref, NEW from, AskBundle(h, ref, from)
  PROVE  LockInv'
  <1> DEFINE q == req'[h]
  <1>1. /\ UNCHANGED db /\ (HooksFirst => \A k \in At({"copied", "hook"}) : req[k].ref # ref)
        /\ req' = [req EXCEPT ![h] = q] /\ q.step = "copied" /\ q.ref = ref
        /\ DOMAIN disk' = DOMAIN disk \union {ref}
    BY FolderMade
  <1> HIDE DEF q
  <1>2. KnowsLock(db, q) /\ FolderOf(db, disk', q)
    BY <1>1 DEF KnowsLock, FolderOf, RowSteps
  <1>3. \A k \in Threads \ {h} : Exclude(q, req[k]) /\ Exclude(req[k], q)
    BY <1>1 DEF Exclude, RowSteps, At
  <1> QED  BY <1>1, <1>2, <1>3, LockRequest

\* The hook of a deletion removes a folder that no row has.
LEMMA FolderRemoved ==
  ASSUME Base, LockInv, NEW h \in Threads, RemoveFolder(h)
  PROVE  LET ref == req[h].ref
         IN /\ req[h].step = "hook" /\ (HooksFirst => ref \notin DOMAIN db.bundle)
            /\ req' = [req EXCEPT ![h] = Idle] /\ UNCHANGED db
            /\ DOMAIN disk' = DOMAIN disk \ {ref}
            /\ \A x \in DOMAIN disk' : disk'[x] = disk[x]
  BY DEF RemoveFolder, LockInv, FolderOf, RemoveBundle, Without, Restrict, End, Step

LEMMA LockRemoveFolder ==
  ASSUME Base, LockInv, NEW h \in Threads, RemoveFolder(h)
  PROVE  LockInv'
  <1> DEFINE ref == req[h].ref
  <1>1. /\ req[h].step = "hook" /\ (HooksFirst => ref \notin DOMAIN db.bundle)
        /\ req' = [req EXCEPT ![h] = Idle] /\ UNCHANGED db
        /\ DOMAIN disk' = DOMAIN disk \ {ref}
    BY FolderRemoved
  <1>2. LocksHold(db') /\ EachHasFolder(db', disk')
    BY <1>1 DEF LockInv, EachHasFolder
  <1>3. \A k \in Threads \ {h} : KnowsLock(db', req[k]) /\ FolderOf(db', disk', req[k])
    BY <1>1 DEF LockInv, FolderOf, Exclude
  <1> QED  BY <1>1, <1>2, <1>3, IdleUnlocking, LockStep

LEMMA LockInit ==
  ASSUME Init
  PROVE  LockInv
  <1>1. \A h \in Threads : req[h] = Idle
    BY DEF Init
  <1>2. db.lock = {} /\ EachHasFolder(db, disk)
    BY DEF Init, Deployed, EachHasFolder
  <1> QED  BY <1>1, <1>2, IdleUnlocking DEF LockInv, LocksHold

LEMMA LockCrash ==
  ASSUME LockInv, Crash
  PROVE  LockInv'
  <1>1. \A h \in Threads : req'[h] = Idle
    BY DEF Crash
  <1>2. LocksHold(db') /\ EachHasFolder(db', disk')
    BY DEF Crash, LockInv, LocksHold, IsLocked, RefWith, IdOf, EachHasFolder
  <1> QED  BY <1>1, <1>2, IdleUnlocking DEF LockInv

LEMMA LockNext ==
  ASSUME Base, LockInv, Closed, [Next]_vars
  PROVE  LockInv'
  <1>1. CASE UNCHANGED vars
    BY <1>1, LockIdle DEF vars
  <1>2. ASSUME NEW h \in Threads, Continue(h) PROVE LockInv'
    <2>1. CASE End(h) /\ UNCHANGED <<db, disk>>
      BY <2>1, LockOther DEF End, Step, Idle, RowSteps
    <2>2. CASE ReadFiles(h) \/ StartDeploy(h)
      <3>1. req'[h].step \in {"idle", "files", "run"}
        BY <2>2 DEF ReadFiles, StartDeploy, End, Step, Idle, Base, Rec
      <3>2. req' = [req EXCEPT ![h] = req'[h]] /\ UNCHANGED <<db, disk>>
        BY <2>2 DEF ReadFiles, StartDeploy, End, Step, Base, Rec
      <3> QED  BY <3>1, <3>2, LockOther DEF RowSteps
    <2>3. CASE EndDeploy(h)
      <3>1. db'.bundle = db.bundle /\ db'.lock = db.lock
        BY <2>3 DEF EndDeploy, Base, Tables, Rec
      <3> QED  BY <2>3, <3>1, LockOther DEF EndDeploy, End, Step, Idle, RowSteps
    <2>4. CASE CommitRow(h)
      BY <2>4, LockCommitRow, LockCommitLock
    <2> QED  BY <1>2, <2>1, <2>2, <2>3, <2>4, LockTakeRow, LockTakeLock, LockWriteDisk,
                LockCopyFiles, LockCommitBundle, LockRemoveFolder
             DEF Continue, Refuse, FailCommit
  <1>3. ASSUME NEW h \in Threads, NEW ref \in Refs, Requested(h, ref) PROVE LockInv'
    <2>1. CASE AskDeploy(h, ref)
      <3>1. req'[h].step = "sha" /\ req' = [req EXCEPT ![h] = req'[h]] /\ UNCHANGED <<db, disk>>
        BY <2>1 DEF AskDeploy, Begin, Base, Rec
      <3> QED  BY <3>1, LockOther DEF RowSteps
    <2> QED  BY <1>3, <2>1, LockAsk, LockAskDelete, LockAskBundle DEF Requested
  <1>4. ASSUME NEW h \in Threads, NEW offset, NEW n, Chunk(h, offset, n) PROVE LockInv'
    BY <1>4, LockChunk
  <1>5. ASSUME NEW ref, NEW body, AskUpload(ref, body) PROVE LockInv'
    BY <1>5, LockIdle DEF AskUpload
  <1>6. CASE DropUpload \/ Crash
    BY <1>6, LockIdle, LockCrash DEF DropUpload
  <1> QED  BY <1>1, <1>2, <1>3, <1>4, <1>5, <1>6 DEF Next

-----------------------------------------------------------------------------
LEMMA KeptSame ==
  ASSUME UNCHANGED disk, \A x \in DOMAIN db'.bundle : x \in DOMAIN db.bundle => db'.bundle[x] = db.bundle[x]
  PROVE  LockedKept
  BY DEF LockedKept

LEMMA KeptFolders ==
  ASSUME UNCHANGED db, \A x \in DOMAIN db.bundle : IsLocked(db, IdOf(db, x)) => disk'[x] = disk[x]
  PROVE  LockedKept
  BY DEF LockedKept

LEMMA KeptNext ==
  ASSUME Base, LockInv, Closed, HooksFirst, [Next]_vars
  PROVE  LockedKept
  <1>1. CASE UNCHANGED <<db, disk>>
    BY <1>1 DEF LockedKept
  <1>2. ASSUME NEW h \in Threads, CommitRow(h) PROVE LockedKept
    <2>1. CASE req[h].what = "lock"
      BY <1>2, <2>1, LockCommitted, KeptSame
    <2>2. CASE req[h].what # "lock"
      <3> DEFINE r == req[h]
      <3>1. /\ r.step = "written" /\ IdOf(db, r.ref) = r.id /\ UNCHANGED disk
            /\ \A x \in DOMAIN db.bundle : x # r.ref => db'.bundle[x] = db.bundle[x]
        BY <1>2, <2>2, RowCommitted DEF HasRow
      <3>2. ~IsLocked(db, r.id)
        BY <3>1 DEF LockInv, KnowsLock, RowSteps
      <3> QED  BY <3>1, <3>2 DEF LockedKept
    <2> QED  BY <2>1, <2>2
  <1>3. ASSUME NEW h \in Threads, WriteDisk(h) PROVE LockedKept
    <2> DEFINE r == req[h]
    <2>1. r.step = "hold" /\ IdOf(db, r.ref) = r.id /\ UNCHANGED db
      BY <1>3 DEF WriteDisk, Base, Alone, HasRow
    <2>2. ~IsLocked(db, r.id)
      BY <2>1 DEF LockInv, KnowsLock, RowSteps
    <2> QED  BY <1>3, <2>1, <2>2, FoldersWritten, KeptFolders DEF LockInv, EachHasFolder
  <1>4. ASSUME NEW h \in Threads, NEW ref, AskDelete(h, ref) PROVE LockedKept
    BY <1>4, Deleted, KeptSame
  <1>5. ASSUME NEW h \in Threads, CommitBundle(h) PROVE LockedKept
    BY <1>5, BundleCommitted, KeptSame
  <1>6. ASSUME NEW h \in Threads, NEW ref, NEW from, AskBundle(h, ref, from) PROVE LockedKept
    <2>1. UNCHANGED db /\ \A x \in DOMAIN db.bundle : disk'[x] = disk[x]
      BY <1>6, FolderMade DEF LockInv, EachHasFolder
    <2> QED  BY <2>1, KeptFolders
  <1>7. ASSUME NEW h \in Threads, RemoveFolder(h) PROVE LockedKept
    <2>1. UNCHANGED db /\ \A x \in DOMAIN db.bundle : disk'[x] = disk[x]
      BY <1>7, FolderRemoved DEF LockInv, EachHasFolder
    <2> QED  BY <2>1, KeptFolders
  <1>8. ASSUME NEW h \in Threads, EndDeploy(h) PROVE LockedKept
    <2>1. db'.bundle = db.bundle /\ UNCHANGED disk
      BY <1>8 DEF EndDeploy, Base, Tables, Rec
    <2> QED  BY <2>1, KeptSame
  <1>9. ASSUME NEW h \in Threads, Continue(h) PROVE LockedKept
    BY <1>1, <1>2, <1>3, <1>5, <1>7, <1>8, <1>9
       DEF Continue, TakeRow, TakeLock, Refuse, FailCommit, CopyFiles, ReadFiles, StartDeploy
  <1>10. ASSUME NEW h \in Threads, NEW ref, Requested(h, ref) PROVE LockedKept
    BY <1>1, <1>4, <1>6, <1>10 DEF Requested, Ask, AskRow, AskDeploy
  <1> QED  BY <1>1, <1>9, <1>10 DEF Next, Chunk, AskUpload, DropUpload, Crash, vars

\* Once a lock is committed, no save, removal, mode, copy or hook that ran
\* beside it changes the row or the folder of what it covers: the build and
\* the commons it uses.
THEOREM LockSound ==
  ASSUME Closed, HooksFirst
  PROVE  Spec => LockedStays
  <1>1. Base /\ LockInv /\ [Next]_vars => Base' /\ LockInv' /\ LockedKept
    BY BaseNext, LockNext, KeptNext
  <1> QED  BY <1>1, BaseInit, LockInit, PTL DEF Spec, LockedStays

-----------------------------------------------------------------------------
(* A deployment that succeeded, and the lock that counts on it.            *)

PlansKept == "plan" \notin Windows

Pairs(f) == {<<id, f[id]>> : id \in DOMAIN f}

\* A plan holds the rows it was made from; a run installs what was signed.
PlanOf(d, r) ==
  /\ r.step \in {"sha", "files"} =>
       /\ r.ref \in DOMAIN d.bundle /\ IdOf(d, r.ref) = r.id
       /\ r.sha = d.bundle[r.ref].files /\ r.share = {r.id} \union d.bundle[r.ref].uses
  /\ r.step = "files" => r.files = r.sha /\ r.commons = UsedFiles(d, r.ref)
  /\ r.step = "run" => r.files = r.sha /\ r.sig = Pairs(r.commons) /\ Rec(r.commons, DOMAIN r.commons)
  /\ r.step = "written" /\ r.what = "lock" => IsLockable(d, r.ref)

OkIsWhole(d) ==
  \A o \in d.ok : o.files = o.sha /\ o.sig = Pairs(o.commons) /\ Rec(o.commons, DOMAIN o.commons)

\* A build with a lock of its own has the files and commons of a deployment.
LockedWasOk(d) ==
  \A b \in DOMAIN d.bundle :
    (\E l \in d.lock : l.id = IdOf(d, b) /\ l.via = l.id) => IsLockable(d, b)

PlanInv ==
  /\ \A h \in Threads : PlanOf(db, req[h])
  /\ OkIsWhole(db) /\ LockedWasOk(db)

LEMMA PairsInjective ==
  ASSUME NEW f, NEW g, Rec(f, DOMAIN f), Rec(g, DOMAIN g), Pairs(f) = Pairs(g)
  PROVE  f = g
  <1>1. ASSUME NEW a, Rec(a, DOMAIN a), NEW id
        PROVE  /\ \A v : <<id, v>> \in Pairs(a) => id \in DOMAIN a /\ v = a[id]
               /\ id \in DOMAIN a => <<id, a[id]>> \in Pairs(a)
    BY DEF Pairs
  <1>2. DOMAIN f = DOMAIN g
    BY <1>1
  <1>3. \A id \in DOMAIN f : f[id] = g[id]
    BY <1>1, <1>2
  <1> QED  BY <1>2, <1>3 DEF Rec

\* The signature of a build's commons tells their ids and files, and no more.
LEMMA SigIsPairs ==
  ASSUME Base, NEW ref \in DOMAIN db.bundle
  PROVE  UsesSig(db, ref) = Pairs(UsedFiles(db, ref)) /\ Rec(UsedFiles(db, ref), DOMAIN UsedFiles(db, ref))
  <1> DEFINE uses == db.bundle[ref].uses
  <1> DEFINE f == UsedFiles(db, ref)
  <1>1. DOMAIN f = uses /\ Rec(f, DOMAIN f)
    BY DEF UsedFiles, Rec
  <1>2. ASSUME NEW c \in DOMAIN db.bundle, IdOf(db, c) \in uses
        PROVE  f[IdOf(db, c)] = db.bundle[c].sha
    <2>1. RefWith(db, IdOf(db, c)) = {c}
      BY DEF RefWith, Base, OneId
    <2>2. f[IdOf(db, c)] = db.bundle[CHOOSE x \in RefWith(db, IdOf(db, c)) : TRUE].files
      BY <1>2 DEF UsedFiles
    <2>3. (CHOOSE x \in RefWith(db, IdOf(db, c)) : TRUE) = c
      BY <2>1
    <2> QED  BY <2>2, <2>3 DEF Base, Tables, IsBundle, FolderSha
  <1>3. \A id \in uses : \E c \in DOMAIN db.bundle : IdOf(db, c) = id
    BY DEF Base, Names, NamesOf
  <1> HIDE DEF f
  <1>4. ASSUME NEW p \in UsesSig(db, ref) PROVE p \in Pairs(f)
    <2>1. PICK c \in DOMAIN db.bundle : IdOf(db, c) \in uses /\ p = <<IdOf(db, c), db.bundle[c].sha>>
      BY DEF UsesSig
    <2> QED  BY <1>1, <1>2, <2>1 DEF Pairs
  <1>5. ASSUME NEW p \in Pairs(f) PROVE p \in UsesSig(db, ref)
    <2>1. PICK id \in uses : p = <<id, f[id]>>
      BY <1>1 DEF Pairs
    <2>2. PICK c \in DOMAIN db.bundle : IdOf(db, c) = id
      BY <1>3
    <2> QED  BY <1>2, <2>1, <2>2 DEF UsesSig
  <1> QED  BY <1>1, <1>4, <1>5 DEF f

LEMMA PlanStep ==
  ASSUME Base, PlanInv, NEW h \in Threads, NEW r, req' = [req EXCEPT ![h] = r], PlanOf(db', r),
         \A k \in Threads \ {h} : PlanOf(db', req[k]), OkIsWhole(db'), LockedWasOk(db')
  PROVE  PlanInv'
  <1>1. \A k \in Threads : PlanOf(db', req'[k])
    BY DEF Base, Rec
  <1> QED  BY <1>1 DEF PlanInv

LEMMA SamePlans ==
  ASSUME db'.bundle = db.bundle, db.ok \subseteq db'.ok
  PROVE  /\ \A r : PlanOf(db, r) => PlanOf(db', r)
         /\ db'.lock = db.lock /\ LockedWasOk(db) => LockedWasOk(db')
  <1>1. \A b : /\ UsesSig(db', b) = UsesSig(db, b) /\ UsedFiles(db', b) = UsedFiles(db, b)
               /\ IsLockable(db, b) => IsLockable(db', b) /\ IdOf(db', b) = IdOf(db, b)
    BY DEF UsesSig, UsedFiles, RefWith, IsLockable, IdOf
  <1> QED  BY <1>1 DEF PlanOf, LockedWasOk, IdOf

\* No table changes.
LEMMA PlanRequest ==
  ASSUME Base, PlanInv, NEW h \in Threads, NEW r, req' = [req EXCEPT ![h] = r], UNCHANGED db,
         PlanOf(db, r)
  PROVE  PlanInv'
  BY PlanStep DEF PlanInv

LEMMA Planless ==
  ASSUME NEW d, NEW r, r.step \notin {"sha", "files", "run"}, r.step = "written" => r.what # "lock"
  PROVE  PlanOf(d, r)
  BY DEF PlanOf

\* What a request was told of rows is still so when other rows change.
LEMMA PlanKept ==
  ASSUME Base, LockInv, PlanInv, NEW k \in Threads, NEW x, \A id : id # x => Same(id),
         req[k].step \in Holding => x \notin req[k].excl /\ x \notin req[k].share,
         \A o \in db.ok : o.id # x => o \in db'.ok
  PROVE  PlanOf(db', req[k])
  <1> DEFINE r == req[k]
  <1>1. PlanOf(db, r) /\ KnowsLock(db, r) /\ Alone(db, r) /\ Names
    BY DEF PlanInv, LockInv, Base
  <1>2. ASSUME r.step \in {"sha", "files"} PROVE PlanOf(db', r)
    <2>1. /\ r.ref \in DOMAIN db.bundle /\ IdOf(db, r.ref) # x
          /\ \A id \in db.bundle[r.ref].uses : id # x
      BY <1>1, <1>2 DEF PlanOf, Holding
    <2>2. /\ db'.bundle[r.ref] = db.bundle[r.ref] /\ r.ref \in DOMAIN db'.bundle
          /\ UsedFiles(db', r.ref) = UsedFiles(db, r.ref)
      BY <1>1, <2>1, SameUses
    <2> QED  BY <1>1, <1>2, <2>2 DEF PlanOf, IdOf
  <1>3. ASSUME r.step = "written", r.what = "lock" PROVE IsLockable(db', r.ref)
    <2>1. /\ r.ref \in DOMAIN db.bundle /\ IdOf(db, r.ref) # x
          /\ \A id \in db.bundle[r.ref].uses : id # x
      BY <1>1, <1>3 DEF Alone, HasRow, KnowsLock, Holding
    <2>2. db'.bundle[r.ref] = db.bundle[r.ref] /\ UsesSig(db', r.ref) = UsesSig(db, r.ref)
      BY <1>1, <2>1, SameUses
    <2> QED  BY <1>1, <1>3, <2>1, <2>2 DEF PlanOf, IsLockable, IdOf
  <1> HIDE DEF r
  <1>4. PlanOf(db', r)
    BY <1>1, <1>2, <1>3 DEF PlanOf
  <1> QED  BY <1>4 DEF r

LEMMA LockedKeptOk ==
  ASSUME Base, LockInv, PlanInv, NEW x, \A id : id # x => Same(id),
         \A l \in db'.lock, b \in DOMAIN db'.bundle :
           l.id = IdOf(db', b) /\ l.via = l.id =>
             /\ l.id # x /\ \E k \in db.lock : k.id = l.id /\ k.via = l.via
             /\ b \in DOMAIN db.bundle => \A id \in db.bundle[b].uses : id # x,
         \A o \in db.ok : o.id # x => o \in db'.ok
  PROVE  LockedWasOk(db')
  <1> SUFFICES ASSUME NEW b \in DOMAIN db'.bundle, NEW l \in db'.lock, l.id = IdOf(db', b), l.via = l.id
               PROVE  IsLockable(db', b)
    BY DEF LockedWasOk
  <1>1. l.id # x /\ Same(l.id)
    OBVIOUS
  <1>2. b \in DOMAIN db.bundle /\ IdOf(db, b) = l.id
    BY <1>1 DEF Same, RefWith
  <1>3. IsLockable(db, b)
    BY <1>2 DEF PlanInv, LockedWasOk
  <1>4. db'.bundle[b] = db.bundle[b] /\ UsesSig(db', b) = UsesSig(db, b)
    BY <1>1, <1>2, SameUses DEF Base
  <1> QED  BY <1>1, <1>2, <1>3, <1>4 DEF IsLockable, IdOf

-----------------------------------------------------------------------------
LEMMA IdlePlanless ==
  ASSUME NEW d
  PROVE  PlanOf(d, Idle)
  BY Planless DEF Idle

LEMMA PlanCommitRow ==
  ASSUME Base, LockInv, PlanInv, NEW h \in Threads, CommitRow(h), req[h].what # "lock"
  PROVE  PlanInv'
  <1> DEFINE r == req[h]
  <1>1. /\ r.step = "written" /\ HasRow(db, r) /\ req' = [req EXCEPT ![h] = Idle]
        /\ DOMAIN db'.bundle = DOMAIN db.bundle
        /\ \A x \in DOMAIN db.bundle : IdOf(db', x) = IdOf(db, x)
        /\ db'.lock = db.lock /\ db'.ok = db.ok /\ \A id : id # r.id => Same(id)
    BY RowCommitted
  <1>2. ~IsLocked(db, r.id)
    BY <1>1 DEF LockInv, KnowsLock, RowSteps
  <1>3. \A k \in Threads \ {h} : PlanOf(db', req[k])
    <2> SUFFICES ASSUME NEW k \in Threads \ {h} PROVE PlanOf(db', req[k])
      OBVIOUS
    <2>1. req[k].step \in Holding => r.id \notin req[k].excl /\ r.id \notin req[k].share
      BY <1>1 DEF Base, Apart, HasRow, Holding
    <2> HIDE DEF r
    <2> QED  BY <1>1, <2>1, PlanKept
  <1> HIDE DEF r
  <1>4. ASSUME NEW l \in db'.lock, NEW b \in DOMAIN db'.bundle, l.id = IdOf(db', b), l.via = l.id
        PROVE  /\ l.id # r.id /\ \E k \in db.lock : k.id = l.id /\ k.via = l.via
               /\ \A id \in db.bundle[b].uses : id # r.id
    <2>1. l \in db.lock /\ b \in DOMAIN db.bundle /\ l.id = IdOf(db, b)
      BY <1>1, <1>4
    <2>2. \A id \in db.bundle[b].uses : IsLocked(db, id)
      BY <1>4, <2>1 DEF LockInv, LocksHold
    <2> QED  BY <1>2, <2>1, <2>2 DEF IsLocked
  <1>5. LockedWasOk(db')
    <2> DEFINE x == r.id
    <2>1. (\A id : id # x => Same(id)) /\ \A o \in db.ok : o.id # x => o \in db'.ok
      BY <1>1
    <2>2. \A l \in db'.lock, b \in DOMAIN db'.bundle :
            l.id = IdOf(db', b) /\ l.via = l.id =>
              /\ l.id # x /\ \E k \in db.lock : k.id = l.id /\ k.via = l.via
              /\ b \in DOMAIN db.bundle => \A id \in db.bundle[b].uses : id # x
      BY <1>4
    <2> HIDE DEF x
    <2> QED  BY <2>1, <2>2, LockedKeptOk
  <1>6. OkIsWhole(db')
    BY <1>1 DEF PlanInv, OkIsWhole
  <1> QED  BY <1>1, <1>3, <1>5, <1>6, IdlePlanless, PlanStep

LEMMA PlanCommitLock ==
  ASSUME Base, LockInv, PlanInv, NEW h \in Threads, CommitRow(h), req[h].what = "lock"
  PROVE  PlanInv'
  <1> DEFINE r == req[h]
  <1>1. /\ r.step = "written" /\ HasRow(db, r) /\ req' = [req EXCEPT ![h] = Idle]
        /\ db'.bundle = db.bundle /\ db'.ok = db.ok /\ db'.lock = db.lock \union r.to
        /\ r.to = LockRows(db, r.ref) /\ IsLockable(db, r.ref)
        /\ r.ref \in DOMAIN db.bundle /\ IdOf(db, r.ref) = r.id
    BY LockCommitted DEF LockInv, KnowsLock, HasRow, PlanInv, PlanOf
  <1> HIDE DEF r
  <1>2. \A l \in r.to : l.via = r.id
    BY <1>1 DEF LockRows
  <1>3. ASSUME NEW b \in DOMAIN db'.bundle, NEW l \in db'.lock, l.id = IdOf(db', b), l.via = l.id
        PROVE  IsLockable(db', b)
    <2>1. b \in DOMAIN db.bundle /\ l.id = IdOf(db, b)
      BY <1>1, <1>3 DEF IdOf
    <2>2. CASE l \in db.lock
      BY <1>1, <1>3, <2>1, <2>2, SamePlans DEF PlanInv, LockedWasOk, IsLockable, UsesSig, IdOf
    <2>3. CASE l \in r.to
      <3>1. b = r.ref
        BY <1>1, <1>2, <1>3, <2>1, <2>3 DEF Base, OneId
      <3> QED  BY <1>1, <3>1 DEF IsLockable, UsesSig, IdOf
    <2> QED  BY <1>1, <1>3, <2>2, <2>3
  <1>4. LockedWasOk(db') /\ OkIsWhole(db')
    BY <1>1, <1>3 DEF LockedWasOk, PlanInv, OkIsWhole
  <1> QED  BY <1>1, <1>4, IdlePlanless, SamePlans, PlanStep DEF PlanInv

LEMMA PlanCommitBundle ==
  ASSUME Base, LockInv, PlanInv, NEW h \in Threads, CommitBundle(h)
  PROVE  PlanInv'
  <1> DEFINE r == req[h]
  <1>1. /\ req' = [req EXCEPT ![h] = Idle] /\ db'.lock = db.lock /\ db'.ok = db.ok
        /\ \A id : id # db.next => Same(id)
    BY BundleCommitted
  <1>2. \A id : RefWith(db, id) # {} => id # db.next
    BY DEF Base, OneId, Tables, RefWith
  <1>3. \A k \in Threads \ {h} : PlanOf(db', req[k])
    <2> SUFFICES ASSUME NEW k \in Threads \ {h} PROVE PlanOf(db', req[k])
      OBVIOUS
    <2> DEFINE s == req[k]
    <2>1. Alone(db, s) /\ PlanOf(db, s) /\ KnowsLock(db, s)
      BY DEF Base, PlanInv, LockInv
    <2> HIDE DEF s
    <2>2. ASSUME NEW b \in DOMAIN db.bundle
          PROVE  /\ db'.bundle[b] = db.bundle[b] /\ b \in DOMAIN db'.bundle
                 /\ UsesSig(db', b) = UsesSig(db, b) /\ UsedFiles(db', b) = UsedFiles(db, b)
      <3>1. IdOf(db, b) # db.next /\ \A id \in db.bundle[b].uses : id # db.next
        BY <1>2 DEF Base, Names, NamesOf, RefWith
      <3> QED  BY <1>1, <3>1, SameUses DEF Base
    <2>3. s.step \in {"hold", "written"} => s.ref \in DOMAIN db.bundle
      BY <2>1 DEF Alone, HasRow
    <2>4. PlanOf(db', s)
      BY <1>1, <2>1, <2>2, <2>3 DEF PlanOf, IsLockable, IdOf
    <2> QED  BY <2>4 DEF s
  <1>4. ASSUME NEW l \in db'.lock, NEW b \in DOMAIN db'.bundle, l.id = IdOf(db', b), l.via = l.id
        PROVE  /\ l.id # db.next /\ \E k \in db.lock : k.id = l.id /\ k.via = l.via
               /\ b \in DOMAIN db.bundle => \A id \in db.bundle[b].uses : id # db.next
    <2>1. l \in db.lock /\ l.id # db.next
      BY <1>1, <1>2 DEF LockInv, LocksHold
    <2>2. b \in DOMAIN db.bundle => \A id \in db.bundle[b].uses : id # db.next
      BY <1>2 DEF Base, Names, NamesOf, RefWith
    <2> QED  BY <1>4, <2>1, <2>2
  <1>5. LockedWasOk(db') /\ OkIsWhole(db')
    <2> DEFINE x == db.next
    <2>1. (\A id : id # x => Same(id)) /\ \A o \in db.ok : o.id # x => o \in db'.ok
      BY <1>1
    <2>2. \A l \in db'.lock, b \in DOMAIN db'.bundle :
            l.id = IdOf(db', b) /\ l.via = l.id =>
              /\ l.id # x /\ \E k \in db.lock : k.id = l.id /\ k.via = l.via
              /\ b \in DOMAIN db.bundle => \A id \in db.bundle[b].uses : id # x
      BY <1>4
    <2> HIDE DEF x
    <2>3. OkIsWhole(db')
      BY <1>1 DEF PlanInv, OkIsWhole
    <2> QED  BY <2>1, <2>2, <2>3, LockedKeptOk
  <1> QED  BY <1>1, <1>3, <1>5, IdlePlanless, PlanStep

LEMMA PlanAskDelete ==
  ASSUME Base, LockInv, PlanInv, NEW h \in Threads, NEW ref, AskDelete(h, ref)
  PROVE  PlanInv'
  <1> DEFINE id == IdOf(db, ref)
  <1> DEFINE q == [step |-> "hook", ref |-> ref]
  <1>1. /\ ref \in DOMAIN db.bundle /\ Free(h, id) /\ UsedBy(db, id) = {}
        /\ req' = [req EXCEPT ![h] = q]
        /\ DOMAIN db'.bundle = DOMAIN db.bundle \ {ref}
        /\ \A x \in DOMAIN db'.bundle : IdOf(db', x) = IdOf(db, x)
        /\ db'.lock = LocksLeft(db.lock, id) /\ db'.ok = {o \in db.ok : o.id # id}
        /\ \A x : x # id => Same(x)
    BY Deleted
  <1>2. PlanOf(db', q)
    BY Planless
  <1>3. \A b \in DOMAIN db.bundle : IdOf(db, b) # Null
    BY NullAssumption DEF Base, Tables, IsBundle, IdOf
  <1> HIDE DEF q, id
  <1>4. \A k \in Threads \ {h} : PlanOf(db', req[k])
    <2> SUFFICES ASSUME NEW k \in Threads \ {h} PROVE PlanOf(db', req[k])
      OBVIOUS
    <2>1. req[k].step \in Holding => id \notin req[k].excl /\ id \notin req[k].share
      BY <1>1 DEF Free, At
    <2> QED  BY <1>1, <2>1, PlanKept
  <1>5. ASSUME NEW l \in db'.lock, NEW b \in DOMAIN db'.bundle, l.id = IdOf(db', b), l.via = l.id
        PROVE  /\ l.id # id /\ \E k \in db.lock : k.id = l.id /\ k.via = l.via
               /\ \A x \in db.bundle[b].uses : x # id
    <2>1. b \in DOMAIN db.bundle /\ IdOf(db', b) = IdOf(db, b)
      BY <1>1
    <2>2. l.via # Null
      BY <1>3, <1>5, <2>1
    <2>3. l.id # id /\ \E k \in db.lock : k.id = l.id /\ k.via = l.via
      BY <1>1, <2>2, LocksAfter
    <2>4. \A x \in db.bundle[b].uses : x # id
      BY <1>1, <2>1 DEF UsedBy
    <2> QED  BY <2>3, <2>4
  <1>6. LockedWasOk(db') /\ OkIsWhole(db')
    BY <1>1, <1>5, LockedKeptOk DEF PlanInv, OkIsWhole
  <1> QED  BY <1>1, <1>2, <1>4, <1>6, PlanStep

LEMMA PlanAskDeploy ==
  ASSUME Base, PlanInv, PlansKept, NEW h \in Threads, NEW ref, AskDeploy(h, ref)
  PROVE  PlanInv'
  <1> DEFINE read == {IdOf(db, ref)} \union db.bundle[ref].uses
  <1> DEFINE q == [step |-> "sha", ref |-> ref, id |-> IdOf(db, ref), sha |-> db.bundle[ref].sha,
                   excl |-> {}, share |-> IF "plan" \in Windows THEN {} ELSE read]
  <1>1. ref \in DOMAIN db.bundle /\ req' = [req EXCEPT ![h] = q] /\ UNCHANGED db
    BY DEF AskDeploy, Begin
  <1>2. db.bundle[ref].sha = db.bundle[ref].files
    BY <1>1 DEF Base, Tables, IsBundle, FolderSha
  <1>3. PlanOf(db, q)
    BY <1>1, <1>2 DEF PlanOf, PlansKept
  <1> HIDE DEF q
  <1> QED  BY <1>1, <1>3, PlanRequest

LEMMA PlanReadFiles ==
  ASSUME Base, PlanInv, NEW h \in Threads, ReadFiles(h)
  PROVE  PlanInv'
  <1> DEFINE r == req[h]
  <1>1. CASE Gone(r)
    BY <1>1, IdlePlanless, PlanRequest DEF ReadFiles, End, Step
  <1>2. CASE ~Gone(r)
    <2> DEFINE q == [step |-> "files", ref |-> r.ref, id |-> r.id, sha |-> r.sha,
                     excl |-> {}, share |-> r.share,
                     files |-> db.bundle[r.ref].files, commons |-> UsedFiles(db, r.ref)]
    <2>1. req' = [req EXCEPT ![h] = q] /\ UNCHANGED db /\ r.step = "sha" /\ PlanOf(db, r)
      BY <1>2 DEF ReadFiles, Step, PlanInv
    <2>2. PlanOf(db, q)
      BY <2>1 DEF PlanOf
    <2> HIDE DEF q
    <2> QED  BY <2>1, <2>2, PlanRequest
  <1> QED  BY <1>1, <1>2

LEMMA PlanStartDeploy ==
  ASSUME Base, PlanInv, NEW h \in Threads, StartDeploy(h)
  PROVE  PlanInv'
  <1> DEFINE r == req[h]
  <1>1. CASE Gone(r)
    BY <1>1, IdlePlanless, PlanRequest DEF StartDeploy, End, Step
  <1>2. CASE ~Gone(r)
    <2> DEFINE q == [step |-> "run", ref |-> r.ref, id |-> r.id, sha |-> r.sha,
                     files |-> r.files, commons |-> r.commons, sig |-> UsesSig(db, r.ref)]
    <2>1. req' = [req EXCEPT ![h] = q] /\ UNCHANGED db /\ r.step = "files" /\ PlanOf(db, r)
      BY <1>2 DEF StartDeploy, Step, PlanInv
    <2>2. r.files = r.sha /\ r.commons = UsedFiles(db, r.ref) /\ r.ref \in DOMAIN db.bundle
      BY <2>1 DEF PlanOf
    <2>3. UsesSig(db, r.ref) = Pairs(r.commons) /\ Rec(r.commons, DOMAIN r.commons)
      BY <2>2, SigIsPairs
    <2>4. PlanOf(db, q)
      BY <2>2, <2>3 DEF PlanOf
    <2> HIDE DEF q
    <2> QED  BY <2>1, <2>4, PlanRequest
  <1> QED  BY <1>1, <1>2

LEMMA PlanEndDeploy ==
  ASSUME Base, PlanInv, NEW h \in Threads, EndDeploy(h)
  PROVE  PlanInv'
  <1> DEFINE r == req[h]
  <1> DEFINE o == [id |-> r.id, sha |-> r.sha, sig |-> r.sig, files |-> r.files, commons |-> r.commons]
  <1>1. PlanOf(db, r) /\ r.step = "run" /\ req' = [req EXCEPT ![h] = Idle]
    BY DEF EndDeploy, PlanInv, End, Step
  <1>2. o.files = o.sha /\ o.sig = Pairs(o.commons) /\ Rec(o.commons, DOMAIN o.commons)
    BY <1>1 DEF PlanOf
  <1>3. db' = [db EXCEPT !.ok = @ \union {o}] \/ UNCHANGED db
    BY DEF EndDeploy
  <1> HIDE DEF o, r
  <1>4. db'.bundle = db.bundle /\ db'.lock = db.lock /\ (db'.ok = db.ok \/ db'.ok = db.ok \union {o})
    BY <1>3 DEF Base, Tables, Rec
  <1>5. OkIsWhole(db')
    BY <1>2, <1>4 DEF PlanInv, OkIsWhole
  <1>6. LockedWasOk(db') /\ \A k \in Threads \ {h} : PlanOf(db', req[k])
    BY <1>4, SamePlans DEF PlanInv
  <1> QED  BY <1>1, <1>5, <1>6, IdlePlanless, PlanStep

LEMMA PlanTake ==
  ASSUME Base, PlanInv, NEW h \in Threads, TakeRow(h) \/ TakeLock(h) \/ WriteDisk(h)
  PROVE  PlanInv'
  <1> DEFINE r == req[h]
  <1> DEFINE q == req'[h]
  <1>1. /\ req' = [req EXCEPT ![h] = q] /\ UNCHANGED db /\ q.step \in {"hold", "written"}
        /\ q.what = "lock" => IsLockable(db, q.ref)
    BY TakesRow, TakesLock, WritesDisk DEF Taken, HasRow
  <1> HIDE DEF q
  <1>2. PlanOf(db, q)
    BY <1>1 DEF PlanOf
  <1> QED  BY <1>1, <1>2, PlanRequest

LEMMA PlanOther ==
  ASSUME Base, PlanInv, NEW h \in Threads, NEW r, req' = [req EXCEPT ![h] = r], UNCHANGED db,
         r.step \in {"idle", "wait", "copied"}
  PROVE  PlanInv'
  BY Planless, PlanRequest

LEMMA PlanInit ==
  ASSUME Init
  PROVE  PlanInv
  <1>1. PICK b \in Builds, c \in Commons, x \in Texts : db = Deployed(b, c, x)
    BY DEF Init
  <1> DEFINE data == DataOnly(x)
  <1> DEFINE steps == StepsOnly({c})
  <1>2. /\ db.lock = {}
        /\ db.ok = {[id |-> 2, sha |-> steps, sig |-> {<<1, data>>},
                     files |-> steps, commons |-> [id \in {1} |-> data]]}
    BY <1>1 DEF Deployed
  <1> HIDE DEF data, steps
  <1>3. OkIsWhole(db) /\ LockedWasOk(db)
    BY <1>2 DEF OkIsWhole, LockedWasOk, Pairs, Rec
  <1>4. \A h \in Threads : req[h] = Idle
    BY DEF Init
  <1> QED  BY <1>3, <1>4, IdlePlanless DEF PlanInv

LEMMA PlanNext ==
  ASSUME Base, LockInv, PlanInv, PlansKept, [Next]_vars
  PROVE  PlanInv'
  <1>1. CASE UNCHANGED <<db, req>>
    BY <1>1 DEF PlanInv
  <1>2. ASSUME NEW h \in Threads, Continue(h) PROVE PlanInv'
    <2>1. CASE End(h) /\ UNCHANGED db
      BY <2>1, PlanOther DEF End, Step, Idle
    <2>2. CASE CommitRow(h)
      BY <2>2, PlanCommitRow, PlanCommitLock
    <2>3. CASE CopyFiles(h)
      BY <2>3, CopiesFiles, PlanOther DEF IsCopy
    <2> QED  BY <1>2, <2>1, <2>2, <2>3, PlanTake, PlanCommitBundle, PlanReadFiles, PlanStartDeploy,
                PlanEndDeploy
             DEF Continue, Refuse, FailCommit, RemoveFolder
  <1>3. ASSUME NEW h \in Threads, NEW ref, Requested(h, ref) PROVE PlanInv'
    <2>1. CASE Ask(h, ref)
      <3>1. ASSUME NEW what, NEW path, NEW body, NEW mode, AskRow(h, ref, what, path, body, mode)
            PROVE  PlanInv'
        BY <3>1, PlanOther DEF AskRow, Begin, RowRequest
      <3> QED  BY <2>1, <3>1 DEF Ask
    <2>2. ASSUME NEW from, AskBundle(h, ref, from) PROVE PlanInv'
      <3>1. req'[h].step = "copied" /\ req' = [req EXCEPT ![h] = req'[h]] /\ UNCHANGED db
        BY <2>2 DEF AskBundle, Begin, Base, Rec
      <3> QED  BY <3>1, PlanOther
    <2> QED  BY <1>3, <2>1, <2>2, PlanAskDelete, PlanAskDeploy DEF Requested
  <1>4. ASSUME NEW h \in Threads, NEW offset, NEW n, Chunk(h, offset, n) PROVE PlanInv'
    <2>1. CASE UNCHANGED req
      BY <1>1, <1>4, <2>1 DEF Chunk
    <2>2. ASSUME NEW ref, NEW body, Step(h, RowRequest(ref, "save", "data", body, NewMode)), UNCHANGED db
          PROVE  PlanInv'
      BY <2>2, PlanOther DEF Step, RowRequest
    <2>3. \/ UNCHANGED req
          \/ \E ref, body : Step(h, RowRequest(ref, "save", "data", body, NewMode))
      BY <1>4 DEF Chunk
    <2> QED  BY <1>4, <2>1, <2>2, <2>3 DEF Chunk
  <1>5. CASE Crash
    <2>1. \A h \in Threads : req'[h] = Idle
      BY <1>5 DEF Crash
    <2> QED  BY <1>5, <2>1, IdlePlanless DEF Crash, PlanInv
  <1> QED  BY <1>1, <1>2, <1>3, <1>4, <1>5 DEF Next, AskUpload, DropUpload, vars

\* Where a deployment reads sha, files and signature of one moment ("plan")
\* as well, a locked build has exactly the files and the commons that a
\* deployment that succeeded had installed: what update_lockable and the
\* signature of update_uses_sig are for.
THEOREM LockedSound ==
  ASSUME Closed, PlansKept
  PROVE  Spec => []LockedWasDeployed
  <1>1. ASSUME Base, PlanInv, NEW ref \in DOMAIN db.bundle,
               \E l \in db.lock : l.id = IdOf(db, ref) /\ l.via = l.id
        PROVE  \E o \in db.ok : /\ o.id = IdOf(db, ref)
                                /\ o.files = db.bundle[ref].files /\ o.commons = UsedFiles(db, ref)
    <2>1. PICK o \in db.ok : /\ o.id = IdOf(db, ref) /\ o.sha = db.bundle[ref].sha
                             /\ o.sig = UsesSig(db, ref)
      BY <1>1 DEF PlanInv, LockedWasOk, IsLockable
    <2>2. o.files = db.bundle[ref].files
      BY <1>1, <2>1 DEF PlanInv, OkIsWhole, Base, Tables, IsBundle, FolderSha
    <2>3. o.commons = UsedFiles(db, ref)
      BY <1>1, <2>1, SigIsPairs, PairsInjective DEF PlanInv, OkIsWhole
    <2> QED  BY <2>1, <2>2, <2>3
  <1>2. Base /\ PlanInv => LockedWasDeployed
    BY <1>1 DEF LockedWasDeployed
  <1>3. Base /\ LockInv /\ PlanInv /\ [Next]_vars => Base' /\ LockInv' /\ PlanInv'
    BY BaseNext, LockNext, PlanNext
  <1> QED  BY <1>2, <1>3, BaseInit, LockInit, PlanInit, PTL DEF Spec
=============================================================================
