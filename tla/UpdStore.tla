------------------------------ MODULE UpdStore ------------------------------
(***************************************************************************)
(* The store of update bundles: builds and the common bundles they use.    *)
(* A bundle is rows (files, uses, locks) and a folder on disk; a request   *)
(* changes the rows in a transaction, the folder before it commits, and    *)
(* what remains of a deleted folder after.  A build that was deployed with *)
(* success can be locked, together with the commons it uses.               *)
(***************************************************************************)
EXTENDS Integers, FiniteSets, Functions

CONSTANTS Builds, Commons,  \* names of bundles
          Texts,            \* contents of the file "data"
          Hole,             \* the content of an upload with bytes missing
          Threads,          \* requests that run at a time
          Size,             \* bytes of an upload
          MaxReq,           \* requests in a behaviour
          Windows,          \* races allowed, see README
          Null

ASSUME SizeAssumption == Size \in Nat
ASSUME HoleAssumption == Hole \notin Texts
ASSUME NullAssumption == Null \notin Nat

VARIABLES db,      \* the tables
          disk,    \* [bundle -> [path -> content]], the folders there are
          req,     \* [Threads -> the request a goroutine serves]
          upload,  \* the upload being received, or Null
          made     \* number of requests begun

vars == <<db, disk, req, upload, made>>

Refs == Builds \union Commons
Kind(ref) == IF ref \in Builds THEN Builds ELSE Commons
NewMode == 0         \* DefaultMode
Modes == {NewMode, 1}
Empty == [p \in {} |-> Null]        \* no file

Without(f, x) == Restrict(f, DOMAIN f \ {x})
With(f, x, v) == [y \in DOMAIN f \union {x} |-> IF y = x THEN v ELSE f[y]]

-----------------------------------------------------------------------------
(* Queries.  A row of update_bundles is [id, files, uses, sha], with files *)
(* a function from paths to [body, mode] and the body of "steps" the set   *)
(* of commons it names; a sha is modelled by what it is the hash of.       *)

IdOf(d, ref) == d.bundle[ref].id
RefWith(d, id) == {ref \in DOMAIN d.bundle : IdOf(d, ref) = id}
IsLocked(d, id) == \E l \in d.lock : l.id = id
UsedBy(d, id) == {ref \in DOMAIN d.bundle : id \in d.bundle[ref].uses}

\* refreshSha and FolderSha
FolderSha(files) == files
Refreshed(row) == [row EXCEPT !.sha = FolderSha(row.files)]

\* update_uses_sig and update_lockable
UsesSig(d, ref) ==
  {<<IdOf(d, c), d.bundle[c].sha>> : c \in {c \in DOMAIN d.bundle : IdOf(d, c) \in d.bundle[ref].uses}}
IsLockable(d, ref) == \E o \in d.ok : /\ o.id = IdOf(d, ref)
                                      /\ o.sha = d.bundle[ref].sha /\ o.sig = UsesSig(d, ref)

BuildAlone(d, ref) == {[id |-> IdOf(d, ref), via |-> IdOf(d, ref), sha |-> d.bundle[ref].sha]} \* mutant

\* LockBuildWithUses: the rows it inserts
LockRows(d, ref) ==
  {[id |-> IdOf(d, r), via |-> IdOf(d, ref), sha |-> d.bundle[r].sha] :
     r \in {ref} \union UNION {RefWith(d, id) : id \in d.bundle[ref].uses}}

\* The foreign keys of update_locks: its own locks go, those by way of it stay.
LocksLeft(locks, id) ==
  {[id |-> l.id, via |-> IF l.via = id THEN Null ELSE l.via, sha |-> l.sha] :
     l \in {k \in locks : k.id # id}}
DeleteBundle(d, ref) ==
  LET id == IdOf(d, ref)
  IN [d EXCEPT !.bundle = Without(@, ref),
               !.lock = LocksLeft(@, id),
               !.ok = {o \in @ : o.id # id}]

\* saveUses, and DeleteBundleUses: the commons that steps names
Named(files) == IF "steps" \in DOMAIN files THEN files["steps"].body ELSE {}
AddUses(d, row) == [row EXCEPT !.uses = @ \union {IdOf(d, c) : c \in Named(row.files)}] \* mutant
SaveUses(d, row) == [row EXCEPT !.uses = {IdOf(d, c) : c \in Named(row.files)}]

-----------------------------------------------------------------------------
Idle == [step |-> "idle"]
At(steps) == {h \in Threads : req[h].step \in steps}
Holding == {"hold", "written", "copied", "sha", "files"}

\* Row locks: FOR UPDATE or DELETE (excl), and the key shares a foreign key
\* takes (share).
Free(h, id) == \A k \in At(Holding) \ {h} : id \notin req[k].excl \union req[k].share
Sharable(h, ids) == \A k \in At(Holding) \ {h} : req[k].excl \intersect ids = {}

BodiesOf(files) == [p \in DOMAIN files |-> files[p].body]
File(body) == [body |-> body, mode |-> NewMode]
\* An overwritten file keeps its mode.
Save(files, path, body) ==
  With(files, path, [body |-> body, mode |-> IF path \in DOMAIN files THEN files[path].mode ELSE NewMode])
Chmod(files, path, mode) == [files EXCEPT ![path].mode = mode]

\* A build that uses a common bundle, deployed with success.
DataOnly(x) == [p \in {"data"} |-> File(x)]
StepsOnly(s) == [p \in {"steps"} |-> File(s)]
Deployed(b, c, x) ==
  LET data == DataOnly(x)
      steps == StepsOnly({c})
  IN [bundle |-> [r \in {b, c} |->
                    IF r = c THEN [id |-> 1, files |-> data, uses |-> {}, sha |-> data]
                    ELSE [id |-> 2, files |-> steps, uses |-> {1}, sha |-> steps]],
      lock |-> {}, next |-> 3,
      ok |-> {[id |-> 2, sha |-> steps, sig |-> {<<1, data>>},
               files |-> steps, commons |-> [id \in {1} |-> data]]}]

Init ==
  /\ \E b \in Builds, c \in Commons, x \in Texts :
       /\ db = Deployed(b, c, x)
       /\ disk = [r \in {b, c} |-> BodiesOf(IF r = c THEN DataOnly(x) ELSE StepsOnly({c}))]
  /\ req = [h \in Threads |-> Idle]
  /\ upload = Null
  /\ made = 0

Begin(h, r) ==
  /\ req[h] = Idle
  /\ made < MaxReq /\ made' = made + 1
  /\ req' = [req EXCEPT ![h] = r]

Step(h, r) == req' = [req EXCEPT ![h] = r]
End(h) == Step(h, Idle)

-----------------------------------------------------------------------------
(* Requests that change a file of a bundle.                                *)

Bodies(ref) == {<<"data", x>> : x \in Texts}
                 \union (IF ref \in Builds THEN {<<"steps", s>> : s \in SUBSET Commons} ELSE {})

\* GetBundleForUpdate: what it says of the locks is as of its start, also
\* when it then waits for the row.
RowRequest(ref, what, path, body, mode) ==
  [step |-> "wait", what |-> what, ref |-> ref, id |-> IdOf(db, ref), path |-> path,
   body |-> body, mode |-> mode, locked |-> IsLocked(db, IdOf(db, ref)),
   excl |-> {}, share |-> {}, to |-> Null]
MayAsk(h, ref) ==
  /\ ref \in DOMAIN db.bundle
  /\ \/ "wait" \in Windows
     \/ Free(h, IdOf(db, ref)) /\ \A k \in At({"wait"}) : req[k].ref # ref

AskRow(h, ref, what, path, body, mode) ==
  /\ MayAsk(h, ref)
  /\ Begin(h, RowRequest(ref, what, path, body, mode))
  /\ UNCHANGED <<db, disk, upload>>

\* updSaveText and updSetReplace, updSetMode, updDeleteFile, updLockBuild
Ask(h, ref) ==
  \/ \E w \in Bodies(ref) : AskRow(h, ref, "save", w[1], w[2], NewMode)
  \/ \E path \in {"data", "steps"} : \/ AskRow(h, ref, "remove", path, Null, NewMode)
                                     \/ \E m \in Modes : AskRow(h, ref, "mode", path, Null, m)
  \/ ref \in Builds /\ AskRow(h, ref, "lock", Null, Null, NewMode)

\* What a request makes of the bundle's files, and of its row.
FilesAfter(r) ==
  LET files == db.bundle[r.ref].files
  IN CASE r.what = "save" -> Save(files, r.path, r.body)
       [] r.what = "remove" -> Without(files, r.path)
       [] r.what = "mode" -> Chmod(files, r.path, r.mode)
Changed(r) ==
  LET row == [db.bundle[r.ref] EXCEPT !.files = FilesAfter(r)]
  IN Refreshed(IF r.path = "steps" /\ r.what # "mode" THEN SaveUses(db, row) ELSE row)
\* Steps name commons there are; a file that is not there is neither removed
\* nor given a mode.
Possible(r) ==
  IF r.what = "save" THEN r.path = "steps" => r.body \subseteq DOMAIN db.bundle
  ELSE r.path \in DOMAIN db.bundle[r.ref].files
\* The commons whose rows an insert into update_uses shares.
Inserted(r, row) == IF r.what = "save" /\ r.path = "steps" THEN row.uses ELSE {}

Gone(r) == r.ref \notin DOMAIN db.bundle \/ IdOf(db, r.ref) # r.id
Unchecked(r) ==                                                               \* mutant
  /\ ~Gone(r)
  /\ IF r.what = "lock" THEN IsLockable(db, r.ref) ELSE Possible(r)
Accepted(r) ==
  /\ ~Gone(r) /\ ~r.locked
  /\ IF r.what = "lock" THEN IsLockable(db, r.ref) ELSE Possible(r)

\* The row is locked: the checks and the writes of the transaction.
TakeRow(h) ==
  LET r == req[h]
      row == Changed(r)
  IN /\ r.step = "wait" /\ r.what # "lock" /\ Free(h, r.id) /\ Accepted(r)
     /\ Sharable(h, Inserted(r, row))
     /\ Step(h, [r EXCEPT !.step = IF r.what = "mode" THEN "written" ELSE "hold",
                          !.excl = {r.id}, !.share = Inserted(r, row), !.to = row])
     /\ UNCHANGED <<db, disk, upload, made>>

\* updLockBuild: only the build's row is locked; inserting the locks shares
\* the commons' rows, after their shas were read.
TakeLock(h) ==
  LET r == req[h]
      uses == db.bundle[r.ref].uses
  IN /\ r.step = "wait" /\ r.what = "lock" /\ Free(h, r.id) /\ Accepted(r)
     /\ "commons" \in Windows \/ Sharable(h, uses)
     /\ "wait" \in Windows \/ \A k \in At({"wait"}) : req[k].id \notin uses
     /\ Step(h, [r EXCEPT !.step = "written", !.excl = {r.id}, !.to = LockRows(db, r.ref),
                          !.share = IF Sharable(h, uses) THEN uses ELSE {}])
     /\ UNCHANGED <<db, disk, upload, made>>

Refuse(h) ==
  /\ req[h].step = "wait" /\ Free(h, req[h].id) /\ ~Accepted(req[h])
  /\ End(h)
  /\ UNCHANGED <<db, disk, upload, made>>

Folder(ref) == IF ref \in DOMAIN disk THEN disk[ref] ELSE Empty

\* Commit (a rename) or Remove, before the transaction ends
WriteDisk(h) ==
  LET r == req[h]
  IN /\ r.step = "hold"
     /\ disk' = IF r.what = "save" THEN With(disk, r.ref, With(Folder(r.ref), r.path, r.body))
                ELSE IF r.ref \in DOMAIN disk THEN [disk EXCEPT ![r.ref] = Without(@, r.path)]
                ELSE disk
     /\ Step(h, [r EXCEPT !.step = "written"])
     /\ UNCHANGED <<db, upload, made>>

CommitRow(h) ==
  LET r == req[h]
  IN /\ r.step = "written"
     /\ r.what = "lock" => Sharable(h, db.bundle[r.ref].uses)
     /\ db' = IF r.what = "lock" THEN [db EXCEPT !.lock = @ \union r.to]
              ELSE [db EXCEPT !.bundle[r.ref] = r.to]
     /\ End(h)
     /\ UNCHANGED <<disk, upload, made>>

-----------------------------------------------------------------------------
(* Making and deleting a bundle.                                           *)

Hooks == {req[h].ref : h \in At({"hook"})}

\* updCreateBundle: empty, or with what the bundle `from` has.  The folder is
\* copied first, from what is on disk, and the rows after.
LeaveBundle(folders, ref) == folders                                          \* mutant
RemoveBundle(folders, ref) == Without(folders, ref)
MkBundle(folders, ref, from) ==
  IF ref \in DOMAIN folders THEN folders
  ELSE With(folders, ref, IF from = Null THEN Empty ELSE Folder(from))

AskBundle(h, ref, from) ==
  /\ ref \notin DOMAIN db.bundle /\ \A k \in At({"copied"}) : req[k].ref # ref
  /\ "hooks" \in Windows \/ ref \notin Hooks
  /\ from # Null => from \in DOMAIN db.bundle /\ Kind(from) = Kind(ref)
  /\ LET src == IF from = Null \/ "copy" \in Windows THEN {} ELSE {IdOf(db, from)}
     IN /\ Sharable(h, src)
        /\ Begin(h, [step |-> "copied", what |-> "bundle", ref |-> ref, to |-> from,
                     id |-> IF from = Null THEN 0 ELSE IdOf(db, from), excl |-> {}, share |-> src,
                     read |-> from = Null, files |-> Empty])
  /\ disk' = MkBundle(RemoveBundle(disk, ref), ref, from)
  /\ UNCHANGED <<db, upload>>

\* CopyBundleFiles and CopyBundleUses, each as of its own start: the source's
\* row is not locked.
SourceFiles(r) == IF RefWith(db, r.id) = {} THEN Empty ELSE db.bundle[r.to].files
SourceUses(r) == IF RefWith(db, r.id) = {} THEN {} ELSE db.bundle[r.to].uses

CopyFiles(h) ==
  LET r == req[h]
  IN /\ r.step = "copied" /\ ~r.read
     /\ Step(h, [r EXCEPT !.read = TRUE, !.files = SourceFiles(r)])
     /\ UNCHANGED <<db, disk, upload, made>>

NewRow(files, uses) ==
  [id |-> db.next, files |-> files, uses |-> uses, sha |-> FolderSha(files)]

CommitBundle(h) ==
  LET r == req[h]
      uses == SourceUses(r)
  IN /\ r.step = "copied" /\ r.read /\ Sharable(h, uses)
     /\ db' = [db EXCEPT !.bundle = With(@, r.ref, NewRow(r.files, uses)), !.next = @ + 1]
     /\ End(h)
     /\ UNCHANGED <<disk, upload, made>>

\* updDeleteBundle: refused for a common that is used, by UsedBy or by the
\* foreign key of update_uses.
AskDelete(h, ref) ==
  /\ ref \in DOMAIN db.bundle /\ Free(h, IdOf(db, ref))
  /\ UsedBy(db, IdOf(db, ref)) = {}
  /\ Begin(h, [step |-> "hook", ref |-> ref])
  /\ db' = DeleteBundle(db, ref)
  /\ UNCHANGED <<disk, upload>>

\* RemoveBundle, after the commit
RemoveFolder(h) ==
  /\ req[h].step = "hook"
  /\ disk' = RemoveBundle(disk, req[h].ref)
  /\ End(h)
  /\ UNCHANGED <<db, upload, made>>

-----------------------------------------------------------------------------
(* A deployment: updDeploy reads the row, then the files, commits, and     *)
(* startDeploy makes the deployment with the signature the commons have    *)
(* then; the updater fetches each file and compares it with its sha.       *)

UsedFiles(d, ref) == [id \in d.bundle[ref].uses |->
                        LET c == CHOOSE x \in RefWith(d, id) : TRUE IN d.bundle[c].files]

AskDeploy(h, ref) ==
  LET read == {IdOf(db, ref)} \union db.bundle[ref].uses
  IN /\ ref \in DOMAIN db.bundle /\ ref \in Builds /\ "steps" \in DOMAIN db.bundle[ref].files
     /\ "plan" \in Windows \/ Sharable(h, read)
     /\ Begin(h, [step |-> "sha", ref |-> ref, id |-> IdOf(db, ref), sha |-> db.bundle[ref].sha,
                  excl |-> {}, share |-> IF "plan" \in Windows THEN {} ELSE read])
     /\ UNCHANGED <<db, disk, upload>>

\* mergedFiles
ReadFiles(h) ==
  LET r == req[h]
  IN /\ r.step = "sha"
     /\ IF Gone(r) THEN End(h)
        ELSE Step(h, [step |-> "files", ref |-> r.ref, id |-> r.id, sha |-> r.sha,
                      excl |-> {}, share |-> r.share,
                      files |-> db.bundle[r.ref].files, commons |-> UsedFiles(db, r.ref)])
     /\ UNCHANGED <<db, disk, upload, made>>

\* CreateDeployment
StartDeploy(h) ==
  LET r == req[h]
  IN /\ r.step = "files"
     /\ IF Gone(r) THEN End(h)
        ELSE Step(h, [step |-> "run", ref |-> r.ref, id |-> r.id, sha |-> r.sha, files |-> r.files,
                      commons |-> r.commons, sig |-> UsesSig(db, r.ref)])
     /\ UNCHANGED <<db, disk, upload, made>>

Holds(folder, files) ==
  \A p \in DOMAIN files : p \in DOMAIN folder /\ folder[p] = files[p].body
Fetched(r) ==
  /\ ~Gone(r) /\ Holds(Folder(r.ref), r.files)
  /\ \A id \in DOMAIN r.commons : \E c \in RefWith(db, id) : Holds(Folder(c), r.commons[id])

\* All steps succeed, or the deployment fails and counts for nothing.
EndDeploy(h) ==
  LET r == req[h]
  IN /\ r.step = "run"
     /\ \/ /\ Fetched(r)
           /\ db' = [db EXCEPT !.ok = @ \union {[id |-> r.id, sha |-> r.sha, sig |-> r.sig,
                                                files |-> r.files, commons |-> r.commons]}]
        \/ ~Fetched(r) /\ UNCHANGED db
     /\ End(h)
     /\ UNCHANGED <<disk, upload, made>>

-----------------------------------------------------------------------------
(* An upload in pieces: received is how far it got, written the bytes that *)
(* were, from 1.  Its mutex makes a chunk one step; the last one takes it  *)
(* out of the map and stores the file as a save does.                      *)

\* updStartUpload
AskUpload(ref, body) ==
  /\ upload = Null /\ made < MaxReq /\ made' = made + 1
  /\ ref \in DOMAIN db.bundle /\ ~IsLocked(db, IdOf(db, ref))
  /\ upload' = [ref |-> ref, body |-> body, received |-> 0, written |-> {}]
  /\ UNCHANGED <<db, disk, req>>

AnyOffset(offset) == TRUE                                                     \* mutant
InOrder(offset) == offset <= upload.received

Put(offset, n) ==
  [upload EXCEPT !.received = IF @ < offset + n THEN offset + n ELSE @,
                 !.written = @ \union (offset + 1 .. offset + n)]

\* updUploadChunk
Chunk(h, offset, n) ==
  LET up == Put(offset, n)
      body == IF up.written = 1..Size THEN up.body ELSE Hole
  IN /\ upload # Null /\ req[h] = Idle
     /\ InOrder(offset) /\ offset + n <= Size
     /\ \/ up.received < Size /\ upload' = up /\ UNCHANGED req
        \/ /\ up.received = Size /\ upload' = Null   \* updFinishUpload
           /\ \/ MayAsk(h, up.ref) /\ Step(h, RowRequest(up.ref, "save", "data", body, NewMode))
              \/ up.ref \notin DOMAIN db.bundle /\ UNCHANGED req
     /\ UNCHANGED <<db, disk, made>>

\* updCancelUpload, and runSweep
DropUpload ==
  /\ upload # Null /\ upload' = Null
  /\ UNCHANGED <<db, disk, req, made>>

-----------------------------------------------------------------------------
\* A commit that fails, and a crash, leave the folder as it was written.
Torn == {h \in At({"written"}) : req[h].what \in {"save", "remove"}}

FailCommit(h) ==
  /\ req[h].step = "written" /\ ("fail" \in Windows \/ h \notin Torn)
  /\ End(h)
  /\ UNCHANGED <<db, disk, upload, made>>

Crash ==
  /\ "fail" \in Windows \/ Torn = {}
  /\ upload' = Null
  /\ req' = [h \in Threads |-> Idle]
  /\ UNCHANGED <<db, disk, made>>

Requested(h, ref) ==
  \/ Ask(h, ref) \/ AskDelete(h, ref) \/ AskDeploy(h, ref)
  \/ \E from \in Refs \union {Null} : AskBundle(h, ref, from)

Continue(h) ==
  \/ TakeRow(h) \/ TakeLock(h) \/ Refuse(h) \/ WriteDisk(h) \/ CommitRow(h) \/ FailCommit(h)
  \/ CopyFiles(h) \/ CommitBundle(h) \/ RemoveFolder(h)
  \/ ReadFiles(h) \/ StartDeploy(h) \/ EndDeploy(h)

Next ==
  \/ \E h \in Threads : \/ Continue(h)
                        \/ \E ref \in Refs : Requested(h, ref)
                        \/ \E offset \in 0..Size, n \in 0..Size : Chunk(h, offset, n)
  \/ \E ref \in Refs, body \in Texts : AskUpload(ref, body)
  \/ DropUpload \/ Crash

Spec == Init /\ [][Next]_vars

-----------------------------------------------------------------------------
\* Rows and folders are of bundles, every row has an id of its own, and no
\* two requests hold a row for themselves.
TypeOK ==
  /\ DOMAIN db.bundle \subseteq Refs /\ DOMAIN disk \subseteq Refs
  /\ \A r1, r2 \in DOMAIN db.bundle : r1 # r2 => IdOf(db, r1) # IdOf(db, r2)
  /\ \A h \in At(Holding) : \A k \in At(Holding) \ {h} :
       req[h].excl \intersect (req[k].excl \union req[k].share) = {}

Quiet(ref) == \A h \in At({"hold", "written", "copied", "hook"}) : req[h].ref # ref

\* What the rows say of a bundle that no request is changing is what its
\* folder holds, and its sha is the sha of that.
DiskAgrees ==
  \A ref \in DOMAIN db.bundle : Quiet(ref) =>
    LET row == db.bundle[ref]
    IN ref \in DOMAIN disk /\ disk[ref] = BodiesOf(row.files) /\ row.sha = FolderSha(row.files)

\* A build uses the commons its steps name, which there are: what a lock
\* takes along and what forbids a common's deletion.
UsesAreNamed ==
  \A ref \in DOMAIN db.bundle :
    LET row == db.bundle[ref]
    IN /\ Named(row.files) \subseteq DOMAIN db.bundle
       /\ row.uses = {IdOf(db, c) : c \in Named(row.files)}

\* A build that was locked holds, with its commons, exactly what a deployment
\* that succeeded had installed.
LockedWasDeployed ==
  \A ref \in DOMAIN db.bundle : (\E l \in db.lock : l.id = IdOf(db, ref) /\ l.via = l.id) =>
    \E o \in db.ok : /\ o.id = IdOf(db, ref)
                     /\ o.files = db.bundle[ref].files /\ o.commons = UsedFiles(db, ref)

\* Once locked, a bundle keeps its files, rows and folder, until it is deleted.
LockedKept ==
  \A ref \in DOMAIN db.bundle :
    LET id == IdOf(db, ref)
    IN (IsLocked(db, id) /\ ref \in DOMAIN db'.bundle /\ IdOf(db', ref) = id)
         => db'.bundle[ref] = db.bundle[ref] /\ disk'[ref] = disk[ref]
LockedStays == [][LockedKept]_vars

\* Whatever the order, overlap and repetition of its pieces, an upload is
\* stored whole or not at all.
UploadsAreWhole ==
  \A ref \in DOMAIN disk : "data" \in DOMAIN disk[ref] => disk[ref]["data"] # Hole
=============================================================================
