---------------------------- MODULE DeploysProofs ----------------------------
(* What holds of deployments in every window: the types, that a step is    *)
(* run once, that what is recorded as ok was ok, and that what has been    *)
(* recorded stays.  And with five windows shut (Marked, below): that every *)
(* record is real, that only the newest deployment is undone, and that no  *)
(* result, of a rollback either, is written anew.                          *)
EXTENDS Deploys, WellFoundedInduction, TLAPS

Lists == {"deploy", "rollback"}
NumOf(r) == r[3]

StepIds == {r \in RunIds : DepOf(r) # 0}
SingleIds == {r \in RunIds : DepOf(r) = 0}
Maybe == {"none"} \cup Ended
EndType == [run : RunIds, res : Ended]
DepEndType == [dep : DepIds, list : Lists, res : Ended, rb : Maybe, inst : 0 .. MaxDep]
OrderType == [k : {"deploy"}, by : Users, dep : DepIds, list : Lists, steps : Seq(StepIds), back : Seq(StepIds)]
CallType == [k : {"run"}, by : Users, run : SingleIds]
CancelType == [k : {"cancel"}, dep : 0 .. MaxDep, run : RunIds \cup {NoRun}]
UpType ==
  [k : {"start"}, dep : DepIds, run : RunIds]
    \cup [k : {"ends"}, e : EndType, f : Flushers] \cup [k : {"deps"}, e : DepEndType, f : Flushers]
TaskType ==
  [dep : DepIds, list : Lists, todo : Seq(StepIds), back : Seq(StepIds), stopped : BOOLEAN,
   pc : {"check", "begin", "run", "over"}, phase : {"list", "back"}, res : Maybe, rb : Maybe]
IsTask(t) ==
  /\ t \in TaskType
  /\ t.pc \in {"begin", "run"} => t.todo # <<>>
  /\ t.pc = "over" => t.res # "none"
  /\ t.phase = "back" => t.list = "deploy" /\ t.res = "fail"
  /\ t.list = "rollback" => t.back = <<>>
OffStep(t) == IsTask(t) /\ t.pc \in {"check", "over"}
RunReqType ==
  [st : {"made", "looked", "sent", "refused"}, kind : {"run"}, id : SingleIds, conn : 0 .. MaxConn]
DepReqType ==
  [st : {"asked", "marked", "sent", "refused"}, kind : {"deploy"}, id : DepIds, conn : 0 .. MaxConn]
    \cup [st : {"asked", "sent", "refused"}, kind : {"rollback"}, id : DepIds, conn : 0 .. MaxConn]
ReqType == {NoReq} \cup RunReqType \cup DepReqType
EndsFlush == [st : {"ends", "endAcked"}, todo : Seq(EndType) \ {<<>>}]
DepsFlush == [st : {"deps", "depAcked"}, todo : Seq(DepEndType) \ {<<>>}]
FlushType == {Idle} \cup [st : {"start"}, todo : {<<>>}] \cup EndsFlush \cup DepsFlush

StoreTypes ==
  /\ deps \in [DepIds -> [res : DepResults, back : DepResults]]
  /\ rows \in [RunIds -> RunResults]
  /\ opened \subseteq RunIds /\ listed \in 0 .. MaxDep
  /\ count.try \in [DepIds -> 0 .. MaxTry] /\ count.single \in 0 .. MaxSingle
  /\ count = [reset |-> count.reset, boot |-> count.boot, cancel |-> count.cancel, try |-> count.try,
              single |-> count.single]
LinkTypes ==
  /\ link \in 0 .. MaxConn /\ last \in 0 .. MaxConn
  /\ mark \in [run : RunIds \cup {NoRun}, dep : 0 .. MaxDep]
  /\ hello \in {"no", "added", "done", "leaked"}
  /\ uconn \in 0 .. MaxConn /\ dialing \in 0 .. MaxConn
  /\ told \in [runs : Seq(RunIds), deps : Seq(DepIds)]
FlagTypes == killed \in BOOLEAN /\ cut \in BOOLEAN
AgentTypes ==
  /\ job \in RunIds \cup {NoRun} /\ (task = NoTask \/ IsTask(task))
  /\ task.pc = "run" <=> job \in StepIds
  /\ installed \in 0 .. MaxDep /\ manifest \in [DepIds -> 0 .. MaxDep \cup {NoBackup}]
  /\ did \in [RunIds -> Maybe] /\ reached \in [DepIds -> [deploy : Maybe, rollback : Maybe]]
WayTypes ==
  /\ req \in [Users -> ReqType]
  /\ up \in Seq(UpType) /\ down \subseteq OrderType \cup CallType \cup CancelType
  /\ \A m \in down : m.k = "deploy" /\ m.list = "rollback" => m.back = <<>>
  /\ ends \in Seq(EndType) /\ dends \in Seq(DepEndType)
  /\ flush \in [Flushers -> FlushType]
\* A call that the connection carries is one its request waits for.
CallTypes ==
  /\ hello = "leaked" => cut
  /\ ~cut => \A m \in down : m.k # "cancel" =>
       /\ req[m.by].st = "sent" /\ req[m.by].conn = link
       /\ \A n \in down : n.k # "cancel" /\ n.by = m.by => m = n
\* A flusher waits for the answer of the one result it has sent.
WaitsFor(m) == flush[m.f].st = m.k /\ Head(flush[m.f].todo) = m.e
ChanTypes ==
  /\ uconn = 0 => (cut \/ up = <<>>) /\ \A f \in Flushers : flush[f] = Idle
  /\ uconn # 0 => dialing = 0
  /\ ~cut => \A i \in DOMAIN up : up[i].k # "start" =>
       /\ WaitsFor(up[i])
       /\ \A j \in DOMAIN up : up[j].k # "start" /\ up[j].f = up[i].f => i = j
Types == StoreTypes /\ LinkTypes /\ FlagTypes /\ AgentTypes /\ WayTypes /\ CallTypes /\ ChanTypes

-----------------------------------------------------------------------------
(* Who has a run that is yet to be run.                                    *)
Unsent(d) ==
  deps[d].res = "none"
    \/ \E u \in Users : req[u] # NoReq /\ req[u].kind = "deploy" /\ req[u].id = d /\ req[u].st \in {"asked", "marked"}

\* The deploy list, and the rollback list that goes with it, are sent at once.
Attempt(r, k) == ListOf(r) = "deploy" \/ NumOf(r) <= (k + 1) * Backs
Unused(r) ==
  CASE DepOf(r) = 0 -> NumOf(r) > count.single
    [] DepOf(r) # 0 /\ Attempt(r, 0) -> Unsent(DepOf(r))
    [] OTHER -> NumOf(r) > (count.try[DepOf(r)] + 1) * Backs

InMsg(m, r) ==
  (m.k = "deploy" /\ r \in Range(m.steps) \cup Range(m.back)) \/ (m.k = "run" /\ r = m.run)
InTask(r) ==
  task # NoTask /\ task.pc # "over" /\ (r \in Range(task.todo) \/ (task.phase = "list" /\ r \in Range(task.back)))
InJob(r) == r = job /\ DepOf(r) = 0
InReq(u, r) ==
  req[u] # NoReq /\ req[u].kind = "run" /\ req[u].st \in {"made", "looked"} /\ req[u].id = r

Held(r) == (\E m \in down : InMsg(m, r)) \/ InTask(r) \/ InJob(r) \/ \E u \in Users : InReq(u, r)

HeldIsNew == \A r \in RunIds : (Held(r) \/ Unused(r)) => did[r] = "none"
HeldIsUsed == \A r \in RunIds : Held(r) => ~Unused(r)
UnusedIsNew == \A r \in RunIds : Unused(r) => rows[r] = "none"
ReqIsOpen == \A u \in Users : \A r \in RunIds : InReq(u, r) => rows[r] \in {"running", "cancel"}

HeldOnce ==
  \A r \in RunIds :
    /\ \A m, n \in down : InMsg(m, r) /\ InMsg(n, r) => m = n
    /\ \A m \in down : InMsg(m, r) => ~InTask(r) /\ ~InJob(r) /\ \A u \in Users : ~InReq(u, r)
    /\ InJob(r) => \A u \in Users : ~InReq(u, r)

\* A list of a deployment, each run named once.
ListFor(s, d, l) ==
  /\ \A i, j \in DOMAIN s : s[i] = s[j] => i = j
  /\ \A i \in DOMAIN s : DepOf(s[i]) = d /\ ListOf(s[i]) = l

ListsHeld ==
  /\ \A m \in down : m.k = "deploy" => /\ ListFor(m.steps, m.dep, m.list)
                                       /\ ListFor(m.back, m.dep, "rollback")
  /\ task # NoTask =>
       /\ ListFor(task.todo, task.dep, ListKind(task))
       /\ ListFor(task.back, task.dep, "rollback")

       /\ job # NoRun => task.pc = "run" /\ job = Head(task.todo)

ReqsApart ==
  /\ \A u \in Users : req[u] # NoReq /\ req[u].kind = "run" => ~Unused(req[u].id)
  /\ \A u \in Users : req[u] # NoReq /\ req[u].kind = "deploy"
       => (req[u].st = "asked" <=> deps[req[u].id].res = "none")
  /\ \A u, v \in Users : /\ u # v /\ req[u] # NoReq /\ req[v] # NoReq
                         /\ req[u].kind = req[v].kind /\ req[u].kind # "rollback"
                         => req[u].id # req[v].id

(* A list of a deployment that was sent once is reached once.              *)
IsFirst(m) == m.k = "deploy" /\ m.list = "deploy"
TaskIsFirst == task # NoTask /\ task.list = "deploy"
ReachedOnce ==
  /\ \A d \in DepIds : Unsent(d) =>
       /\ reached[d].deploy = "none"
       /\ \A m \in down : IsFirst(m) => m.dep # d
       /\ TaskIsFirst => task.dep # d
  /\ \A m \in down : IsFirst(m) =>
       /\ reached[m.dep].deploy = "none"
       /\ TaskIsFirst => task.dep # m.dep
       /\ \A n \in down : IsFirst(n) /\ m.dep = n.dep => m = n
  /\ TaskIsFirst =>
       /\ task.phase = "list" /\ task.pc # "over" => reached[task.dep].deploy = "none"
       /\ task.phase = "list" /\ task.pc = "over" /\ task.res = "ok" => reached[task.dep].deploy = "ok"

-----------------------------------------------------------------------------
(* Results on their way, and results recorded.                             *)
EndIsTrue(e) == did[e.run] = e.res
DepEndIsTrue(e) == e.list = "deploy" /\ e.res = "ok" => reached[e.dep].deploy = "ok"

MsgIsTrue(m) == (m.k = "ends" => EndIsTrue(m.e)) /\ (m.k = "deps" => DepEndIsTrue(m.e))
FlushIsTrue(s) ==
  /\ s.st \in {"ends", "endAcked"} => \A e \in Range(s.todo) : EndIsTrue(e)
  /\ s.st \in {"deps", "depAcked"} => \A e \in Range(s.todo) : DepEndIsTrue(e)

WayIsTrue ==
  /\ \A e \in Range(ends) : EndIsTrue(e)
  /\ \A e \in Range(dends) : DepEndIsTrue(e)
  /\ \A m \in Range(up) : MsgIsTrue(m)
  /\ \A f \in Flushers : FlushIsTrue(flush[f])

RecordsAreTrue ==
  /\ \A r \in RunIds : rows[r] = "ok" => did[r] = "ok"
  /\ \A d \in DepIds : deps[d].res = "ok" => reached[d].deploy = "ok"

Once == HeldIsNew /\ HeldIsUsed /\ UnusedIsNew /\ ReqIsOpen /\ HeldOnce /\ ListsHeld /\ ReqsApart /\ ReachedOnce
Real == WayIsTrue /\ RecordsAreTrue

-----------------------------------------------------------------------------
LEMMA RunFacts ==
  /\ \A r \in RunIds : DepOf(r) \in 0 .. MaxDep /\ ListOf(r) \in Lists /\ NumOf(r) \in Nat
  /\ \A r \in RunIds : DepOf(r) # 0 => DepOf(r) \in DepIds
  /\ NoRun \notin RunIds
  <1>1. ASSUME NEW r \in RunIds
        PROVE  /\ DepOf(r) \in 0 .. MaxDep /\ ListOf(r) \in Lists /\ NumOf(r) \in Nat
               /\ DepOf(r) # 0 => DepOf(r) \in DepIds
               /\ r # NoRun
    <2>1. CASE \E d \in DepIds, n \in 1 .. Steps : r = StepRun(d, n)
      BY <2>1, StoreAssumption DEF StepRun, DepOf, ListOf, NumOf, Lists, DepIds, NoRun
    <2>2. CASE \E d \in DepIds, k \in 0 .. MaxTry, n \in 1 .. Backs : r = BackRun(d, k, n)
      <3>1. PICK d \in DepIds, k \in 0 .. MaxTry, n \in 1 .. Backs : r = BackRun(d, k, n)
        BY <2>2
      <3>2. k * Backs + n \in Nat
        BY StoreAssumption
      <3> QED  BY <3>1, <3>2, StoreAssumption DEF BackRun, DepOf, ListOf, NumOf, Lists, DepIds, NoRun
    <2>3. CASE \E n \in 1 .. MaxSingle : r = SingleRun(n)
      BY <2>3, StoreAssumption DEF SingleRun, DepOf, ListOf, NumOf, Lists, DepIds, NoRun
    <2> QED  BY <2>1, <2>2, <2>3 DEF RunIds
  <1> QED  BY <1>1

LEMMA SingleFacts ==
  ASSUME NEW n \in 1 .. MaxSingle
  PROVE  /\ SingleRun(n) \in RunIds /\ DepOf(SingleRun(n)) = 0
         /\ ListOf(SingleRun(n)) = "deploy" /\ NumOf(SingleRun(n)) = n
  BY DEF SingleRun, RunIds, DepOf, ListOf, NumOf

\* The runs a deployment, or an attempt to roll it back, is made of.
LEMMA DeployRunsFacts ==
  ASSUME NEW d \in DepIds
  PROVE  /\ DeployRuns(d) \in Seq(StepIds) /\ DeployRuns(d) # <<>>
         /\ ListFor(DeployRuns(d), d, "deploy")
  <1>1. \A n \in 1 .. Steps : /\ StepRun(d, n) \in RunIds
                              /\ DepOf(StepRun(d, n)) = d /\ ListOf(StepRun(d, n)) = "deploy"
    BY DEF StepRun, RunIds, DepOf, ListOf
  <1>2. \A m, n \in 1 .. Steps : StepRun(d, m) = StepRun(d, n) => m = n
    BY DEF StepRun
  <1>3. DeployRuns(d) \in Seq(StepIds) /\ Len(DeployRuns(d)) = Steps /\ DOMAIN DeployRuns(d) = 1 .. Steps
    BY <1>1, StoreAssumption DEF DeployRuns, StepIds, DepIds
  <1>4. \A n \in 1 .. Steps : DeployRuns(d)[n] = StepRun(d, n)
    BY DEF DeployRuns
  <1>5. DeployRuns(d) # <<>>
    BY <1>3, StoreAssumption
  <1> HIDE DEF DeployRuns
  <1> QED  BY <1>1, <1>2, <1>3, <1>4, <1>5 DEF ListFor

LEMMA BackRunsFacts ==
  ASSUME NEW d \in DepIds, NEW k \in 0 .. MaxTry
  PROVE  /\ BackRuns(d, k) \in Seq(StepIds) /\ BackRuns(d, k) # <<>>
         /\ ListFor(BackRuns(d, k), d, "rollback")
         /\ \A i \in DOMAIN BackRuns(d, k) : /\ NumOf(BackRuns(d, k)[i]) > k * Backs
                                             /\ NumOf(BackRuns(d, k)[i]) <= (k + 1) * Backs
  <1>1. \A n \in 1 .. Backs : /\ BackRun(d, k, n) \in RunIds /\ DepOf(BackRun(d, k, n)) = d
                              /\ ListOf(BackRun(d, k, n)) = "rollback" /\ NumOf(BackRun(d, k, n)) = k * Backs + n
    BY DEF BackRun, RunIds, DepOf, ListOf, NumOf
  <1>2. k * Backs \in Int /\ (k + 1) * Backs = k * Backs + Backs
    BY StoreAssumption
  <1>3. \A m, n \in 1 .. Backs : BackRun(d, k, m) = BackRun(d, k, n) => m = n
    BY <1>1, <1>2
  <1>4. BackRuns(d, k) \in Seq(StepIds) /\ Len(BackRuns(d, k)) = Backs /\ DOMAIN BackRuns(d, k) = 1 .. Backs
    BY <1>1, StoreAssumption DEF BackRuns, StepIds, DepIds
  <1>5. \A n \in 1 .. Backs : BackRuns(d, k)[n] = BackRun(d, k, n)
    BY DEF BackRuns
  <1>6. BackRuns(d, k) # <<>>
    BY <1>4, StoreAssumption
  <1>7. \A n \in 1 .. Backs : k * Backs + n > k * Backs /\ k * Backs + n <= (k + 1) * Backs
    BY <1>2, StoreAssumption
  <1> HIDE DEF BackRuns
  <1> QED  BY <1>1, <1>3, <1>4, <1>5, <1>6, <1>7 DEF ListFor

-----------------------------------------------------------------------------
(* Sequences.                                                              *)
LEMMA RangeFacts ==
  ASSUME NEW S, NEW s \in Seq(S)
  PROVE  /\ Range(s) \subseteq S
         /\ \A x \in S : Range(Append(s, x)) = Range(s) \cup {x}
         /\ s # <<>> => Head(s) \in Range(s) /\ Range(Tail(s)) \subseteq Range(s) /\ Tail(s) \in Seq(S)
  <1>1. Range(s) \subseteq S
    BY DEF Range
  <1>2. ASSUME NEW x \in S PROVE Range(Append(s, x)) = Range(s) \cup {x}
    <2>1. DOMAIN Append(s, x) = DOMAIN s \cup {Len(s) + 1} /\ Append(s, x)[Len(s) + 1] = x
      OBVIOUS
    <2>2. \A i \in DOMAIN s : Append(s, x)[i] = s[i]
      OBVIOUS
    <2> DEFINE t == Append(s, x)
    <2> HIDE DEF t
    <2> QED  BY <2>1, <2>2 DEF Range, t
  <1>3. s # <<>> => Head(s) \in Range(s) /\ Range(Tail(s)) \subseteq Range(s) /\ Tail(s) \in Seq(S)
    <2> SUFFICES ASSUME s # <<>> PROVE Head(s) \in Range(s) /\ Range(Tail(s)) \subseteq Range(s) /\ Tail(s) \in Seq(S)
      OBVIOUS
    <2>1. Head(s) = s[1] /\ 1 \in DOMAIN s
      OBVIOUS
    <2>2. /\ Tail(s) \in Seq(S) /\ DOMAIN Tail(s) = 1 .. Len(s) - 1
          /\ \A i \in DOMAIN Tail(s) : Tail(s)[i] = s[i + 1] /\ i + 1 \in DOMAIN s
      OBVIOUS
    <2> DEFINE t == Tail(s)
    <2> HIDE DEF t
    <2> QED  BY <2>1, <2>2 DEF Range, t
  <1> QED  BY <1>1, <1>2, <1>3

LEMMA LeastOf ==
  ASSUME NEW T, T \subseteq Nat, T # {}
  PROVE  \E i \in T : \A k \in T : i <= k
  <1>1. IsWellFoundedOn({ss \in Nat \X Nat : ss[1] < ss[2]}, Nat)
    BY NatLessThanWellFounded DEF OpToRel
  <1> DEFINE R == {ss \in Nat \X Nat : ss[1] < ss[2]}
  <1>2. \A x, y \in Nat : <<x, y>> \in R <=> x < y
    OBVIOUS
  <1> HIDE DEF R
  <1>3. \E x \in T : \A y \in T : ~(<<y, x>> \in R)
    BY <1>1, WFMin DEF R
  <1>4. PICK x \in T : \A y \in T : ~(<<y, x>> \in R)
    BY <1>3
  <1>5. \A y \in T : ~(y < x)
    BY <1>2, <1>4
  <1>6. \A y \in T : y \in Nat /\ x \in Nat
    OBVIOUS
  <1>7. \A y \in T : x <= y
    BY <1>5, <1>6
  <1> QED  BY <1>7

LEMMA WithoutFacts ==
  ASSUME NEW S, NEW q \in Seq(S), NEW e
  PROVE  Without(q, e) \in Seq(S) /\ Range(Without(q, e)) \subseteq Range(q)
  <1> DEFINE hit == {i \in DOMAIN q : q[i] = e}
  <1>1. CASE hit = {}
    BY <1>1 DEF Without
  <1>2. CASE hit # {}
    <2> DEFINE i == CHOOSE i \in hit : \A k \in hit : i <= k
    <2>1. i \in hit
      <3>1. hit \subseteq Nat /\ hit # {}
        BY <1>2
      <3> HIDE DEF hit
      <3> QED  BY <3>1, LeastOf
    <2>2. i \in 1 .. Len(q)
      BY <2>1
    <2>3. Without(q, e) = SubSeq(q, 1, i - 1) \o SubSeq(q, i + 1, Len(q))
      BY <1>2 DEF Without
    <2> HIDE DEF i, hit
    <2> DEFINE a == SubSeq(q, 1, i - 1)
    <2> DEFINE b == SubSeq(q, i + 1, Len(q))
    <2>4. /\ a \in Seq(S) /\ DOMAIN a = 1 .. i - 1 /\ \A j \in DOMAIN a : j \in DOMAIN q /\ a[j] = q[j]
          /\ Len(a) = i - 1
      BY <2>2
    <2>5. /\ b \in Seq(S) /\ DOMAIN b = 1 .. Len(q) - i /\ \A j \in DOMAIN b : i + j \in DOMAIN q /\ b[j] = q[i + j]
          /\ Len(b) = Len(q) - i
      BY <2>2
    <2> HIDE DEF a, b
    <2>6. a \o b \in Seq(S) /\ Range(a \o b) = Range(a) \cup Range(b)
      <3>1. a \o b \in Seq(S) /\ DOMAIN (a \o b) = 1 .. Len(a) + Len(b)
        BY <2>4, <2>5
      <3>2. \A j \in 1 .. Len(a) + Len(b) : (a \o b)[j] = IF j <= Len(a) THEN a[j] ELSE b[j - Len(a)]
        BY <2>4, <2>5
      <3>3. DOMAIN a = 1 .. Len(a) /\ DOMAIN b = 1 .. Len(b) /\ Len(a) \in Nat /\ Len(b) \in Nat
        BY <2>4, <2>5
      <3> DEFINE c == a \o b
      <3> HIDE DEF c
      <3>4. Range(a) \cup Range(b) \subseteq Range(c)
        <4>1. ASSUME NEW j \in DOMAIN b PROVE b[j] \in Range(c)
          <5>1. Len(a) + j \in DOMAIN c /\ c[Len(a) + j] = b[j]
            BY <3>1, <3>2, <3>3 DEF c
          <5> QED  BY <5>1 DEF Range
        <4>2. ASSUME NEW j \in DOMAIN a PROVE a[j] \in Range(c)
          <5>1. j \in DOMAIN c /\ c[j] = a[j]
            BY <3>1, <3>2, <3>3 DEF c
          <5> QED  BY <5>1 DEF Range
        <4> QED  BY <4>1, <4>2 DEF Range
      <3>5. Range(c) \subseteq Range(a) \cup Range(b)
        <4>1. ASSUME NEW j \in DOMAIN c PROVE c[j] \in Range(a) \cup Range(b)
          <5>1. (j \in DOMAIN a /\ c[j] = a[j]) \/ (j - Len(a) \in DOMAIN b /\ c[j] = b[j - Len(a)])
            BY <3>1, <3>2, <3>3 DEF c
          <5> QED  BY <5>1 DEF Range
        <4> QED  BY <4>1 DEF Range
      <3> QED  BY <3>1, <3>4, <3>5 DEF c
    <2>7. Range(a) \subseteq Range(q) /\ Range(b) \subseteq Range(q)
      BY <2>4, <2>5 DEF Range
    <2> QED  BY <2>3, <2>6, <2>7 DEF a, b
  <1> QED  BY <1>1, <1>2

-----------------------------------------------------------------------------
(* The statements of the store.                                            *)
LEMMA RowStatements ==
  ASSUME NEW t \in [RunIds -> RunResults]
  PROVE  /\ \A r : CreateStepRun(t, r) \in [RunIds -> RunResults]
         /\ \A runs : CreateWaitStepRuns(t, runs) \in [RunIds -> RunResults]
         /\ \A r : StartStepRun(t, r) \in [RunIds -> RunResults]
         /\ \A r : \A res \in Ended : FinishStepRun(t, r, res) \in [RunIds -> RunResults]
         /\ \A d, list : SkipWaitRuns(t, d, list) \in [RunIds -> RunResults]
         /\ \A d, list : DeleteWaitRuns(t, d, list) \in [RunIds -> RunResults]
         /\ \A ds : SkipWaitRunsOf(t, ds) \in [RunIds -> RunResults]
         /\ \A keep : CancelLostStepRuns(t, keep) \in [RunIds -> RunResults]
  BY DEF CreateStepRun, CreateWaitStepRuns, StartStepRun, FinishStepRun, SkipWaitRuns, DeleteWaitRuns,
         SkipWaitRunsOf, CancelLostStepRuns, RunResults, Ended

DepRows == [DepIds -> [res : DepResults, back : DepResults]]

LEMMA DepStatements ==
  ASSUME NEW t \in DepRows
  PROVE  /\ \A d : CreateDeployment(t, d) \in DepRows
         /\ \A d : \A res \in Ended : FinishDeployment(t, d, res) \in DepRows
         /\ \A d : \A res \in DepResults : SetRollbackResult(t, d, res) \in DepRows
         /\ \A keep : CancelLostDeployments(t, keep) \in DepRows
  <1>1. \A d : CreateDeployment(t, d) \in DepRows
    BY DEF CreateDeployment, DepRows, DepResults, Ended
  <1>2. \A d : \A res \in Ended : FinishDeployment(t, d, res) \in DepRows
    BY DEF FinishDeployment, DepRows, DepResults
  <1>3. \A d : \A res \in DepResults : SetRollbackResult(t, d, res) \in DepRows
    BY DEF SetRollbackResult, DepRows
  <1>4. \A keep : CancelLostDeployments(t, keep) \in DepRows
    BY DEF CancelLostDeployments, Cancelled, DepRows, DepResults, Ended
  <1> QED  BY <1>1, <1>2, <1>3, <1>4

-----------------------------------------------------------------------------
(* Types.                                                                  *)
LEMMA TaskOver ==
  ASSUME NEW t, IsTask(t), NEW res \in Ended
  PROVE  OffStep(Over(t, res))
  BY DEF Over, RollsBack, IsTask, OffStep, TaskType, Maybe, Ended, Lists

LEMMA SettledTyped ==
  ASSUME Types, NEW st \in {"ends", "deps"}, NEW todo,
         todo \in IF st = "ends" THEN Seq(EndType) ELSE Seq(DepEndType)
  PROVE  LET s == Settled(st, todo) IN s \in FlushType /\ (s = Idle \/ s.st \in {"ends", "deps"})
  BY DEF Settled, Types, WayTypes, FlushType, EndsFlush, DepsFlush, Idle

LEMMA SendsTyped ==
  ASSUME Types, NEW f \in Flushers, NEW s \in FlushType, Sends(f, s), s = Idle \/ s.st \in {"ends", "deps"}
  PROVE  up' \in Seq(UpType) /\ flush' \in [Flushers -> FlushType]
  <1>1. flush' \in [Flushers -> FlushType]
    BY DEF Sends, Types, WayTypes
  <1>2. CASE s = Idle \/ cut
    BY <1>1, <1>2 DEF Sends, Types, WayTypes
  <1>3. CASE s \in EndsFlush /\ s.st = "ends"
    <2>1. [k |-> s.st, e |-> Head(s.todo), f |-> f] \in UpType
      BY <1>3 DEF UpType, EndsFlush, Idle
    <2> QED  BY <1>1, <2>1 DEF Sends, Types, WayTypes
  <1>4. CASE s \in DepsFlush /\ s.st = "deps"
    <2>1. [k |-> s.st, e |-> Head(s.todo), f |-> f] \in UpType
      BY <1>4 DEF UpType, DepsFlush, Idle
    <2> QED  BY <1>1, <2>1 DEF Sends, Types, WayTypes
  <1> QED  BY <1>2, <1>3, <1>4 DEF FlushType, EndsFlush, DepsFlush

LEMMA SpawnTyped ==
  ASSUME Types, SpawnFlush
  PROVE  flush' \in [Flushers -> FlushType]
  BY DEF SpawnFlush, Types, WayTypes, FlushType

LEMMA InitTypes == Init => Types
  <1> SUFFICES ASSUME Init PROVE Types
    OBVIOUS
  <1>1. StoreTypes
    <2>1. /\ deps \in [DepIds -> [res : DepResults, back : DepResults]]
          /\ rows \in [RunIds -> RunResults] /\ opened \subseteq RunIds /\ listed \in 0 .. MaxDep
      BY StoreAssumption DEF Init, NoDep, DepResults, RunResults
    <2>2. /\ count = [reset |-> 0, boot |-> 0, cancel |-> 0, try |-> count.try, single |-> 0]
          /\ count.try = [d \in DepIds |-> 0]
      BY DEF Init
    <2> QED  BY <2>1, <2>2, StoreAssumption DEF StoreTypes
  <1>2. LinkTypes
    BY StoreAssumption, StateAssumption DEF Init, LinkTypes, NoMark
  <1>3. AgentTypes
    BY StoreAssumption, RunFacts DEF Init, AgentTypes, Maybe, NoTask, StepIds
  <1>4. WayTypes
    BY DEF Init, WayTypes, ReqType, FlushType
  <1>5. FlagTypes
    BY DEF Init, FlagTypes
  <1>6. CallTypes
    BY DEF Init, CallTypes
  <1>7. ChanTypes
    BY DEF Init, ChanTypes
  <1> QED  BY <1>1, <1>2, <1>3, <1>4, <1>5, <1>6, <1>7 DEF Types

LEMMA SameTypes ==
  ASSUME Types
  PROVE  /\ UNCHANGED <<deps, rows, opened, listed, count>> => StoreTypes'
         /\ UNCHANGED <<link, last, mark, hello, uconn, dialing, told>> => LinkTypes'
         /\ UNCHANGED <<killed, cut>> => FlagTypes'
         /\ UNCHANGED <<job, task, installed, manifest, did, reached>> => AgentTypes'
         /\ UNCHANGED <<req, up, down, ends, dends, flush>> => WayTypes'
         /\ UNCHANGED <<req, down, cut, link, hello>> => CallTypes'
         /\ UNCHANGED <<up, flush, cut, uconn, dialing>> => ChanTypes'
  <1>1. UNCHANGED <<deps, rows, opened, listed, count>> => StoreTypes'
    BY DEF Types, StoreTypes
  <1>2. UNCHANGED <<link, last, mark, hello, uconn, dialing, told>> => LinkTypes'
    BY DEF Types, LinkTypes
  <1>3. UNCHANGED <<job, task, installed, manifest, did, reached>> => AgentTypes'
    BY DEF Types, AgentTypes
  <1>4. UNCHANGED <<req, up, down, ends, dends, flush>> => WayTypes'
    BY DEF Types, WayTypes
  <1>5. UNCHANGED <<killed, cut>> => FlagTypes'
    BY DEF Types, FlagTypes
  <1>6. UNCHANGED <<req, down, cut, link, hello>> => CallTypes'
    BY DEF Types, CallTypes
  <1>7. UNCHANGED <<up, flush, cut, uconn, dialing>> => ChanTypes'
    BY DEF Types, ChanTypes, WaitsFor
  <1> QED  BY <1>1, <1>2, <1>3, <1>4, <1>5, <1>6, <1>7

LEMMA SessionTyped ==
  ASSUME Types, Dial \/ Connected \/ UpdaterNotices \/ UpdaterRestarts
  PROVE  Types'
  <1> USE DEF dbVars, superVars, netVars, history
  <1>1. CASE Dial
    <2>1. Running \in Seq(RunIds)
      <3>1. ends \in Seq(EndType) /\ job \in RunIds \cup {NoRun}
        BY DEF Types, WayTypes, AgentTypes
      <3>2. [i \in DOMAIN ends |-> ends[i].run] \in Seq(RunIds)
        <4>1. \A i \in 1 .. Len(ends) : ends[i] \in EndType
          BY <3>1
        <4>2. \A e \in EndType : e.run \in RunIds
          BY DEF EndType
        <4>3. DOMAIN ends = 1 .. Len(ends) /\ Len(ends) \in Nat
          BY <3>1
        <4> QED  BY <4>1, <4>2, <4>3
      <3>3. (IF job = NoRun THEN <<>> ELSE <<job>>) \in Seq(RunIds)
        BY <3>1
      <3> QED  BY <3>2, <3>3 DEF Running
    <2>2. Deploying \in Seq(DepIds)
      <3>1. dends \in Seq(DepEndType) /\ (task # NoTask => task.dep \in DepIds)
        BY DEF Types, WayTypes, AgentTypes, TaskType, IsTask
      <3>2. [i \in DOMAIN dends |-> dends[i].dep] \in Seq(DepIds)
        <4>1. \A i \in 1 .. Len(dends) : dends[i] \in DepEndType
          BY <3>1
        <4>2. \A e \in DepEndType : e.dep \in DepIds
          BY DEF DepEndType
        <4>3. DOMAIN dends = 1 .. Len(dends) /\ Len(dends) \in Nat
          BY <3>1
        <4> QED  BY <4>1, <4>2, <4>3
      <3>3. (IF task = NoTask THEN <<>> ELSE <<task.dep>>) \in Seq(DepIds)
        BY <3>1
      <3> QED  BY <3>2, <3>3 DEF Deploying
    <2>3. listed' \in 0 .. MaxDep /\ StoreTypes'
      BY <1>1 DEF Dial, Types, StoreTypes, AgentTypes
    <2>4. LinkTypes'
      BY <1>1, <2>1, <2>2, StateAssumption, StoreAssumption DEF Dial, Types, LinkTypes, NoMark
    <2>5. AgentTypes' /\ WayTypes'
      BY <1>1 DEF Dial, Types, AgentTypes, WayTypes
    <2>6. FlagTypes'
      BY <1>1 DEF Dial, Types, FlagTypes
    <2>7. CallTypes'
      BY <1>1 DEF Dial, CallTypes
    <2>8. ChanTypes'
      BY <1>1 DEF Dial, Types, ChanTypes, WayTypes, Connecting
    <2> QED  BY <2>3, <2>4, <2>5, <2>6, <2>7, <2>8 DEF Types
  <1>2. CASE Connected
    <2>1. flush' \in [Flushers -> FlushType]
      BY <1>2 DEF Connected, FlushType
    <2>2. LinkTypes'
      BY <1>2, StateAssumption DEF Connected, Types, LinkTypes
    <2>3. WayTypes'
      BY <1>2, <2>1 DEF Connected, Types, WayTypes
    <2>4. ChanTypes'
      BY <1>2 DEF Connected, Types, ChanTypes
    <2> QED  BY <1>2, <2>2, <2>3, <2>4, SameTypes DEF Connected, Types, dbVars, superVars, netVars, history
  <1>3. CASE UpdaterNotices
    <2>1. LinkTypes'
      BY <1>3, StateAssumption DEF UpdaterNotices, Types, LinkTypes
    <2>2. WayTypes'
      BY <1>3 DEF UpdaterNotices, Types, WayTypes, FlushType
    <2>3. CallTypes'
      BY <1>3 DEF UpdaterNotices, CallTypes
    <2>4. ChanTypes'
      BY <1>3 DEF UpdaterNotices, ChanTypes
    <2> QED  BY <1>3, <2>1, <2>2, <2>3, <2>4, SameTypes DEF UpdaterNotices, Types
  <1>4. CASE UpdaterRestarts
    <2>1. LinkTypes'
      BY <1>4, StateAssumption DEF UpdaterRestarts, Types, LinkTypes
    <2>2. WayTypes'
      BY <1>4 DEF UpdaterRestarts, Types, WayTypes, FlushType
    <2>3. AgentTypes'
      BY <1>4, RunFacts DEF UpdaterRestarts, Types, AgentTypes, NoTask, StepIds
    <2>4. StoreTypes'
      BY <1>4 DEF UpdaterRestarts, Types, StoreTypes
    <2>5. FlagTypes'
      BY <1>4 DEF UpdaterRestarts, Types, FlagTypes
    <2>6. CallTypes'
      BY <1>4 DEF UpdaterRestarts, CallTypes
    <2>7. ChanTypes'
      BY <1>4 DEF UpdaterRestarts, ChanTypes
    <2> QED  BY <2>1, <2>2, <2>3, <2>4, <2>5, <2>6, <2>7 DEF Types
  <1> QED  BY <1>1, <1>2, <1>3, <1>4

\* The channel when a start, a result or nothing more is sent.
LEMMA SendStart ==
  ASSUME Types, UNCHANGED <<flush, cut, uconn, dialing>>,
         up' = up \/ (uconn # 0 /\ ~cut /\ \E m : m.k = "start" /\ up' = Append(up, m))
  PROVE  ChanTypes'
  <1>1. CASE up' = up
    BY <1>1, SameTypes
  <1>2. ASSUME NEW m, m.k = "start", up' = Append(up, m), uconn # 0 PROVE ChanTypes'
    <2>1. up \in Seq(UpType)
      BY DEF Types, WayTypes
    <2>2. DOMAIN up' = DOMAIN up \cup {Len(up) + 1} /\ up'[Len(up) + 1] = m
          /\ \A i \in DOMAIN up : up'[i] = up[i]
      BY <1>2, <2>1
    <2> QED  BY <1>2, <2>2 DEF Types, ChanTypes, WaitsFor
  <1> QED  BY <1>1, <1>2

LEMMA SpawnChan ==
  ASSUME Types, SpawnFlush, UNCHANGED <<up, cut, uconn, dialing>>
  PROVE  ChanTypes'
  <1>1. CASE uconn = 0
    BY <1>1, SameTypes DEF SpawnFlush
  <1>2. CASE uconn # 0
    <2>1. PICK f \in Flushers : flush[f] = Idle /\ flush' = [flush EXCEPT ![f] = [st |-> "start", todo |-> <<>>]]
      BY <1>2 DEF SpawnFlush
    <2>2. \A i \in DOMAIN up : up[i].k # "start" => up[i].f \in Flushers /\ up[i].k \in {"ends", "deps"}
      BY DEF Types, WayTypes, UpType
    <2>3. ~cut => \A i \in DOMAIN up : up[i].k # "start" => up[i].f # f
      BY <2>1, <2>2 DEF Types, ChanTypes, WaitsFor, Idle
    <2>4. flush \in [Flushers -> FlushType]
      BY DEF Types, WayTypes
    <2> QED  BY <1>2, <2>1, <2>2, <2>3, <2>4 DEF Types, ChanTypes, WaitsFor
  <1> QED  BY <1>1, <1>2

LEMMA SendsChan ==
  ASSUME Types, NEW f \in Flushers, NEW s, Sends(f, s), s = Idle \/ s.st \in {"ends", "deps"},
         flush[f].st \in {"start", "endAcked", "depAcked"}, UNCHANGED <<cut, uconn, dialing>>
  PROVE  ChanTypes'
  <1>1. uconn # 0
    BY DEF Types, ChanTypes, Idle
  <1>2. \A i \in DOMAIN up : up[i].k # "start" => up[i].f \in Flushers /\ up[i].k \in {"ends", "deps"}
    BY DEF Types, WayTypes, UpType
  <1>3. ~cut => \A i \in DOMAIN up : up[i].k # "start" => up[i].f # f
    BY <1>2 DEF Types, ChanTypes, WaitsFor
  <1>4. /\ flush \in [Flushers -> FlushType] /\ up \in Seq(UpType)
        /\ flush' = [flush EXCEPT ![f] = s]
    BY DEF Types, WayTypes, Sends
  <1>5. CASE s = Idle \/ cut
    <2>1. up' = up
      BY <1>5 DEF Sends
    <2> QED  BY <1>1, <1>2, <1>3, <1>4, <2>1 DEF Types, ChanTypes, WaitsFor
  <1>6. CASE s # Idle /\ ~cut
    <2> DEFINE m == [k |-> s.st, e |-> Head(s.todo), f |-> f]
    <2>1. up' = Append(up, m)
      BY <1>6 DEF Sends
    <2>2. m.k = s.st /\ m.e = Head(s.todo) /\ m.f = f
      OBVIOUS
    <2> HIDE DEF m
    <2>3. DOMAIN up' = DOMAIN up \cup {Len(up) + 1} /\ up'[Len(up) + 1] = m
          /\ \A i \in DOMAIN up : up'[i] = up[i] /\ i # Len(up) + 1
      BY <1>4, <2>1
    <2>4. flush'[f] = s /\ \A g \in Flushers : g # f => flush'[g] = flush[g]
      BY <1>4
    <2> QED  BY <1>1, <1>2, <1>3, <1>6, <2>2, <2>3, <2>4 DEF Types, ChanTypes, WaitsFor
  <1> QED  BY <1>5, <1>6

LEMMA StepTyped ==
  ASSUME Types, StepCheck \/ StepBegin \/ StepFails
  PROVE  Types'
  <1> USE DEF dbVars, superVars, netVars, history
  <1>1. IsTask(task) /\ task \in TaskType
    BY DEF IsTask, Types, AgentTypes, StepCheck, StepBegin, StepFails, NoTask
  <1>2. ASSUME NEW res \in Ended, ListEnds(res)
        PROVE  OffStep(task') /\ reached' \in [DepIds -> [deploy : Maybe, rollback : Maybe]]
    BY <1>1, <1>2, TaskOver DEF ListEnds, Types, AgentTypes, Maybe
  <1>3. CASE StepCheck
    <2>1. AgentTypes' /\ up' \in Seq(UpType)
      <3>1. CASE up' = up /\ (ListEnds("ok") \/ ListEnds("cancel"))
        <4>1. OffStep(task') /\ reached' \in [DepIds -> [deploy : Maybe, rollback : Maybe]]
          BY <1>2, <3>1 DEF Ended
        <4> QED  BY <1>3, <3>1, <4>1 DEF StepCheck, Types, AgentTypes, WayTypes, OffStep
      <3>2. CASE /\ task.todo # <<>> /\ task' = [task EXCEPT !.pc = "begin"] /\ UNCHANGED reached
                 /\ up' = Emitted([k |-> "start", dep |-> task.dep, run |-> Head(task.todo)])
        <4>1. IsTask(task') /\ task'.pc = "begin"
          BY <1>1, <3>2 DEF IsTask, TaskType
        <4>2. [k |-> "start", dep |-> task.dep, run |-> Head(task.todo)] \in UpType
          <5>1. Head(task.todo) \in StepIds
            BY <1>1, <3>2 DEF TaskType
          <5> QED  BY <1>1, <5>1 DEF TaskType, UpType, StepIds
        <4>3. up' \in Seq(UpType)
          BY <3>2, <4>2 DEF Emitted, Types, WayTypes
        <4> QED  BY <1>3, <3>2, <4>1, <4>3 DEF StepCheck, Types, AgentTypes
      <3> QED  BY <1>3, <3>1, <3>2 DEF StepCheck
    <2>2. WayTypes'
      BY <1>3, <2>1 DEF StepCheck, Types, WayTypes
    <2>3. ChanTypes'
      <3>1. up' = up \/ (uconn # 0 /\ ~cut /\ \E m : m.k = "start" /\ up' = Append(up, m))
        BY <1>3 DEF StepCheck, Emitted
      <3>2. UNCHANGED <<flush, cut, uconn, dialing>>
        BY <1>3 DEF StepCheck
      <3> QED  BY <3>1, <3>2, SendStart
    <2> QED  BY <1>3, <2>1, <2>2, <2>3, SameTypes DEF StepCheck, Types
  <1>4. CASE StepBegin
    <2>1. AgentTypes'
      <3>1. task.todo # <<>> /\ Head(task.todo) \in StepIds
        BY <1>1, <1>4 DEF StepBegin, IsTask, TaskType
      <3>2. IsTask(task') /\ task'.pc = "run"
        BY <1>1, <1>4 DEF StepBegin, IsTask, TaskType
      <3> QED  BY <1>4, <3>1, <3>2 DEF StepBegin, Types, AgentTypes, StepIds
    <2>2. FlagTypes'
      BY <1>4 DEF StepBegin, Types, FlagTypes
    <2> QED  BY <1>4, <2>1, <2>2, SameTypes DEF StepBegin, Types
  <1>5. CASE StepFails
    <2>1. task.todo # <<>> /\ Head(task.todo) \in StepIds /\ job \notin StepIds
      BY <1>1, <1>5 DEF StepFails, Types, AgentTypes, IsTask, TaskType
    <2>2. OffStep(task') /\ reached' \in [DepIds -> [deploy : Maybe, rollback : Maybe]]
      BY <1>2, <1>5 DEF StepFails, Ended
    <2>4. /\ did' \in [RunIds -> Maybe] /\ ends' \in Seq(EndType)
          /\ flush' \in [Flushers -> FlushType]
      <3>1. SpawnFlush /\ did' = [did EXCEPT ![Head(task.todo)] = "fail"]
            /\ ends' = Append(ends, [run |-> Head(task.todo), res |-> "fail"])
        BY <1>5 DEF StepFails, Ends
      <3>2. [run |-> Head(task.todo), res |-> "fail"] \in EndType
        BY <2>1 DEF EndType, StepIds, Ended
      <3>3. did' \in [RunIds -> Maybe]
        BY <3>1 DEF Types, AgentTypes, Maybe, Ended
      <3> QED  BY <3>1, <3>2, <3>3, SpawnTyped DEF Types, WayTypes
    <2>5. AgentTypes'
      BY <1>5, <2>1, <2>2, <2>4 DEF StepFails, Types, AgentTypes, OffStep
    <2>6. WayTypes'
      BY <1>5, <2>4 DEF StepFails, Types, WayTypes
    <2>7. ChanTypes'
      BY <1>5, SpawnChan DEF StepFails, Ends
    <2> QED  BY <1>5, <2>5, <2>6, <2>7, SameTypes DEF StepFails, Types
  <1> QED  BY <1>3, <1>4, <1>5

LEMMA EndTyped ==
  ASSUME Types, FinishDeploy \/ \E res \in Ended : JobEnds(res)
  PROVE  Types'
  <1> USE DEF dbVars, superVars, netVars, history
  <1>1. CASE FinishDeploy
    <2>1. task \in TaskType /\ task.pc = "over" /\ task.res # "none"
      BY <1>1 DEF FinishDeploy, Types, AgentTypes, NoTask, IsTask
    <2>2. installed' \in 0 .. MaxDep
      <3>1. installed' = InstalledAfter(task)
        BY <1>1 DEF FinishDeploy
      <3> QED  BY <2>1, <3>1, RunFacts DEF InstalledAfter, TaskType, DepIds, Types, AgentTypes
    <2>3. dends' \in Seq(DepEndType) /\ flush' \in [Flushers -> FlushType]
      <3> DEFINE e == [dep |-> task.dep, list |-> task.list, res |-> task.res, rb |-> task.rb, inst |-> installed']
      <3>1. e \in DepEndType
        BY <2>1, <2>2 DEF TaskType, DepEndType, Maybe
      <3>2. dends' = Append(dends, e) /\ SpawnFlush
        BY <1>1 DEF FinishDeploy
      <3> QED  BY <3>1, <3>2, SpawnTyped DEF Types, WayTypes
    <2>4. AgentTypes'
      <3>1. task' = NoTask /\ UNCHANGED <<job, manifest, did, reached>>
        BY <1>1 DEF FinishDeploy
      <3> QED  BY <2>1, <2>2, <3>1 DEF Types, AgentTypes, NoTask
    <2>5. WayTypes'
      BY <1>1, <2>3 DEF FinishDeploy, Types, WayTypes
    <2>6. ChanTypes'
      BY <1>1, SpawnChan DEF FinishDeploy
    <2> QED  BY <1>1, <2>4, <2>5, <2>6, SameTypes DEF FinishDeploy, Types
  <1>2. ASSUME NEW res \in Ended, JobEnds(res) PROVE Types'
    <2>1. /\ did' \in [RunIds -> Maybe] /\ ends' \in Seq(EndType)
          /\ flush' \in [Flushers -> FlushType]
      <3>1. SpawnFlush /\ did' = [did EXCEPT ![job] = res] /\ job \in RunIds
            /\ ends' = Append(ends, [run |-> job, res |-> res])
        BY <1>2 DEF JobEnds, Ends, Types, AgentTypes
      <3>2. [run |-> job, res |-> res] \in EndType
        BY <3>1 DEF EndType
      <3> QED  BY <3>1, <3>2, SpawnTyped DEF Types, AgentTypes, WayTypes, Maybe
    <2>2. AgentTypes'
      <3>1. CASE DepOf(job) = 0
        <4>1. job \notin StepIds /\ job' \notin StepIds /\ UNCHANGED <<task, reached, manifest, installed>>
          BY <1>2, <3>1, RunFacts DEF JobEnds, StepIds
        <4> QED  BY <1>2, <2>1, <4>1 DEF JobEnds, Types, AgentTypes
      <3>2. CASE DepOf(job) # 0
        <4>1. job \in StepIds /\ IsTask(task) /\ task \in TaskType /\ task.todo # <<>> /\ task.pc = "run"
          BY <1>2, <3>2 DEF JobEnds, Types, AgentTypes, StepIds, NoTask, IsTask
        <4>2. manifest' \in [DepIds -> 0 .. MaxDep \cup {NoBackup}]
          <5>1. manifest' = BackedUp(job, res)
            BY <1>2, <3>2 DEF JobEnds
          <5> QED  BY <4>1, <5>1 DEF BackedUp, Types, AgentTypes
        <4>3. OffStep(task') /\ reached' \in [DepIds -> [deploy : Maybe, rollback : Maybe]]
          <5>1. CASE res = "ok"
            <6>1. task' = [task EXCEPT !.todo = Tail(@), !.pc = "check"] /\ UNCHANGED reached
              BY <1>2, <3>2, <5>1 DEF JobEnds
            <6>2. Tail(task.todo) \in Seq(StepIds)
              BY <4>1 DEF TaskType
            <6> QED  BY <4>1, <6>1, <6>2 DEF IsTask, OffStep, TaskType, Types, AgentTypes
          <5>2. CASE res # "ok"
            <6>1. task' = Over(task, res) /\ reached' = [reached EXCEPT ![task.dep][ListKind(task)] = res]
              BY <1>2, <3>2, <5>2 DEF JobEnds, ListEnds
            <6>2. OffStep(task')
              BY <4>1, <6>1, TaskOver
            <6>4. reached' \in [DepIds -> [deploy : Maybe, rollback : Maybe]]
              BY <6>1 DEF Types, AgentTypes, Maybe
            <6> QED  BY <6>2, <6>4
          <5> QED  BY <5>1, <5>2
        <4>4. job' = NoRun /\ UNCHANGED installed
          BY <1>2 DEF JobEnds
        <4> QED  BY <2>1, <4>2, <4>3, <4>4, RunFacts DEF Types, AgentTypes, StepIds, OffStep
      <3> QED  BY <3>1, <3>2
    <2>3. WayTypes'
      BY <1>2, <2>1 DEF JobEnds, Types, WayTypes
    <2>4. FlagTypes'
      BY <1>2 DEF JobEnds, Types, FlagTypes
    <2>5. ChanTypes'
      BY <1>2, SpawnChan DEF JobEnds, Ends
    <2> QED  BY <1>2, <2>2, <2>3, <2>4, <2>5, SameTypes DEF JobEnds, Types
  <1> QED  BY <1>1, <1>2

LEMMA FlushTyped ==
  ASSUME Types, NEW f \in Flushers, FlushStart(f) \/ FlushNext(f)
  PROVE  Types'
  <1> USE DEF dbVars, superVars, netVars, history
  <1>1. CASE FlushStart(f)
    <2> DEFINE s == Settled("ends", ends)
    <2>1. s \in FlushType /\ (s = Idle \/ s.st \in {"ends", "deps"})
      BY SettledTyped DEF Types, WayTypes
    <2>2. flush[f].st = "start" /\ UNCHANGED <<cut, uconn, dialing>>
      BY <1>1 DEF FlushStart
    <2>3. Sends(f, s)
      BY <1>1 DEF FlushStart
    <2> HIDE DEF s
    <2>4. WayTypes'
      BY <1>1, <2>1, <2>2, <2>3, SendsTyped DEF FlushStart, Types, WayTypes
    <2>5. ChanTypes'
      BY <1>1, <2>1, <2>2, <2>3, SendsChan DEF FlushStart
    <2> QED  BY <1>1, <2>4, <2>5, SameTypes DEF FlushStart, Types
  <1>2. CASE FlushNext(f) /\ FlushOn(f)
    <2> DEFINE e == Head(flush[f].todo)
    <2> DEFINE isEnd == flush[f].st = "endAcked"
    <2> DEFINE s == Settled(IF isEnd THEN "ends" ELSE "deps", Tail(flush[f].todo))
    <2>1. /\ flush[f].st \in {"endAcked", "depAcked"} /\ Sends(f, s)
          /\ ends' = IF isEnd THEN Without(ends, e) ELSE ends
          /\ dends' = IF isEnd THEN dends ELSE Without(dends, e)
          /\ UNCHANGED <<dbVars, superVars, req, down, cut, last, uconn, dialing, job, killed,
                 task, installed, manifest, history, count>>
      BY <1>2 DEF FlushNext, FlushOn
    <2>2. ends' \in Seq(EndType) /\ dends' \in Seq(DepEndType)
      BY <2>1, WithoutFacts DEF Types, WayTypes
    <2>3. (isEnd => flush[f] \in EndsFlush) /\ (~isEnd => flush[f] \in DepsFlush)
      BY <2>1 DEF Types, WayTypes, FlushType, EndsFlush, DepsFlush, Idle
    <2>4. s \in FlushType /\ (s = Idle \/ s.st \in {"ends", "deps"})
      <3>1. isEnd => Tail(flush[f].todo) \in Seq(EndType)
        BY <2>3 DEF EndsFlush
      <3>2. ~isEnd => Tail(flush[f].todo) \in Seq(DepEndType)
        BY <2>3 DEF DepsFlush
      <3> QED  BY <3>1, <3>2, SettledTyped
    <2> HIDE DEF s, e, isEnd
    <2>5. WayTypes'
      BY <2>1, <2>2, <2>4, SendsTyped DEF Types, WayTypes
    <2>6. ChanTypes'
      BY <2>1, <2>4, SendsChan
    <2> QED  BY <2>1, <2>5, <2>6, SameTypes DEF Types
  <1>3. CASE FlushNext(f) /\ FlushGaveUp(f)
    <2>1. /\ flush[f].st \in {"endAcked", "depAcked"} /\ Sends(f, Idle) /\ Idle \in FlushType
          /\ UNCHANGED <<dbVars, superVars, req, down, cut, last, uconn, dialing, job, killed,
                 task, ends, dends, installed, manifest, history, count>>
      BY <1>3 DEF FlushNext, FlushGaveUp, FlushType
    <2>2. WayTypes'
      BY <2>1, SendsTyped DEF Types, WayTypes
    <2>3. ChanTypes'
      BY <2>1, SendsChan
    <2> QED  BY <2>1, <2>2, <2>3, SameTypes DEF Types
  <1> QED  BY <1>1, <1>2, <1>3 DEF FlushNext

LEMMA DownTyped ==
  ASSUME Types, NEW m \in down
  PROVE  /\ m.k = "run" => m \in CallType
         /\ m.k = "deploy" => m \in OrderType
         /\ m.k = "cancel" => m \in CancelType
  BY DEF Types, WayTypes, OrderType, CallType, CancelType

LEMMA AnswerTyped ==
  ASSUME Types, NEW m \in down, m.k \in {"run", "deploy"}
  PROVE  Taken(m) \in [Users -> ReqType] /\ Refused(m) \in [Users -> ReqType]
  <1>1. m.by \in Users
    BY DownTyped DEF CallType, OrderType
  <1>2. Taken(m) \in [Users -> ReqType]
    BY <1>1 DEF Taken, Types, WayTypes, ReqType
  <1>3. CASE ~cut
    <2>1. req[m.by].st = "sent" /\ req[m.by] \in ReqType /\ req \in [Users -> ReqType]
      BY <1>1, <1>3 DEF Types, CallTypes, WayTypes
    <2>2. [req[m.by] EXCEPT !.st = "refused"] \in ReqType
      <3>1. CASE req[m.by] \in RunReqType
        BY <2>1, <3>1 DEF ReqType, RunReqType
      <3>2. CASE req[m.by] \in DepReqType
        BY <2>1, <3>2 DEF ReqType, DepReqType
      <3> QED  BY <2>1, <3>1, <3>2 DEF ReqType, NoReq
    <2> QED  BY <1>1, <1>2, <1>3, <2>1, <2>2 DEF Refused
  <1>4. CASE cut
    BY <1>2, <1>4 DEF Refused, Types, WayTypes
  <1> QED  BY <1>2, <1>3, <1>4

\* Taking a call, and answering it, leaves the others with their requests.
LEMMA AnswerCalls ==
  ASSUME Types, NEW m \in down, down' = down \ {m}, UNCHANGED <<cut, link, hello>>,
         req' = req \/ (m.k # "cancel" /\ (req' = Taken(m) \/ req' = Refused(m)))
  PROVE  CallTypes'
  <1> SUFFICES ASSUME ~cut, NEW n \in down', n.k # "cancel"
               PROVE  req'[n.by] = req[n.by]
    BY DEF Types, CallTypes
  <1>1. m.k # "cancel" => n.by # m.by
    BY DEF Types, CallTypes
  <1>2. n.by \in Users
    <2>1. n \in CallType \/ n \in OrderType
      BY DEF Types, WayTypes, OrderType, CallType, CancelType
    <2> QED  BY <2>1 DEF CallType, OrderType
  <1> QED  BY <1>1, <1>2 DEF Taken, Refused, Types, WayTypes

LEMMA HandlerTyped ==
  ASSUME Types, NEW m \in down, OnRun(m) \/ OnDeploy(m) \/ OnCancel(m)
  PROVE  Types'
  <1> USE DEF dbVars, superVars, netVars, history
  <1>1. CASE OnRun(m)
    <2>1. m \in CallType
      BY <1>1, DownTyped DEF OnRun
    <2>2. /\ down' = down \ {m} /\ m.k = "run" /\ (req' = Taken(m) \/ req' = Refused(m))
      BY <1>1 DEF OnRun
    <2>3. WayTypes' /\ CallTypes'
      BY <1>1, <2>2, AnswerTyped, AnswerCalls DEF OnRun, Types, WayTypes
    <2>4. AgentTypes'
      <3>1. UNCHANGED <<task, installed, manifest, did, reached>>
        BY <1>1 DEF OnRun
      <3>2. job' = job \/ (task = NoTask /\ job' = m.run)
        BY <1>1 DEF OnRun, AgentIdle
      <3> QED  BY <2>1, <3>1, <3>2 DEF Types, AgentTypes, CallType, SingleIds, StepIds, NoTask
    <2>5. FlagTypes'
      BY <1>1 DEF OnRun, Types, FlagTypes
    <2> QED  BY <1>1, <2>3, <2>4, <2>5, SameTypes DEF OnRun, Types
  <1>2. CASE OnDeploy(m)
    <2>1. m \in OrderType /\ (m.list = "rollback" => m.back = <<>>)
      BY <1>2, DownTyped DEF OnDeploy, Types, WayTypes
    <2>2. /\ down' = down \ {m} /\ m.k = "deploy" /\ (req' = Taken(m) \/ req' = Refused(m))
      BY <1>2 DEF OnDeploy
    <2>3. WayTypes' /\ CallTypes'
      BY <1>2, <2>2, AnswerTyped, AnswerCalls DEF OnDeploy, Types, WayTypes
    <2>4. AgentTypes'
      <3>1. CASE ~AgentIdle
        BY <1>2, <3>1 DEF OnDeploy, Types, AgentTypes
      <3>2. CASE AgentIdle
        <4> DEFINE t == [dep |-> m.dep, list |-> m.list, todo |-> m.steps,
                      back |-> m.back, stopped |-> FALSE, pc |-> "check",
                      phase |-> "list", res |-> "none", rb |-> "none"]
        <4>1. IsTask(t) /\ t.pc = "check"
          BY <2>1 DEF OrderType, IsTask, TaskType, Maybe
        <4>2. task' = t /\ reached' = [reached EXCEPT ![m.dep][m.list] = "none"] /\ job = NoRun
              /\ UNCHANGED <<job, installed, manifest, did>>
          BY <1>2, <3>2 DEF OnDeploy, AgentIdle
        <4> HIDE DEF t
        <4>3. reached' \in [DepIds -> [deploy : Maybe, rollback : Maybe]]
          BY <2>1, <4>2 DEF Types, AgentTypes, OrderType, Lists, Maybe
        <4> QED  BY <4>1, <4>2, <4>3, RunFacts DEF Types, AgentTypes, StepIds
      <3> QED  BY <3>1, <3>2
    <2> QED  BY <1>2, <2>3, <2>4, SameTypes DEF OnDeploy, Types
  <1>3. CASE OnCancel(m)
    <2>1. m.k = "cancel" /\ down' = down \ {m} /\ req' = req
      BY <1>3 DEF OnCancel
    <2>2. WayTypes' /\ CallTypes'
      BY <1>3, <2>1, AnswerCalls DEF OnCancel, Types, WayTypes
    <2>3. AgentTypes'
      <3>1. UNCHANGED <<job, installed, manifest, did, reached>>
        BY <1>3 DEF OnCancel
      <3>2. task' = task \/ (task # NoTask /\ task' = [task EXCEPT !.stopped = TRUE])
        BY <1>3 DEF OnCancel
      <3> QED  BY <3>1, <3>2 DEF Types, AgentTypes, IsTask, TaskType
    <2>4. FlagTypes'
      BY <1>3 DEF OnCancel, Types, FlagTypes
    <2> QED  BY <1>3, <2>2, <2>3, <2>4, SameTypes DEF OnCancel, Types
  <1> QED  BY <1>1, <1>2, <1>3

LEMMA LinkTyped ==
  ASSUME Types, Hello \/ ServeEnds \/ SupervisorRestarts \/ Cut
  PROVE  Types'
  <1> USE DEF dbVars, superVars, netVars, agentVars, history
  <1>1. CASE Hello
    <2> DEFINE kept == CancelLostStepRuns(rows, Range(told.runs))
    <2> DEFINE mine == {r \in Range(told.runs) : Adopted(r)}
    <2> DEFINE gone == {r \in RunIds : kept[r] # rows[r]}
    <2> DEFINE on == [r \in RunIds |-> IF r \in mine \ opened
                                 THEN StartStepRun(kept, r)[r] ELSE kept[r]]
    <2>1. /\ rows' = SkipWaitRunsOf(on, Lost(told.deps)) /\ opened' = (opened \ gone) \cup mine
          /\ \E r \in IF mine = {} THEN {mark.run} ELSE LastIn(told.runs, mine) :
             mark' = [run |-> r, dep |-> IF told.deps = <<>> THEN mark.dep ELSE Head(told.deps)]
          /\ deps' = CancelLostDeployments(deps, Range(told.deps))
          /\ hello' = "done" /\ told' = [runs |-> <<>>, deps |-> <<>>]
          /\ UNCHANGED <<listed, link, req, netVars, agentVars, history, count>>
      BY <1>1 DEF Hello
    <2>2. kept \in [RunIds -> RunResults]
      BY RowStatements DEF Types, StoreTypes
    <2>3. told.runs \in Seq(RunIds) /\ told.deps \in Seq(DepIds) /\ Range(told.runs) \subseteq RunIds
      BY RangeFacts DEF Types, LinkTypes
    <2> HIDE DEF kept
    <2>4. on \in [RunIds -> RunResults]
      BY <2>2, RowStatements
    <2>5. mine \subseteq RunIds
      BY <2>3
    <2> HIDE DEF on, mine, gone
    <2>6. StoreTypes'
      BY <2>1, <2>4, <2>5, RowStatements, DepStatements DEF Types, StoreTypes, DepRows
    <2>7. mark' \in [run : RunIds \cup {NoRun}, dep : 0 .. MaxDep]
      <3>1. LastIn(told.runs, mine) \subseteq RunIds
        BY <2>3 DEF LastIn
      <3>2. (IF told.deps = <<>> THEN mark.dep ELSE Head(told.deps)) \in 0 .. MaxDep
        BY <2>3, StoreAssumption DEF Types, LinkTypes, DepIds
      <3> QED  BY <2>1, <3>1, <3>2 DEF Types, LinkTypes
    <2>8. LinkTypes'
      BY <2>1, <2>7 DEF Types, LinkTypes
    <2>9. CallTypes'
      BY <2>1 DEF Types, CallTypes
    <2> QED  BY <2>1, <2>6, <2>8, <2>9, SameTypes DEF Types
  <1>2. CASE ServeEnds
    <2>1. LinkTypes'
      BY <1>2, StateAssumption, StoreAssumption DEF ServeEnds, Types, LinkTypes, NoMark
    <2>2. WayTypes'
      BY <1>2 DEF ServeEnds, Types, WayTypes
    <2>3. CallTypes'
      BY <1>2 DEF ServeEnds, Types, CallTypes
    <2>4. ChanTypes'
      BY <1>2 DEF ServeEnds, Types, ChanTypes
    <2> QED  BY <1>2, <2>1, <2>2, <2>3, <2>4, SameTypes DEF ServeEnds, Types
  <1>3. CASE SupervisorRestarts
    <2>1. LinkTypes'
      BY <1>3, StateAssumption, StoreAssumption DEF SupervisorRestarts, Types, LinkTypes, NoMark
    <2>2. WayTypes'
      BY <1>3 DEF SupervisorRestarts, Types, WayTypes, ReqType
    <2>3. CallTypes'
      BY <1>3 DEF SupervisorRestarts, Types, CallTypes
    <2>4. StoreTypes'
      BY <1>3 DEF SupervisorRestarts, Types, StoreTypes
    <2>5. FlagTypes'
      BY <1>3 DEF SupervisorRestarts, Types, FlagTypes
    <2>6. ChanTypes'
      BY <1>3 DEF SupervisorRestarts, Types, ChanTypes
    <2> QED  BY <1>3, <2>1, <2>2, <2>3, <2>4, <2>5, <2>6, SameTypes DEF SupervisorRestarts, Types
  <1>4. CASE Cut
    <2>1. up' \in Seq(UpType)
      <3>1. PICK n \in 0 .. Len(up) : up' = SubSeq(up, 1, n)
        BY <1>4 DEF Cut
      <3> QED  BY <3>1 DEF Types, WayTypes
    <2>2. WayTypes'
      BY <1>4, <2>1 DEF Cut, Types, WayTypes
    <2>3. CallTypes'
      BY <1>4 DEF Cut, CallTypes
    <2>4. FlagTypes'
      BY <1>4 DEF Cut, Types, FlagTypes
    <2>5. LinkTypes'
      BY <1>4 DEF Cut, Types, LinkTypes
    <2>6. ChanTypes'
      BY <1>4 DEF Cut, Types, ChanTypes
    <2> QED  BY <1>4, <2>2, <2>3, <2>4, <2>5, <2>6, SameTypes DEF Cut, Types
  <1> QED  BY <1>1, <1>2, <1>3, <1>4

LEMMA UpTyped ==
  ASSUME Types, up # <<>>
  PROVE  /\ Head(up) \in UpType /\ Tail(up) \in Seq(UpType)
         /\ Head(up).k = "start" => Head(up).dep \in DepIds /\ Head(up).run \in RunIds
         /\ Head(up).k = "ends" => Head(up).e \in EndType /\ Head(up).f \in Flushers
         /\ Head(up).k = "deps" => Head(up).e \in DepEndType /\ Head(up).f \in Flushers
  <1>1. Head(up) \in UpType /\ Tail(up) \in Seq(UpType)
    BY DEF Types, WayTypes
  <1> QED  BY <1>1 DEF UpType

LEMMA AckTyped ==
  ASSUME Types, up # <<>>, NEW st, UNCHANGED <<cut, uconn, dialing>>,
         (st = "endAcked" /\ Head(up).k = "ends") \/ (st = "depAcked" /\ Head(up).k = "deps"),
         flush' = Acked(Head(up), st), up' = Tail(up)
  PROVE  flush' \in [Flushers -> FlushType] /\ ChanTypes'
  <1> DEFINE f == Head(up).f
  <1>1. f \in Flushers /\ flush \in [Flushers -> FlushType] /\ up \in Seq(UpType)
    BY UpTyped DEF Types, WayTypes
  <1>2. /\ DOMAIN Tail(up) = 1 .. Len(up) - 1
        /\ \A i \in DOMAIN Tail(up) : Tail(up)[i] = up[i + 1] /\ i + 1 \in DOMAIN up
        /\ Head(up) = up[1] /\ 1 \in DOMAIN up
    BY <1>1
  <1>3. \A i \in DOMAIN up : up[i].k # "start" => up[i].f \in Flushers /\ up[i].k \in {"ends", "deps"}
    BY DEF Types, WayTypes, UpType
  <1>4. CASE cut
    BY <1>1, <1>4, SameTypes DEF Acked, Types, ChanTypes
  <1>5. CASE ~cut
    <2>1. WaitsFor(Head(up)) /\ uconn # 0
      BY <1>2, <1>5 DEF Types, ChanTypes
    <2>2. flush[f].st = Head(up).k /\ flush[f] # Idle
      BY <2>1 DEF WaitsFor, Idle
    <2>3. flush' = [flush EXCEPT ![f].st = st]
      BY <1>5, <2>2 DEF Acked
    <2>4. [flush[f] EXCEPT !.st = st] \in FlushType
      BY <1>1, <2>2 DEF FlushType, EndsFlush, DepsFlush, Idle
    <2>5. flush' \in [Flushers -> FlushType]
      BY <1>1, <2>3, <2>4
    <2>6. \A i \in DOMAIN Tail(up) : Tail(up)[i].k # "start" => Tail(up)[i].f # f
      <3> SUFFICES ASSUME NEW i \in DOMAIN Tail(up), Tail(up)[i].k # "start", Tail(up)[i].f = f PROVE FALSE
        OBVIOUS
      <3>1. i + 1 \in DOMAIN up /\ up[i + 1].k # "start" /\ up[i + 1].f = up[1].f /\ up[1].k # "start" /\ i \in Nat /\ i # 0
        BY <1>2
      <3>2. i + 1 = 1
        BY <1>2, <1>5, <3>1 DEF Types, ChanTypes
      <3> QED  BY <3>1, <3>2
    <2>7. \A g \in Flushers : g # f => flush'[g] = flush[g]
      BY <1>1, <2>3
    <2> DEFINE tail == Tail(up)
    <2>8. /\ \A i \in DOMAIN tail : tail[i] = up[i + 1] /\ i + 1 \in DOMAIN up /\ i \in Nat
          /\ \A i \in DOMAIN tail : tail[i].k # "start" => tail[i].f # f
      BY <1>2, <2>6
    <2> HIDE DEF tail, f
    <2>9. up' = tail
      BY DEF tail
    <2>10. \A i \in DOMAIN tail : tail[i].k # "start" =>
             flush'[tail[i].f].st = tail[i].k /\ Head(flush'[tail[i].f].todo) = tail[i].e
      <3> SUFFICES ASSUME NEW i \in DOMAIN tail, tail[i].k # "start"
                   PROVE  flush'[tail[i].f].st = tail[i].k /\ Head(flush'[tail[i].f].todo) = tail[i].e
        OBVIOUS
      <3>1. tail[i] = up[i + 1] /\ i + 1 \in DOMAIN up /\ up[i + 1].k # "start" /\ tail[i].f # f
        BY <2>8
      <3>2. WaitsFor(up[i + 1]) /\ up[i + 1].f \in Flushers
        BY <1>3, <1>5, <3>1 DEF Types, ChanTypes
      <3> QED  BY <2>7, <3>1, <3>2 DEF WaitsFor
    <2>11. \A i, j \in DOMAIN tail : tail[i].k # "start" /\ tail[j].k # "start" /\ tail[i].f = tail[j].f => i = j
      <3> SUFFICES ASSUME NEW i \in DOMAIN tail, NEW j \in DOMAIN tail,
                          tail[i].k # "start", tail[j].k # "start", tail[i].f = tail[j].f
                   PROVE  i = j
        OBVIOUS
      <3>1. i + 1 = j + 1
        BY <1>5, <2>8 DEF Types, ChanTypes
      <3> QED  BY <2>8, <3>1
    <2> QED  BY <1>5, <2>1, <2>5, <2>9, <2>10, <2>11 DEF Types, ChanTypes, WaitsFor
  <1> QED  BY <1>4, <1>5

LEMMA HeardTyped ==
  ASSUME Types, OnStepStart \/ OnEnd \/ OnDeployEnd
  PROVE  Types'
  <1> USE DEF dbVars, superVars, netVars, agentVars, history
  <1>1. CASE OnStepStart
    <2> DEFINE r == Head(up).run
    <2>1. up # <<>> /\ Head(up).k = "start" /\ up' = Tail(up) /\ r \in RunIds
      BY <1>1, UpTyped DEF OnStepStart, Received
    <2>2. UNCHANGED <<listed, link, hello, told, req, down, cut, last, agentVars, history, count>>
      BY <1>1 DEF OnStepStart
    <2>3. \/ UNCHANGED <<rows, deps, opened, mark>>
          \/ /\ rows' = StartStepRun(rows, r) /\ opened' = opened \cup {r}
             /\ deps' = deps \/ deps' = SetRollbackResult(deps, DepOf(r), "running")
             /\ mark' = [mark EXCEPT !.run = r]
      BY <1>1 DEF OnStepStart
    <2> HIDE DEF r
    <2>4. StoreTypes'
      <3>1. rows' \in [RunIds -> RunResults] /\ opened' \subseteq RunIds
        BY <2>1, <2>3, RowStatements DEF Types, StoreTypes
      <3>2. deps' \in DepRows
        BY <2>3, DepStatements DEF Types, StoreTypes, DepRows, DepResults
      <3> QED  BY <2>2, <3>1, <3>2 DEF Types, StoreTypes, DepRows
    <2>5. LinkTypes'
      BY <2>1, <2>2, <2>3 DEF Types, LinkTypes
    <2>6. WayTypes'
      BY <2>1, <2>2, UpTyped DEF Types, WayTypes
    <2>7. ChanTypes'
      <3>1. /\ DOMAIN Tail(up) = 1 .. Len(up) - 1
            /\ \A i \in DOMAIN Tail(up) : Tail(up)[i] = up[i + 1] /\ i + 1 \in DOMAIN up
        BY <2>1 DEF Types, WayTypes
      <3> DEFINE tail == Tail(up)
      <3>2. \A i \in DOMAIN tail : tail[i] = up[i + 1] /\ i + 1 \in DOMAIN up /\ i \in Int
        BY <3>1
      <3>3. \A i, j \in DOMAIN tail : i + 1 = j + 1 => i = j
        BY <3>2
      <3>4. up' = tail /\ (up = <<>> => tail = up)
        BY <2>1
      <3> HIDE DEF tail
      <3> QED  BY <2>1, <2>2, <3>2, <3>3, <3>4 DEF Types, ChanTypes, WaitsFor
    <2> QED  BY <2>2, <2>4, <2>5, <2>6, <2>7, SameTypes DEF Types
  <1>2. CASE OnEnd
    <2>1. /\ up # <<>> /\ Head(up).k = "ends" /\ up' = Tail(up)
          /\ flush' = Acked(Head(up), "endAcked")
          /\ mark' = RunUnmarked(Head(up).e.run) /\ rows' = Finished(Head(up).e.run, Head(up).e.res)
          /\ UNCHANGED <<deps, listed, link, hello, told, opened, req, down, cut, last, uconn,
                 dialing, job, killed, task, ends, dends, installed, manifest, history, count>>
      BY <1>2 DEF OnEnd, Received
    <2>2. StoreTypes'
      BY <2>1, UpTyped, RowStatements DEF Finished, EndType, Types, StoreTypes
    <2>3. LinkTypes'
      BY <2>1 DEF RunUnmarked, Types, LinkTypes
    <2>4. WayTypes' /\ ChanTypes'
      BY <2>1, UpTyped, AckTyped DEF Types, WayTypes
    <2> QED  BY <2>1, <2>2, <2>3, <2>4, SameTypes DEF Types
  <1>3. CASE OnDeployEnd
    <2> DEFINE e == Head(up).e
    <2>1. /\ up # <<>> /\ Head(up).k = "deps" /\ up' = Tail(up) /\ e \in DepEndType
          /\ flush' = Acked(Head(up), "depAcked")
          /\ mark' = DepUnmarked(e.dep) /\ listed' = e.inst
          /\ UNCHANGED <<link, hello, told, opened, req, down, cut, last, uconn, dialing,
                 job, killed, task, ends, dends, installed, manifest, history, count>>
      BY <1>3, UpTyped DEF OnDeployEnd, Received
    <2>2. deps' \in DepRows /\ rows' \in [RunIds -> RunResults]
      <3>1. deps \in DepRows /\ rows \in [RunIds -> RunResults] /\ Ended \subseteq DepResults
        BY DEF Types, StoreTypes, DepRows, DepResults
      <3>2. CASE e.list = "rollback"
        <4>1. deps' = SetRollbackResult(deps, e.dep, e.res) /\ rows' = SkipWaitRuns(rows, e.dep, "rollback")
          BY <1>3, <3>2 DEF OnDeployEnd, Skipped
        <4> QED  BY <2>1, <3>1, <4>1, RowStatements, DepStatements DEF DepEndType
      <3>3. CASE e.list # "rollback"
        <4> DEFINE done == FinishDeployment(deps, e.dep, e.res)
        <4> DEFINE left == SkipWaitRuns(rows, e.dep, "deploy")
        <4>1. done \in DepRows /\ left \in [RunIds -> RunResults]
          BY <2>1, <3>1, RowStatements, DepStatements DEF DepEndType
        <4>2. \/ e.rb # "none" /\ deps' = SetRollbackResult(done, e.dep, e.rb) /\ rows' = SkipWaitRuns(left, e.dep, "rollback")
              \/ deps' = done /\ rows' = DeleteWaitRuns(left, e.dep, "rollback")
          BY <1>3, <3>3 DEF OnDeployEnd, Skipped
        <4> HIDE DEF done, left
        <4> QED  BY <2>1, <3>1, <4>1, <4>2, RowStatements, DepStatements DEF DepEndType, Maybe
      <3> QED  BY <3>2, <3>3
    <2> HIDE DEF e
    <2>3. StoreTypes'
      BY <2>1, <2>2 DEF Types, StoreTypes, DepRows, DepEndType
    <2>4. LinkTypes'
      <3>1. 0 \in 0 .. MaxDep
        BY StoreAssumption
      <3>2. mark' \in [run : RunIds \cup {NoRun}, dep : 0 .. MaxDep]
        BY <2>1, <3>1 DEF DepUnmarked, Types, LinkTypes
      <3> QED  BY <2>1, <3>2 DEF Types, LinkTypes
    <2>5. WayTypes' /\ ChanTypes'
      BY <2>1, UpTyped, AckTyped DEF Types, WayTypes
    <2> QED  BY <2>1, <2>3, <2>4, <2>5, SameTypes DEF Types
  <1> QED  BY <1>1, <1>2, <1>3

\* Requests come and go; a call is sent on the link its request looked at.
LEMMA ReqTyped ==
  ASSUME Types, NEW u \in Users, NEW r, r \in ReqType, req' = [req EXCEPT ![u] = r], UNCHANGED <<cut, link, hello>>,
         \/ down' = down /\ (cut \/ \A m \in down : m.k # "cancel" => m.by # u)
         \/ \E m : /\ down' = down \cup {m} /\ (m.k = "run" \/ m.k = "deploy") /\ m.by = u
                   /\ r.st = "sent" /\ r.conn = link /\ (cut \/ req[u].st # "sent")
  PROVE  req' \in [Users -> ReqType] /\ CallTypes'
  <1>1. req' \in [Users -> ReqType]
    BY DEF Types, WayTypes
  <1>2. \A v \in Users : v # u => req'[v] = req[v]
    BY DEF Types, WayTypes
  <1>3. \A m \in down : m.k # "cancel" => m.by \in Users
    BY DEF Types, WayTypes, OrderType, CallType, CancelType
  <1>4. CASE cut
    BY <1>4, <1>1 DEF CallTypes
  <1>5. CASE ~cut
    <2>1. CASE down' = down
      BY <1>1, <1>2, <1>3, <1>5, <2>1 DEF Types, CallTypes
    <2>2. ASSUME NEW m, down' = down \cup {m}, m.k = "run" \/ m.k = "deploy", m.by = u, r.st = "sent", r.conn = link,
                 req[u].st # "sent"
          PROVE CallTypes'
      <3>1. \A n \in down : n.k # "cancel" => n.by # u
        BY <1>5, <2>2 DEF Types, CallTypes
      <3>2. req'[u] = r
        BY DEF Types, WayTypes
      <3> QED  BY <1>2, <1>3, <1>5, <2>2, <3>1, <3>2 DEF Types, CallTypes
    <2> QED  BY <1>1, <1>5, <2>1, <2>2
  <1> QED  BY <1>4, <1>5

LEMMA CallGone ==
  ASSUME Types, NEW u \in Users, req[u].st # "sent" \/ ~Alive(u) \/ hello = "leaked"
  PROVE  cut \/ \A m \in down : m.k # "cancel" => m.by # u
  BY DEF Types, CallTypes, Alive

LEMMA AskTyped ==
  ASSUME Types, NEW u \in Users,
         \/ AskRun(u) \/ LookRun(u) \/ RefuseRollback(u)
         \/ \E d \in DepIds : AskDeploy(u, d) \/ AskRollback(u, d)
  PROVE  Types'
  <1> USE DEF dbVars, superVars, netVars, agentVars, history
  <1>1. UNCHANGED <<deps, listed, superVars, netVars, agentVars, history>>
    BY DEF AskRun, AskDeploy, AskRollback, LookRun, RunTaken, Done, RefuseRollback
  <1>2. StoreTypes'
    <2>1. CASE AskRun(u)
      <3>1. count.single \in 0 .. MaxSingle /\ count.single < MaxSingle /\ count' = [count EXCEPT !.single = @ + 1]
            /\ rows' = CreateStepRun(rows, SingleRun(count.single + 1))
        BY <2>1 DEF AskRun, Types, StoreTypes
      <3>2. count'.single \in 0 .. MaxSingle /\ count'.try = count.try
            /\ count' = [reset |-> count'.reset, boot |-> count'.boot, cancel |-> count'.cancel, try |-> count'.try,
              single |-> count'.single]
        BY <3>1, StoreAssumption DEF Types, StoreTypes
      <3> QED  BY <1>1, <3>1, <3>2, RowStatements DEF Types, StoreTypes
    <2>2. CASE LookRun(u)
      <3>1. rows' = rows \/ rows' = FinishStepRun(rows, req[u].id, "cancel")
        BY <2>2 DEF LookRun, RunTaken
      <3>2. count' = count
        BY <2>2 DEF LookRun
      <3> QED  BY <1>1, <3>1, <3>2, RowStatements DEF Types, StoreTypes, Ended
    <2>3. CASE RefuseRollback(u) \/ \E d \in DepIds : AskDeploy(u, d) \/ AskRollback(u, d)
      BY <1>1, <2>3, SameTypes DEF AskDeploy, AskRollback, RefuseRollback
    <2> QED  BY <2>1, <2>2, <2>3
  <1>3. PICK r \in ReqType : req' = [req EXCEPT ![u] = r]
    <2>1. CASE AskRun(u)
      <3>1. SingleRun(count.single + 1) \in SingleIds
        BY <2>1, SingleFacts, StoreAssumption DEF AskRun, Types, StoreTypes, SingleIds
      <3> QED  BY <2>1, <3>1 DEF AskRun, Asked, ReqType, RunReqType, Types, LinkTypes
    <2>2. CASE \E d \in DepIds : AskDeploy(u, d)
      BY <2>2 DEF AskDeploy, Asked, ReqType, DepReqType, Types, LinkTypes
    <2>3. ASSUME NEW d \in DepIds, AskRollback(u, d) PROVE \E r \in ReqType : req' = [req EXCEPT ![u] = r]
      <3>1. 0 \in 0 .. MaxConn
        BY StateAssumption
      <3>2. [st |-> "asked", kind |-> "rollback", id |-> d, conn |-> 0] \in ReqType
        BY <3>1 DEF ReqType, DepReqType
      <3> QED  BY <2>3, <3>2 DEF AskRollback, Asked
    <2>4. CASE LookRun(u)
      <3>1. req[u] \in ReqType /\ req[u].st = "made"
        BY <2>4 DEF LookRun, Types, WayTypes
      <3>2. [req[u] EXCEPT !.st = "looked"] \in ReqType
        BY <3>1 DEF ReqType, RunReqType, DepReqType, NoReq
      <3> QED  BY <2>4, <3>2 DEF LookRun, RunTaken, Asked, Done, ReqType
    <2>5. CASE RefuseRollback(u)
      BY <2>5 DEF RefuseRollback, Done, ReqType
    <2> QED  BY <2>1, <2>2, <2>3, <2>4, <2>5
  <1>4. req[u].st # "sent"
    <2>1. AskRun(u) \/ LookRun(u) \/ RefuseRollback(u) => req[u].st # "sent"
      BY DEF AskRun, LookRun, RefuseRollback, NoReq
    <2>2. \A d \in DepIds : AskDeploy(u, d) \/ AskRollback(u, d) => req[u].st # "sent"
      BY DEF AskDeploy, AskRollback, NoReq
    <2> QED  BY <2>1, <2>2
  <1>5. req' \in [Users -> ReqType] /\ CallTypes'
    BY <1>1, <1>3, <1>4, CallGone, ReqTyped
  <1>6. WayTypes'
    BY <1>1, <1>5 DEF Types, WayTypes
  <1> QED  BY <1>1, <1>2, <1>5, <1>6, SameTypes DEF Types

LEMMA AbortTyped ==
  ASSUME Types, NEW u \in Users, NEW list, NEW t \in [RunIds -> RunResults], Aborted(u, list, t)
  PROVE  /\ deps' \in DepRows /\ rows' \in [RunIds -> RunResults]
         /\ mark' \in [run : RunIds \cup {NoRun}, dep : 0 .. MaxDep] /\ req' = [req EXCEPT ![u] = NoReq]
  <1>1. deps' \in DepRows
    BY DepStatements DEF Aborted, Types, StoreTypes, DepRows, Ended, DepResults
  <1>2. rows' \in [RunIds -> RunResults]
    BY RowStatements DEF Aborted
  <1>3. 0 \in 0 .. MaxDep
    BY StoreAssumption
  <1>4. mark' \in [run : RunIds \cup {NoRun}, dep : 0 .. MaxDep]
    BY <1>3 DEF Aborted, DepUnmarked, Types, LinkTypes
  <1>5. req' = [req EXCEPT ![u] = NoReq]
    BY DEF Aborted, Done
  <1> QED  BY <1>1, <1>2, <1>4, <1>5

LEMMA DeployTyped ==
  ASSUME Types, NEW u \in Users, TakeDeploy(u) \/ SendDeploy(u)
  PROVE  Types'
  <1> USE DEF dbVars, superVars, netVars, agentVars, history
  <1>1. req[u] \in DepReqType /\ req[u].kind = "deploy" /\ req[u].id \in DepIds /\ req[u].st \in {"asked", "marked"}
    BY DEF TakeDeploy, SendDeploy, Types, WayTypes, ReqType, RunReqType, DepReqType, NoReq
  <1> DEFINE d == req[u].id
  <1>2. CASE TakeDeploy(u)
    <2>1. UNCHANGED <<rows, listed, link, hello, told, opened, netVars, agentVars, history, count>>
      BY <1>2 DEF TakeDeploy
    <2>2. deps' \in DepRows
      <3>1. CreateDeployment(deps, d) \in DepRows
        BY DepStatements DEF Types, StoreTypes, DepRows
      <3>2. deps' = CreateDeployment(deps, d) \/ deps' = FinishDeployment(CreateDeployment(deps, d), d, "cancel")
        BY <1>2 DEF TakeDeploy
      <3> QED  BY <3>1, <3>2, DepStatements DEF Ended
    <2>3. mark' \in [run : RunIds \cup {NoRun}, dep : 0 .. MaxDep]
      <3>1. mark' = mark \/ mark' = [mark EXCEPT !.dep = d]
        BY <1>2 DEF TakeDeploy
      <3>2. d \in 0 .. MaxDep
        BY <1>1 DEF DepIds
      <3> QED  BY <3>1, <3>2 DEF Types, LinkTypes
    <2>4. PICK r \in ReqType : req' = [req EXCEPT ![u] = r]
      <3>1. [req[u] EXCEPT !.st = "marked"] \in ReqType
        BY <1>1 DEF DepReqType, ReqType
      <3> QED  BY <1>2, <3>1 DEF TakeDeploy, Asked, Done, ReqType
    <2>5. req' \in [Users -> ReqType] /\ CallTypes'
      BY <1>1, <2>1, <2>4, CallGone, ReqTyped
    <2>6. StoreTypes' /\ LinkTypes' /\ WayTypes'
      BY <2>1, <2>2, <2>3, <2>5 DEF Types, StoreTypes, LinkTypes, WayTypes, DepRows
    <2> QED  BY <2>1, <2>5, <2>6, SameTypes DEF Types
  <1>3. CASE SendDeploy(u)
    <2>1. UNCHANGED <<listed, link, hello, told, opened, up, cut, last, agentVars, history, count>> /\ req[u].st = "marked"
      BY <1>3 DEF SendDeploy
    <2>2. PICK auto \in AutoBuilds :
            LET back == IF auto THEN BackRuns(req[u].id, 0) ELSE <<>>
                made == CreateWaitStepRuns(rows, DeployRuns(req[u].id) \o back)
            IN IF Alive(u) /\ mark.run # NoRun
               THEN Aborted(u, "deploy", rows) /\ down' = down
               ELSE IF ~Callable(u) THEN Aborted(u, "deploy", made) /\ down' = down
               ELSE /\ rows' = made
                    /\ down' = down \cup {[k |-> "deploy", by |-> u, dep |-> req[u].id,
                                           list |-> "deploy", steps |-> DeployRuns(req[u].id),
                                           back |-> back]}
                    /\ Asked(u, [req[u] EXCEPT !.st = "sent"])
                    /\ UNCHANGED <<deps, mark>>
      BY <1>3 DEF SendDeploy
    <2> DEFINE back == IF auto THEN BackRuns(d, 0) ELSE <<>>
    <2> DEFINE made == CreateWaitStepRuns(rows, DeployRuns(d) \o back)
    <2> DEFINE m == [k |-> "deploy", by |-> u, dep |-> d, list |-> "deploy", steps |-> DeployRuns(d), back |-> back]
    <2>3. m \in OrderType /\ m.k = "deploy" /\ m.by = u /\ m.list = "deploy"
      <3>1. back \in Seq(StepIds)
        BY <1>1, BackRunsFacts, StoreAssumption
      <3>2. DeployRuns(d) \in Seq(StepIds)
        BY <1>1, DeployRunsFacts
      <3> HIDE DEF back
      <3> QED  BY <1>1, <3>1, <3>2 DEF OrderType, Lists
    <2>4. made \in [RunIds -> RunResults] /\ rows \in [RunIds -> RunResults] /\ deps \in DepRows
      BY RowStatements DEF Types, StoreTypes, DepRows
    <2>5. [req[u] EXCEPT !.st = "sent"] \in DepReqType /\ [req[u] EXCEPT !.st = "sent"].st = "sent"
          /\ [req[u] EXCEPT !.st = "sent"].conn = req[u].conn
      BY <1>1 DEF DepReqType
    <2> HIDE DEF m, made, back, d
    <2>6. CASE (Aborted(u, "deploy", rows) \/ Aborted(u, "deploy", made)) /\ down' = down
      <3>1. /\ deps' \in DepRows /\ rows' \in [RunIds -> RunResults]
            /\ mark' \in [run : RunIds \cup {NoRun}, dep : 0 .. MaxDep] /\ req' = [req EXCEPT ![u] = NoReq]
        BY <2>4, <2>6, AbortTyped
      <3>2. req' \in [Users -> ReqType] /\ CallTypes'
        BY <2>1, <2>6, <3>1, CallGone, ReqTyped DEF ReqType
      <3>3. StoreTypes' /\ LinkTypes' /\ WayTypes'
        BY <2>1, <2>6, <3>1, <3>2 DEF Types, StoreTypes, LinkTypes, WayTypes, DepRows
      <3> QED  BY <2>1, <3>2, <3>3, SameTypes DEF Types
    <2>7. CASE /\ rows' = made /\ down' = down \cup {m} /\ Callable(u)
               /\ Asked(u, [req[u] EXCEPT !.st = "sent"]) /\ UNCHANGED <<deps, mark>>
      <3>1. req' \in [Users -> ReqType] /\ CallTypes'
        <4>1. req[u].conn = link /\ req' = [req EXCEPT ![u] = [req[u] EXCEPT !.st = "sent"]]
          BY <2>7 DEF Callable, Alive, Asked
        <4> QED  BY <2>1, <2>3, <2>5, <2>7, <4>1, ReqTyped DEF ReqType
      <3>2. StoreTypes' /\ LinkTypes'
        BY <2>1, <2>4, <2>7, <3>1 DEF Types, StoreTypes, LinkTypes, DepRows
      <3>3. WayTypes'
        BY <2>1, <2>3, <2>7, <3>1 DEF Types, WayTypes
      <3> QED  BY <2>1, <3>1, <3>2, <3>3, SameTypes DEF Types
    <2> QED  BY <2>2, <2>6, <2>7 DEF m, made, back, d
  <1> QED  BY <1>2, <1>3

LEMMA RollbackTyped ==
  ASSUME Types, NEW u \in Users, SendRollback(u)
  PROVE  Types'
  <1> USE DEF dbVars, superVars, netVars, agentVars, history
  <1> DEFINE d == req[u].id
  <1> DEFINE k == count.try[d] + 1
  <1> DEFINE made == CreateWaitStepRuns(DeleteWaitRuns(rows, d, "rollback"), BackRuns(d, k))
  <1> DEFINE m == [k |-> "deploy", by |-> u, dep |-> d, list |-> "rollback", steps |-> BackRuns(d, k), back |-> <<>>]
  <1> DEFINE r == [req[u] EXCEPT !.st = IF cut THEN "refused" ELSE "sent", !.conn = link]
  <1>1. req[u] \in DepReqType /\ req[u].kind = "rollback" /\ d \in DepIds /\ req[u].st = "asked"
    BY DEF SendRollback, Types, WayTypes, ReqType, RunReqType, DepReqType, NoReq
  <1>2. /\ count' = [count EXCEPT !.try[d] = k]
        /\ deps' = SetRollbackResult(deps, d, "running") /\ rows' = made
        /\ mark' = [mark EXCEPT !.dep = d]
        /\ req' = [req EXCEPT ![u] = r]
        /\ down' = IF cut THEN down ELSE down \cup {m}
        /\ UNCHANGED <<listed, link, hello, told, opened, up, cut, last, agentVars, history>>
    BY DEF SendRollback, Asked
  <1>3. k \in 1 .. MaxTry /\ count.try \in [DepIds -> 0 .. MaxTry]
    <2>1. count.try[d] \in 0 .. MaxTry /\ count.try[d] < MaxTry /\ count.try \in [DepIds -> 0 .. MaxTry]
      BY <1>1 DEF SendRollback, Types, StoreTypes
    <2> QED  BY <2>1, StoreAssumption
  <1>4. m \in OrderType /\ m.k = "deploy" /\ m.by = u /\ m.back = <<>>
    <2>1. BackRuns(d, k) \in Seq(StepIds)
      BY <1>1, <1>3, BackRunsFacts, StoreAssumption
    <2> QED  BY <1>1, <2>1 DEF OrderType, Lists
  <1>5. r \in DepReqType /\ r.conn = link /\ (~cut => r.st = "sent")
    BY <1>1 DEF DepReqType, Types, LinkTypes
  <1>6. made \in [RunIds -> RunResults]
    BY RowStatements DEF Types, StoreTypes
  <1>7. /\ count'.try = [count.try EXCEPT ![d] = k] /\ count'.single = count.single
        /\ count' = [reset |-> count'.reset, boot |-> count'.boot, cancel |-> count'.cancel, try |-> count'.try,
              single |-> count'.single]
    <2> HIDE DEF k
    <2> QED  BY <1>2 DEF Types, StoreTypes
  <1>8. d \in 0 .. MaxDep /\ "running" \in DepResults
    BY <1>1 DEF DepIds, DepResults
  <1> HIDE DEF d, k, made, m, r
  <1>9. StoreTypes'
    <2>1. deps' \in DepRows
      BY <1>2, <1>8, DepStatements DEF Types, StoreTypes, DepRows
    <2>2. k \in 0 .. MaxTry /\ count.try \in [DepIds -> 0 .. MaxTry]
      BY <1>3, StoreAssumption DEF Types, StoreTypes
    <2>3. count'.try \in [DepIds -> 0 .. MaxTry]
      BY <1>7, <2>2
    <2> QED  BY <1>2, <1>6, <1>7, <2>1, <2>3 DEF Types, StoreTypes, DepRows
  <1>10. LinkTypes'
    BY <1>2, <1>8 DEF Types, LinkTypes
  <1>11. req' \in [Users -> ReqType] /\ CallTypes'
    <2>1. CASE cut
      BY <1>2, <1>5, <2>1, ReqTyped DEF ReqType
    <2>2. CASE ~cut
      BY <1>1, <1>2, <1>4, <1>5, <2>2, ReqTyped DEF ReqType
    <2> QED  BY <2>1, <2>2
  <1>12. WayTypes'
    BY <1>2, <1>4, <1>11 DEF Types, WayTypes
  <1> QED  BY <1>2, <1>9, <1>10, <1>11, <1>12, SameTypes DEF Types

LEMMA RunTyped ==
  ASSUME Types, NEW u \in Users, SendRun(u)
  PROVE  Types'
  <1> USE DEF dbVars, superVars, netVars, agentVars, history
  <1> DEFINE i == req[u].id
  <1>1. req[u] \in RunReqType /\ i \in SingleIds /\ i \in RunIds /\ req[u].st = "looked"
    BY DEF SendRun, Types, WayTypes, ReqType, RunReqType, DepReqType, NoReq, SingleIds
  <1>2. UNCHANGED <<deps, listed, link, hello, told, up, cut, last, agentVars, history, count>>
    BY DEF SendRun
  <1>3. CASE /\ rows' = FinishStepRun(rows, i, "cancel") \/ rows' = Finished(i, "fail")
             /\ req' = [req EXCEPT ![u] = NoReq] /\ UNCHANGED <<mark, down>> /\ opened' \subseteq opened \cup {i}
    <2>1. StoreTypes'
      BY <1>1, <1>2, <1>3, RowStatements DEF Finished, Types, StoreTypes, Ended
    <2>2. req' \in [Users -> ReqType] /\ CallTypes'
      BY <1>1, <1>2, <1>3, CallGone, ReqTyped DEF ReqType
    <2>3. LinkTypes' /\ WayTypes'
      BY <1>2, <1>3, <2>2 DEF Types, LinkTypes, WayTypes
    <2> QED  BY <1>2, <2>1, <2>2, <2>3, SameTypes DEF Types
  <1>4. CASE /\ Callable(u) /\ mark' = [mark EXCEPT !.run = i] /\ req' = [req EXCEPT ![u] = [req[u] EXCEPT !.st = "sent"]]
             /\ down' = down \cup {[k |-> "run", by |-> u, run |-> i]} /\ UNCHANGED rows /\ opened' = opened \cup {i}
    <2> DEFINE m == [k |-> "run", by |-> u, run |-> i]
    <2> DEFINE r == [req[u] EXCEPT !.st = "sent"]
    <2>1. m \in CallType /\ m.k = "run" /\ m.by = u
      BY <1>1 DEF CallType
    <2>2. r \in RunReqType /\ r.st = "sent" /\ r.conn = link
      BY <1>1, <1>4 DEF RunReqType, Callable, Alive
    <2> HIDE DEF m, r
    <2>3. down' = down \cup {m} /\ req' = [req EXCEPT ![u] = r]
      BY <1>4 DEF m, r
    <2>4. req' \in [Users -> ReqType] /\ CallTypes'
      BY <1>1, <1>2, <2>1, <2>2, <2>3, ReqTyped DEF ReqType
    <2>5. StoreTypes' /\ LinkTypes'
      BY <1>1, <1>2, <1>4 DEF Types, StoreTypes, LinkTypes
    <2>6. WayTypes'
      BY <1>2, <2>1, <2>3, <2>4 DEF Types, WayTypes
    <2> QED  BY <1>2, <2>4, <2>5, <2>6, SameTypes DEF Types
  <1> QED  BY <1>3, <1>4 DEF SendRun, RunTaken, Done, Asked

LEMMA ReturnTyped ==
  ASSUME Types, NEW u \in Users, CallReturns(u)
  PROVE  Types'
  <1> USE DEF dbVars, superVars, netVars, agentVars, history
  <1>1. /\ req[u] # NoReq /\ (req[u].kind = "run" => req[u].id \in RunIds)
        /\ req[u].st # "sent" \/ ~Alive(u) \/ hello = "leaked"
    BY DEF CallReturns, CallFails, NoReq, Types, WayTypes, ReqType, RunReqType, DepReqType, SingleIds
  <1>2. UNCHANGED <<listed, link, hello, told, opened, netVars, agentVars, history, count>>
    BY DEF CallReturns
  <1>3. /\ deps' \in DepRows /\ rows' \in [RunIds -> RunResults]
        /\ mark' \in [run : RunIds \cup {NoRun}, dep : 0 .. MaxDep] /\ req' = [req EXCEPT ![u] = NoReq]
    <2>0. rows \in [RunIds -> RunResults]
      BY DEF Types, StoreTypes
    <2>1. CASE req[u].kind = "run"
      <3>1. rows' \in [RunIds -> RunResults]
        BY <1>1, <2>0, <2>1, RowStatements DEF CallReturns, Finished, Ended
      <3> QED  BY <2>1, <3>1 DEF CallReturns, RunUnmarked, Done, Types, StoreTypes, LinkTypes, DepRows
    <2>2. CASE req[u].kind # "run"
      BY <2>0, <2>2, AbortTyped DEF CallReturns
    <2> QED  BY <2>1, <2>2
  <1>4. req' \in [Users -> ReqType] /\ CallTypes'
    BY <1>1, <1>2, <1>3, CallGone, ReqTyped DEF ReqType
  <1>5. StoreTypes' /\ LinkTypes' /\ WayTypes'
    BY <1>2, <1>3, <1>4 DEF Types, StoreTypes, LinkTypes, WayTypes, DepRows
  <1> QED  BY <1>2, <1>4, <1>5, SameTypes DEF Types

LEMMA CancelTyped ==
  ASSUME Types, (\E d \in DepIds : CancelDeploy(d)) \/ \E r \in RunIds : CancelRun(r)
  PROVE  Types'
  <1> USE DEF dbVars, superVars, netVars, agentVars, history
  <1>1. PICK m \in CancelType : down' = down \cup {m}
    <2>1. ASSUME NEW d \in DepIds, CancelDeploy(d) PROVE \E m \in CancelType : down' = down \cup {m}
      <3>1. [k |-> "cancel", dep |-> d, run |-> mark.run] \in CancelType
        BY DEF CancelType, DepIds, Types, LinkTypes
      <3> QED  BY <2>1, <3>1 DEF CancelDeploy
    <2>2. ASSUME NEW r \in RunIds, CancelRun(r) PROVE \E m \in CancelType : down' = down \cup {m}
      <3>1. [k |-> "cancel", dep |-> 0, run |-> r] \in CancelType
        BY StoreAssumption DEF CancelType
      <3> QED  BY <2>2, <3>1 DEF CancelRun
    <2> QED  BY <2>1, <2>2
  <1>2. /\ UNCHANGED <<dbVars, superVars, req, up, cut, last, agentVars, history>>
        /\ count' = [count EXCEPT !.cancel = @ + 1]
    BY DEF CancelDeploy, CancelRun
  <1>3. StoreTypes'
    BY <1>2 DEF Types, StoreTypes
  <1>4. WayTypes' /\ CallTypes'
    BY <1>1, <1>2 DEF Types, WayTypes, CallTypes, CancelType
  <1> QED  BY <1>2, <1>3, <1>4, SameTypes DEF Types

LEMMA TypesStep == Types /\ [Next]_vars => Types'
  <1> SUFFICES ASSUME Types, [Next]_vars PROVE Types'
    OBVIOUS
  <1>1. CASE AgentNext
    BY <1>1, SessionTyped, StepTyped, EndTyped, FlushTyped, HandlerTyped DEF AgentNext
  <1>2. CASE SupervisorNext
    <2>1. ASSUME NEW u \in Users, AskRun(u) \/ LookRun(u) \/ SendRun(u) \/ TakeDeploy(u) \/ SendDeploy(u)
                   \/ RefuseRollback(u) \/ SendRollback(u) \/ CallReturns(u)
          PROVE Types'
      <3>1. CASE AskRun(u) \/ LookRun(u) \/ RefuseRollback(u)
        BY <3>1, AskTyped
      <3> QED  BY <2>1, <3>1, RunTyped, DeployTyped, RollbackTyped, ReturnTyped
    <2> QED  BY <1>2, <2>1, LinkTyped, HeardTyped, AskTyped, CancelTyped DEF SupervisorNext
  <1>3. CASE Cut
    BY <1>3, LinkTyped
  <1>4. CASE UNCHANGED vars
    BY <1>4, SameTypes DEF vars, dbVars, superVars, netVars, agentVars, history, Types
  <1> QED  BY <1>1, <1>2, <1>3, <1>4 DEF Next

-----------------------------------------------------------------------------
(* Steps that give nobody a run he did not have.                           *)
UsedStays == \A r \in RunIds : Unused(r)' => Unused(r)
OrdersShrink == \A m \in down' : m.k # "cancel" => m \in down
JobShrinks == \A r \in RunIds : InJob(r)' => InJob(r)
TaskShrinks == \A r \in RunIds : InTask(r)' => InTask(r)
ReqsShrink == \A r \in RunIds : \A u \in Users : InReq(u, r)' => InReq(u, r)
HeldShrinks == UsedStays /\ OrdersShrink /\ JobShrinks /\ TaskShrinks /\ ReqsShrink

\* A run is held that was held, or that nobody has had before.
HeldGrows == \A r \in RunIds : Held(r)' => Held(r) \/ Unused(r)
UnsentShrinks == \A d \in DepIds : Unsent(d)' => Unsent(d)
OnceGoes == Once' /\ HeldGrows /\ UnsentShrinks

LEMMA HeldShrunk ==
  ASSUME Once, HeldShrinks
  PROVE  HeldIsUsed' /\ HeldOnce' /\ (UNCHANGED did => HeldIsNew') /\ \A r \in RunIds : Held(r)' => Held(r)
  <1>1. \A r \in RunIds : \A m \in down' : InMsg(m, r)' => m \in down /\ InMsg(m, r)
    BY DEF HeldShrinks, OrdersShrink, InMsg
  <1>2. \A r \in RunIds : Held(r)' => Held(r)
    BY <1>1 DEF HeldShrinks, JobShrinks, TaskShrinks, ReqsShrink, Held
  <1>3. HeldIsUsed'
    BY <1>2 DEF HeldShrinks, UsedStays, HeldIsUsed, Once
  <1>4. HeldOnce'
    BY <1>1 DEF HeldShrinks, JobShrinks, TaskShrinks, ReqsShrink, HeldOnce, Once
  <1>5. UNCHANGED did => HeldIsNew'
    BY <1>2 DEF HeldShrinks, UsedStays, HeldIsNew, Once
  <1> QED  BY <1>2, <1>3, <1>4, <1>5

TaskGoes ==
  \/ task' = NoTask
  \/ /\ task # NoTask /\ task' # NoTask
     /\ task'.dep = task.dep /\ task'.list = task.list /\ task'.phase = task.phase
     /\ task'.res = task.res /\ task'.back = task.back /\ (task'.pc = "over" <=> task.pc = "over")
     /\ task'.todo = task.todo \/ (task.todo # <<>> /\ task'.todo = Tail(task.todo))

TaskLists ==
  task # NoTask => /\ ListFor(task.todo, task.dep, ListKind(task))
                   /\ ListFor(task.back, task.dep, "rollback")
ReachedTask ==
  TaskIsFirst =>
    /\ task.phase = "list" /\ task.pc # "over" => reached[task.dep].deploy = "none"
    /\ task.phase = "list" /\ task.pc = "over" /\ task.res = "ok" => reached[task.dep].deploy = "ok"

LEMMA TailFor ==
  ASSUME NEW s \in Seq(StepIds), s # <<>>, NEW d, NEW l, ListFor(s, d, l)
  PROVE  ListFor(Tail(s), d, l) /\ Head(s) \notin Range(Tail(s))
  <1>1. /\ DOMAIN Tail(s) = 1 .. Len(s) - 1 /\ DOMAIN s = 1 .. Len(s) /\ Head(s) = s[1] /\ Len(s) \in Nat /\ Len(s) > 0
        /\ \A i \in DOMAIN Tail(s) : Tail(s)[i] = s[i + 1]
    OBVIOUS
  <1> DEFINE t == Tail(s)
  <1> HIDE DEF t
  <1>2. \A i \in DOMAIN t : i + 1 \in DOMAIN s /\ t[i] = s[i + 1] /\ i + 1 # 1 /\ i \in Int
    BY <1>1 DEF t
  <1>3. \A i, j \in DOMAIN t : t[i] = t[j] => i = j
    BY <1>2 DEF ListFor
  <1>4. Head(s) \notin Range(t)
    BY <1>1, <1>2 DEF ListFor, Range
  <1>5. ListFor(t, d, l)
    BY <1>2, <1>3 DEF ListFor
  <1> QED  BY <1>4, <1>5 DEF t

LEMMA TaskWent ==
  ASSUME Types, Types', Once, TaskGoes
  PROVE  TaskShrinks /\ TaskLists' /\ (UNCHANGED reached => ReachedTask')
  <1>1. CASE task' = NoTask
    BY <1>1 DEF TaskShrinks, TaskLists, ReachedTask, InTask, TaskIsFirst
  <1>2. CASE task' # NoTask
    <2>1. /\ task # NoTask /\ task.todo \in Seq(StepIds)
          /\ task'.dep = task.dep /\ task'.list = task.list /\ task'.phase = task.phase
          /\ task'.res = task.res /\ task'.back = task.back /\ (task'.pc = "over" <=> task.pc = "over")
          /\ task'.todo = task.todo \/ (task.todo # <<>> /\ task'.todo = Tail(task.todo))
      BY <1>2 DEF TaskGoes, Types, AgentTypes, IsTask, TaskType
    <2>2. Range(task'.todo) \subseteq Range(task.todo)
      BY <2>1, RangeFacts
    <2>3. TaskShrinks
      BY <1>2, <2>1, <2>2 DEF TaskShrinks, InTask
    <2>4. ListKind(task') = ListKind(task)
      BY <2>1 DEF ListKind
    <2>5. TaskLists'
      BY <2>1, <2>4, TailFor DEF TaskLists, Once, ListsHeld, ListKind
    <2>6. UNCHANGED reached => ReachedTask'
      BY <2>1 DEF ReachedTask, Once, ReachedOnce, TaskIsFirst
    <2> QED  BY <2>3, <2>5, <2>6
  <1> QED  BY <1>1, <1>2

JobOfTask == task # NoTask /\ job # NoRun => task.pc = "run" /\ job = Head(task.todo)

LEMMA SameUnused ==
  ASSUME UNCHANGED <<deps, req>>, count'.try = count.try, count'.single = count.single
  PROVE  /\ \A r \in RunIds : Unused(r)' <=> Unused(r)
         /\ \A d \in DepIds : Unsent(d)' <=> Unsent(d)
  <1>1. \A d \in DepIds : Unsent(d)' <=> Unsent(d)
    BY DEF Unsent
  <1>2. \A r \in RunIds : Unused(r)' <=> Unused(r)
    BY <1>1, RunFacts DEF Unused, Attempt
  <1> QED  BY <1>1, <1>2

LEMMA OffStore ==
  ASSUME Types, Types', Once, UNCHANGED <<deps, rows, req, did, reached>>,
         count'.try = count.try, count'.single = count.single,
         TaskGoes, OrdersShrink, JobShrinks, JobOfTask'
  PROVE  OnceGoes
  <1>1. TaskShrinks /\ TaskLists' /\ ReachedTask'
    BY TaskWent
  <1>2. UsedStays /\ \A d \in DepIds : Unsent(d)' <=> Unsent(d)
    BY SameUnused DEF UsedStays
  <1>3. ReqsShrink
    BY DEF ReqsShrink, InReq
  <1>4. HeldIsUsed' /\ HeldOnce' /\ HeldIsNew' /\ \A r \in RunIds : Held(r)' => Held(r)
    BY <1>1, <1>2, <1>3, HeldShrunk DEF HeldShrinks
  <1>5. UnusedIsNew' /\ ReqIsOpen'
    BY <1>2 DEF UsedStays, UnusedIsNew, ReqIsOpen, InReq, Once
  <1>6. \A m \in down' : m.k = "deploy" => m \in down
    BY DEF OrdersShrink
  <1>7. ListsHeld'
    BY <1>1, <1>6 DEF ListsHeld, TaskLists, JobOfTask, ListFor, Once
  <1>8. ReqsApart'
    BY SameUnused DEF ReqsApart, Once, Types, WayTypes, ReqType, RunReqType, SingleIds, DepReqType
  <1>9. TaskIsFirst' => TaskIsFirst /\ task'.dep = task.dep
    BY DEF TaskIsFirst, TaskGoes
  <1>10. ReachedOnce'
    BY <1>1, <1>2, <1>6, <1>9 DEF ReachedOnce, ReachedTask, IsFirst, Once
  <1> QED  BY <1>2, <1>4, <1>5, <1>7, <1>8, <1>10 DEF Once, OnceGoes, HeldGrows, UnsentShrinks

LEMMA SameTask ==
  ASSUME Once, UNCHANGED <<task, job>>
  PROVE  TaskGoes /\ JobShrinks /\ JobOfTask'
  BY DEF TaskGoes, JobShrinks, InJob, JobOfTask, Once, ListsHeld

LEMMA SessionOnce ==
  ASSUME Types, Types', Once,
         \/ Dial \/ Connected \/ UpdaterNotices \/ UpdaterRestarts \/ Cut \/ ServeEnds
         \/ \E f \in Flushers : FlushStart(f) \/ FlushNext(f)
         \/ \E d \in DepIds : CancelDeploy(d)
         \/ \E r \in RunIds : CancelRun(r)
  PROVE  OnceGoes
  <1> USE DEF dbVars, superVars, netVars, agentVars, history
  <1>1. UNCHANGED <<deps, rows, req, did, reached>>
    BY DEF Dial, Connected, UpdaterNotices, UpdaterRestarts, Cut, ServeEnds, FlushStart, FlushNext, CancelDeploy, CancelRun
  <1>2. count'.try = count.try /\ count'.single = count.single
    BY DEF Types, StoreTypes, Dial, Connected, UpdaterNotices, UpdaterRestarts, Cut, ServeEnds, FlushStart, FlushNext,
           CancelDeploy, CancelRun
  <1>3. OrdersShrink
    BY DEF OrdersShrink, Dial, Connected, UpdaterNotices, UpdaterRestarts, Cut, ServeEnds, FlushStart, FlushNext,
           CancelDeploy, CancelRun
  <1>4. CASE UNCHANGED <<task, job>>
    BY <1>1, <1>2, <1>3, <1>4, SameTask, OffStore
  <1>5. CASE task' = NoTask /\ job' = NoRun
    <2>1. TaskGoes /\ JobShrinks /\ JobOfTask'
      BY <1>5, RunFacts DEF TaskGoes, JobShrinks, InJob, JobOfTask
    <2> QED  BY <1>1, <1>2, <1>3, <2>1, OffStore
  <1> QED  BY <1>4, <1>5 DEF Dial, Connected, UpdaterNotices, UpdaterRestarts, Cut, ServeEnds, FlushStart, FlushNext,
           CancelDeploy, CancelRun

LEMMA CancelOnce ==
  ASSUME Types, Types', Once, NEW m \in down, OnCancel(m)
  PROVE  OnceGoes
  <1> USE DEF dbVars, superVars, netVars, agentVars, history
  <1>1. UNCHANGED <<deps, rows, req, did, reached, count, job>> /\ down' \subseteq down
        /\ (task' = task \/ (task # NoTask /\ task' = [task EXCEPT !.stopped = TRUE]))
    BY DEF OnCancel
  <1>2. TaskGoes /\ JobOfTask'
    BY <1>1 DEF TaskGoes, JobOfTask, Once, ListsHeld, Types, AgentTypes, IsTask, TaskType, NoTask
  <1> QED  BY <1>1, <1>2, OffStore DEF OrdersShrink, JobShrinks, InJob

LEMMA OffStoreStep ==
  ASSUME Types, Types', Once, UNCHANGED <<deps, rows, req>>,
         count'.try = count.try, count'.single = count.single,
         OrdersShrink, JobShrinks, TaskShrinks, TaskLists', JobOfTask', ReachedTask',
         TaskIsFirst' => TaskIsFirst /\ task'.dep = task.dep,
         \A d \in DepIds : reached'[d].deploy # reached[d].deploy => TaskIsFirst /\ task.dep = d,
         \A r \in RunIds : did'[r] # did[r] => did[r] = "none" /\ Held(r) /\ ~Held(r)'
  PROVE  OnceGoes
  <1>2. UsedStays /\ \A d \in DepIds : Unsent(d)' <=> Unsent(d)
    BY SameUnused DEF UsedStays
  <1>3. ReqsShrink
    BY DEF ReqsShrink, InReq
  <1>4. HeldIsUsed' /\ HeldOnce' /\ \A r \in RunIds : Held(r)' => Held(r)
    BY <1>2, <1>3, HeldShrunk DEF HeldShrinks
  <1>5. HeldIsNew'
    BY <1>2, <1>4 DEF HeldIsNew, HeldIsUsed, UsedStays, Once
  <1>6. UnusedIsNew' /\ ReqIsOpen'
    BY <1>2 DEF UsedStays, UnusedIsNew, ReqIsOpen, InReq, Once
  <1>7. \A m \in down' : m.k = "deploy" => m \in down /\ m.dep \in DepIds
    BY DEF OrdersShrink, Types, WayTypes, OrderType, CallType, CancelType
  <1>8. ListsHeld'
    BY <1>7 DEF ListsHeld, TaskLists, JobOfTask, ListFor, Once
  <1>9. ReqsApart'
    BY SameUnused DEF ReqsApart, Once, Types, WayTypes, ReqType, RunReqType, SingleIds, DepReqType
  <1>10. ReachedOnce'
    <2>1. \A d \in DepIds : Unsent(d)' =>
            /\ reached'[d].deploy = "none"
            /\ \A m \in down' : IsFirst(m) => m.dep # d
            /\ TaskIsFirst' => task'.dep # d
      BY <1>2, <1>7 DEF ReachedOnce, IsFirst, Once
    <2>2. \A m \in down' : IsFirst(m) =>
            /\ reached'[m.dep].deploy = "none"
            /\ TaskIsFirst' => task'.dep # m.dep
            /\ \A n \in down' : IsFirst(n) /\ m.dep = n.dep => m = n
      BY <1>7 DEF ReachedOnce, IsFirst, Once
    <2> QED  BY <2>1, <2>2 DEF ReachedOnce, ReachedTask, IsFirst
  <1> QED  BY <1>2, <1>4, <1>5, <1>6, <1>8, <1>9, <1>10 DEF Once, OnceGoes, HeldGrows, UnsentShrinks

\* The end of a list, or the start of the rollback that follows it.
LEMMA ListOver ==
  ASSUME Types, Types', Once, NEW res \in Ended, task # NoTask, task.pc # "over", ListEnds(res)
  PROVE  /\ TaskShrinks /\ TaskLists' /\ ReachedTask' /\ (TaskIsFirst' => TaskIsFirst /\ task'.dep = task.dep)
         /\ \A d \in DepIds : reached'[d].deploy # reached[d].deploy => TaskIsFirst /\ task.dep = d
         /\ \A r \in RunIds : r \in Range(task.todo) => ~InTask(r)'
         /\ task' # NoTask /\ task'.pc # "run"
  <1>1. /\ task \in TaskType /\ IsTask(task) /\ IsTask(task') /\ task.dep \in DepIds /\ task.phase \in {"list", "back"}
        /\ task.list \in Lists /\ (task.list = "rollback" => task.back = <<>>)
        /\ (task.phase = "back" => task.list = "deploy") /\ task.todo \in Seq(StepIds) /\ task.back \in Seq(StepIds)
    BY TaskOver DEF Types, AgentTypes, IsTask, TaskType, ListEnds, OffStep
  <1>2. /\ task' = Over(task, res)
        /\ reached' = [reached EXCEPT ![task.dep][ListKind(task)] = res]
        /\ reached \in [DepIds -> [deploy : Maybe, rollback : Maybe]]
    BY DEF ListEnds, Types, AgentTypes
  <1>3. task' # NoTask
    BY <1>1 DEF IsTask, TaskType, NoTask
  <1>4. /\ TaskIsFirst <=> task.list = "deploy"
        /\ ListFor(task.todo, task.dep, ListKind(task)) /\ ListFor(task.back, task.dep, "rollback")
    BY DEF TaskIsFirst, Once, ListsHeld
  <1>5. \A d \in DepIds : reached'[d].deploy # reached[d].deploy => TaskIsFirst /\ task.dep = d
    <2>1. ListKind(task) = "deploy" => task.list = "deploy"
      BY DEF ListKind
    <2>2. ListKind(task) \in {"deploy", "rollback"}
      BY DEF ListKind
    <2> QED  BY <1>1, <1>2, <1>4, <2>1, <2>2
  <1>6. CASE RollsBack(task, res)
    <2>1. task' = [task EXCEPT !.phase = "back", !.todo = task.back, !.res = res, !.pc = "check"]
      BY <1>2, <1>6 DEF Over, RollsBack
    <2>2. /\ task'.phase = "back" /\ task'.todo = task.back /\ task'.back = task.back /\ task'.dep = task.dep
          /\ task'.list = task.list /\ task'.pc = "check"
      BY <1>1, <2>1 DEF TaskType
    <2>3. task.phase = "list" /\ task.list = "deploy"
      BY <1>1, <1>6 DEF RollsBack, Lists
    <2>4. TaskShrinks
      BY <1>3, <2>2, <2>3 DEF TaskShrinks, InTask
    <2>5. ListKind(task) = "deploy" /\ ListKind(task)' = "rollback"
      BY <2>2, <2>3 DEF ListKind
    <2>6. TaskLists'
      BY <1>4, <2>2, <2>5 DEF TaskLists, ListFor
    <2>7. ReachedTask' /\ (TaskIsFirst' => TaskIsFirst /\ task'.dep = task.dep)
      BY <1>3, <1>4, <2>2 DEF ReachedTask, TaskIsFirst
    <2>8. \A r \in RunIds : r \in Range(task.todo) => ~InTask(r)'
      BY <1>4, <2>2, <2>5 DEF InTask, ListFor, Range
    <2> QED  BY <1>3, <1>5, <2>2, <2>4, <2>6, <2>7, <2>8
  <1>7. CASE ~RollsBack(task, res)
    <2>1. \/ task.phase = "back" /\ task' = [task EXCEPT !.rb = res, !.pc = "over"]
          \/ task.phase = "list" /\ task' = [task EXCEPT !.res = res, !.pc = "over"]
      BY <1>1, <1>2, <1>7 DEF Over
    <2>2. /\ task'.phase = task.phase /\ task'.todo = task.todo /\ task'.back = task.back /\ task'.dep = task.dep
          /\ task'.list = task.list /\ task'.pc = "over" /\ (task.phase = "list" => task'.res = res)
      BY <1>1, <2>1 DEF TaskType
    <2>3. \A r \in RunIds : ~InTask(r)'
      BY <2>2 DEF InTask
    <2>4. TaskLists'
      BY <1>4, <2>2 DEF TaskLists, ListFor, ListKind
    <2>5. ReachedTask' /\ (TaskIsFirst' => TaskIsFirst /\ task'.dep = task.dep)
      BY <1>1, <1>2, <1>3, <1>4, <2>2 DEF ReachedTask, TaskIsFirst, ListKind
    <2> QED  BY <1>3, <1>5, <2>2, <2>3, <2>4, <2>5 DEF TaskShrinks
  <1> QED  BY <1>6, <1>7

\* The run of a step that has ended is nobody's any more.
LEMMA RunGone ==
  ASSUME Types, Once, NEW r \in RunIds, OrdersShrink, JobShrinks, UNCHANGED req,
         \/ InTask(r) /\ ~InTask(r)' /\ DepOf(r) # 0
         \/ InJob(r) /\ ~InJob(r)' /\ task' = NoTask
  PROVE  did[r] = "none" /\ Held(r) /\ ~Held(r)'
  <1>1. Held(r) /\ did[r] = "none"
    BY DEF Held, HeldIsNew, Once
  <1>2. ~\E m \in down' : InMsg(m, r)
    BY DEF OrdersShrink, InMsg, HeldOnce, Once
  <1>3. ~\E u \in Users : InReq(u, r)'
    BY DEF InReq, HeldOnce, Once, Types, WayTypes, ReqType, RunReqType, DepReqType, SingleIds
  <1>4. ~InJob(r)' /\ ~InTask(r)'
    BY DEF JobShrinks, InJob, InTask, NoTask
  <1> QED  BY <1>1, <1>2, <1>3, <1>4 DEF Held

LEMMA StepOnce ==
  ASSUME Types, Types', Once, StepCheck \/ StepBegin \/ StepFails \/ FinishDeploy
  PROVE  OnceGoes
  <1> USE DEF dbVars, superVars, netVars, agentVars, history
  <1>1. /\ UNCHANGED <<deps, rows, req, down, count>> /\ OrdersShrink
        /\ task # NoTask /\ IsTask(task) /\ task.todo \in Seq(StepIds)
        /\ ListFor(task.todo, task.dep, ListKind(task)) /\ task.dep \in DepIds
        /\ task.pc # "run" => job = NoRun
    BY DEF StepCheck, StepBegin, StepFails, FinishDeploy, NoTask, OrdersShrink, Once, ListsHeld, Types, AgentTypes,
           IsTask, TaskType
  <1>2. CASE StepCheck \/ (StepFails /\ ~UNCHANGED did)
    <2>1. CASE \E res \in Ended : ListEnds(res)
      <3>1. PICK res \in Ended : ListEnds(res)
        BY <2>1
      <3>2. task.pc \in {"check", "begin"} /\ job = NoRun /\ UNCHANGED job
        BY <1>1, <1>2 DEF StepCheck, StepFails
      <3>3. /\ TaskShrinks /\ TaskLists' /\ ReachedTask' /\ (TaskIsFirst' => TaskIsFirst /\ task'.dep = task.dep)
            /\ \A d \in DepIds : reached'[d].deploy # reached[d].deploy => TaskIsFirst /\ task.dep = d
            /\ \A r \in RunIds : r \in Range(task.todo) => ~InTask(r)'
        BY <1>1, <3>1, <3>2, ListOver
      <3>4. JobShrinks /\ JobOfTask'
        BY <3>2 DEF JobShrinks, InJob, JobOfTask
      <3>5. \A r \in RunIds : did'[r] # did[r] => did[r] = "none" /\ Held(r) /\ ~Held(r)'
        <4> SUFFICES ASSUME NEW r \in RunIds, did'[r] # did[r] PROVE did[r] = "none" /\ Held(r) /\ ~Held(r)'
          OBVIOUS
        <4>1. StepFails /\ r = Head(task.todo)
          BY <1>2 DEF StepCheck, StepFails, Ends, Types, AgentTypes
        <4>2. task.pc = "begin" /\ task.todo # <<>>
          BY <1>1, <4>1 DEF StepFails, IsTask
        <4>3. r \in Range(task.todo) /\ DepOf(r) # 0
          BY <1>1, <4>1, <4>2, RangeFacts DEF StepIds
        <4>4. InTask(r)
          BY <1>1, <4>2, <4>3 DEF InTask
        <4> QED  BY <1>1, <3>3, <3>4, <4>3, <4>4, RunGone
      <3> QED  BY <1>1, <3>3, <3>4, <3>5, OffStoreStep
    <2>2. CASE UNCHANGED <<did, reached, job>> /\ task' = [task EXCEPT !.pc = "begin"] /\ task.pc = "check"
      <3>1. TaskGoes
        BY <1>1, <2>2 DEF TaskGoes, IsTask, TaskType, NoTask
      <3>2. JobShrinks /\ JobOfTask'
        BY <1>1, <2>2 DEF JobShrinks, InJob, JobOfTask
      <3> QED  BY <1>1, <2>2, <3>1, <3>2, OffStore
    <2> QED  BY <1>2, <2>1, <2>2 DEF StepCheck, StepFails, Ended
  <1>3. CASE StepFails /\ UNCHANGED did
    <2>1. Head(task.todo) \in RunIds /\ did'[Head(task.todo)] = "fail" /\ InTask(Head(task.todo))
      BY <1>1, <1>3, RangeFacts DEF StepFails, Ends, IsTask, Types, AgentTypes, StepIds, InTask
    <2> QED  BY <1>3, <2>1 DEF Once, HeldIsNew, Held
  <1>4. CASE StepBegin
    <2>1. /\ UNCHANGED <<did, reached>> /\ task.pc = "begin" /\ job' = Head(task.todo)
          /\ task' = [task EXCEPT !.pc = "run"]
      BY <1>4 DEF StepBegin
    <2>2. Head(task.todo) \in StepIds
      BY <1>1, <2>1, RangeFacts DEF IsTask
    <2>3. TaskGoes /\ task'.todo = task.todo /\ task'.pc = "run"
      BY <1>1, <2>1 DEF TaskGoes, IsTask, TaskType, NoTask
    <2>4. JobShrinks /\ JobOfTask'
      BY <2>1, <2>2, <2>3 DEF JobShrinks, InJob, JobOfTask, StepIds
    <2> QED  BY <1>1, <2>1, <2>3, <2>4, OffStore
  <1>5. CASE FinishDeploy
    <2>1. UNCHANGED <<did, reached, job>> /\ task' = NoTask
      BY <1>5 DEF FinishDeploy
    <2>2. TaskGoes /\ JobShrinks /\ JobOfTask'
      BY <2>1 DEF TaskGoes, JobShrinks, InJob, JobOfTask
    <2> QED  BY <1>1, <2>1, <2>2, OffStore
  <1> QED  BY <1>2, <1>3, <1>4, <1>5

LEMMA JobOnce ==
  ASSUME Types, Types', Once, NEW res \in Ended, JobEnds(res)
  PROVE  OnceGoes
  <1> USE DEF dbVars, superVars, netVars, agentVars, history
  <1>1. /\ UNCHANGED <<deps, rows, req, down, count>> /\ OrdersShrink /\ job \in RunIds /\ job' = NoRun
        /\ did' = [did EXCEPT ![job] = res] /\ JobShrinks /\ JobOfTask' /\ did \in [RunIds -> Maybe]
    BY RunFacts DEF JobEnds, Ends, OrdersShrink, JobShrinks, InJob, JobOfTask, Types, AgentTypes
  <1>r. PICK r \in RunIds : r = job /\ did' = [did EXCEPT ![r] = res]
    BY <1>1
  <1>2. CASE DepOf(job) = 0
    <2>1. UNCHANGED <<task, reached>>
      BY <1>2 DEF JobEnds
    <2>2. task = NoTask
      <3>1. SUFFICES ASSUME task # NoTask PROVE FALSE
        OBVIOUS
      <3>2. task.pc = "run" /\ job # NoRun
        BY <1>1, <3>1, RunFacts DEF Once, ListsHeld
      <3> QED  BY <1>2, <3>2 DEF Types, AgentTypes, StepIds, NoRun
    <2>3. InJob(r) /\ ~InJob(r)'
      BY <1>1, <1>r, <1>2, RunFacts DEF InJob
    <2>4. \A s \in RunIds : did'[s] # did[s] => did[s] = "none" /\ Held(s) /\ ~Held(s)'
      <3>1. did[r] = "none" /\ Held(r) /\ ~Held(r)'
        BY <1>1, <1>r, <2>1, <2>2, <2>3, RunGone
      <3> QED  BY <1>1, <1>r, <3>1
    <2>5. TaskShrinks /\ TaskLists' /\ ReachedTask' /\ ~TaskIsFirst'
      BY <2>1, <2>2 DEF TaskShrinks, InTask, TaskLists, ReachedTask, TaskIsFirst
    <2> QED  BY <1>1, <2>1, <2>4, <2>5, OffStoreStep
  <1>3. CASE DepOf(job) # 0
    <2>1. task.pc = "run" /\ task # NoTask
      BY <1>1, <1>3 DEF Types, AgentTypes, StepIds, NoTask
    <2>2. /\ IsTask(task) /\ job = Head(task.todo) /\ task.todo # <<>> /\ task.todo \in Seq(StepIds)
          /\ ListFor(task.todo, task.dep, ListKind(task)) /\ ListFor(task.back, task.dep, "rollback")
          /\ task.back \in Seq(StepIds) /\ (task.list = "rollback" => task.back = <<>>)
      BY <1>1, <2>1, RunFacts DEF Types, AgentTypes, Once, ListsHeld, IsTask, TaskType
    <2>3. r \in Range(task.todo) /\ InTask(r) /\ r \notin Range(Tail(task.todo))
      BY <1>r, <2>1, <2>2, RangeFacts, TailFor DEF InTask
    <2>4. CASE ~InTask(r)' /\ TaskShrinks /\ TaskLists' /\ ReachedTask' /\ (TaskIsFirst' => TaskIsFirst /\ task'.dep = task.dep)
               /\ \A d \in DepIds : reached'[d].deploy # reached[d].deploy => TaskIsFirst /\ task.dep = d
      <3>1. did[r] = "none" /\ Held(r) /\ ~Held(r)'
        BY <1>1, <1>r, <1>3, <2>3, <2>4, RunGone
      <3>2. \A s \in RunIds : did'[s] # did[s] => did[s] = "none" /\ Held(s) /\ ~Held(s)'
        BY <1>1, <1>r, <3>1
      <3> QED  BY <1>1, <2>4, <3>2, OffStoreStep
    <2>5. CASE res = "ok"
      <3>1. task' = [task EXCEPT !.todo = Tail(@), !.pc = "check"] /\ UNCHANGED reached
        BY <1>3, <2>5 DEF JobEnds
      <3>2. /\ task' # NoTask /\ task'.todo = Tail(task.todo) /\ task'.back = task.back /\ task'.phase = task.phase
            /\ task'.pc = "check" /\ task'.list = task.list /\ task'.dep = task.dep /\ task'.res = task.res
        BY <2>2, <3>1 DEF IsTask, TaskType, NoTask
      <3>3. TaskGoes
        BY <2>1, <2>2, <3>2 DEF TaskGoes
      <3>4. r \notin Range(task.back) \/ task.phase # "list"
        BY <2>2, <2>3 DEF ListFor, ListKind, Range, IsTask, TaskType, Lists
      <3>5. ~InTask(r)'
        BY <2>3, <3>2, <3>4 DEF InTask
      <3>6. TaskShrinks /\ TaskLists' /\ ReachedTask' /\ (TaskIsFirst' => TaskIsFirst /\ task'.dep = task.dep)
        BY <2>1, <3>1, <3>2, <3>3, TaskWent DEF TaskIsFirst
      <3> QED  BY <2>4, <3>1, <3>5, <3>6
    <2>6. CASE res # "ok"
      <3>1. ListEnds(res)
        BY <1>3, <2>6 DEF JobEnds
      <3> QED  BY <1>r, <2>1, <2>3, <2>4, <3>1, ListOver
    <2> QED  BY <2>5, <2>6
  <1> QED  BY <1>2, <1>3

-----------------------------------------------------------------------------
(* What the supervisor's statements do to the records.                     *)
RowsClose(t, t2) ==
  \A r \in RunIds :
    \/ t2[r] = t[r]
    \/ t[r] = "wait" /\ t2[r] \in {"none", "skip", "running", "cancel"}
    \/ t[r] = "running" /\ t2[r] = "cancel"
DepsClose(t, t2) ==
  \A d \in DepIds : t2[d].res = t[d].res \/ (t[d].res = "running" /\ t2[d].res \in {"fail", "cancel"})

LEMMA RowsClosed ==
  ASSUME NEW t, t \in [RunIds -> RunResults]
  PROVE  /\ \A r : RowsClose(t, StartStepRun(t, r))
         /\ \A d, list : RowsClose(t, SkipWaitRuns(t, d, list)) /\ RowsClose(t, DeleteWaitRuns(t, d, list))
         /\ \A ds : RowsClose(t, SkipWaitRunsOf(t, ds))
         /\ \A keep : RowsClose(t, CancelLostStepRuns(t, keep))
         /\ \A t1, t2 : RowsClose(t, t1) /\ RowsClose(t1, t2) => RowsClose(t, t2)
  <1>1. /\ \A r : RowsClose(t, StartStepRun(t, r))
        /\ \A ds : RowsClose(t, SkipWaitRunsOf(t, ds))
        /\ \A keep : RowsClose(t, CancelLostStepRuns(t, keep))
    BY DEF RowsClose, StartStepRun, SkipWaitRunsOf, CancelLostStepRuns
  <1>2. \A d, list : RowsClose(t, SkipWaitRuns(t, d, list)) /\ RowsClose(t, DeleteWaitRuns(t, d, list))
    BY DEF RowsClose, SkipWaitRuns, DeleteWaitRuns, WaitingOf
  <1>3. \A t1, t2 : RowsClose(t, t1) /\ RowsClose(t1, t2) => RowsClose(t, t2)
    <2> SUFFICES ASSUME NEW t1, NEW t2, RowsClose(t, t1), RowsClose(t1, t2) PROVE RowsClose(t, t2)
      OBVIOUS
    <2> QED  BY DEF RowsClose
  <1> QED  BY <1>1, <1>2, <1>3

LEMMA DepsClosed ==
  ASSUME NEW t, t \in DepRows
  PROVE  /\ \A d : \A res \in {"fail", "cancel"} : DepsClose(t, FinishDeployment(t, d, res))
         /\ \A d, res : DepsClose(t, SetRollbackResult(t, d, res))
         /\ \A keep : DepsClose(t, CancelLostDeployments(t, keep))
         /\ \A t1, t2 : DepsClose(t, t1) /\ DepsClose(t1, t2) => DepsClose(t, t2)
  BY DEF DepsClose, FinishDeployment, SetRollbackResult, CancelLostDeployments, Cancelled, DepRows

LEMMA OnStore ==
  ASSUME Types, Types', Once, UNCHANGED <<req, down, task, job, did, reached, count>>,
         \A d \in DepIds : deps'[d].res = "none" <=> deps[d].res = "none",
         \A r \in RunIds : rows[r] = "none" => rows'[r] = "none",
         \A r \in RunIds : did[r] = "none" /\ rows[r] \in {"running", "cancel"} => rows'[r] \in {"running", "cancel"}
  PROVE  OnceGoes
  <1>1. \A d \in DepIds : Unsent(d)' <=> Unsent(d)
    BY DEF Unsent
  <1>2. \A r \in RunIds : Unused(r)' <=> Unused(r)
    BY <1>1, RunFacts DEF Unused, Attempt
  <1>3. /\ \A m, r : InMsg(m, r)' = InMsg(m', r')
        /\ \A r \in RunIds : InTask(r)' <=> InTask(r)
        /\ \A r \in RunIds : InJob(r)' <=> InJob(r)
        /\ \A r \in RunIds : \A u \in Users : InReq(u, r)' <=> InReq(u, r)
    BY DEF InMsg, InTask, InJob, InReq
  <1>4. HeldShrinks
    BY <1>2, <1>3 DEF HeldShrinks, UsedStays, OrdersShrink, JobShrinks, TaskShrinks, ReqsShrink
  <1>5. HeldIsUsed' /\ HeldOnce' /\ HeldIsNew' /\ \A r \in RunIds : Held(r)' => Held(r)
    BY <1>4, HeldShrunk
  <1>6. UnusedIsNew'
    BY <1>2 DEF UnusedIsNew, Once
  <1>7. ReqIsOpen'
    BY <1>3 DEF ReqIsOpen, Once, HeldIsNew, Held
  <1>8. ListsHeld'
    BY DEF ListsHeld, ListFor, ListKind, Once
  <1>9. ReqsApart'
    BY <1>2 DEF ReqsApart, Once, Types, WayTypes, ReqType, RunReqType, SingleIds, DepReqType
  <1>10. ReachedOnce'
    BY <1>1 DEF ReachedOnce, IsFirst, TaskIsFirst, Once
  <1> QED  BY <1>1, <1>5, <1>6, <1>7, <1>8, <1>9, <1>10 DEF Once, OnceGoes, HeldGrows, UnsentShrinks

\* What is heard of a run or a deployment is recorded only while it is open.
RowsHeard ==
  \A r \in RunIds :
    \/ rows'[r] = rows[r]
    \/ rows[r] = "wait" /\ rows'[r] \in {"none", "skip", "running", "cancel"}
    \/ rows[r] = "running" /\ rows'[r] = "cancel"
    \/ rows[r] \in {"wait", "running"} /\ did[r] \in Ended /\ rows'[r] = did[r]
DepsHeard ==
  \A d \in DepIds :
    \/ deps'[d].res = deps[d].res
    \/ /\ deps[d].res = "running" /\ deps'[d].res \in Ended
       /\ deps'[d].res = "ok" => reached[d].deploy = "ok"

LEMMA HelloHeard ==
  ASSUME Types, Hello
  PROVE  RowsHeard /\ DepsHeard
  <1> DEFINE kept == CancelLostStepRuns(rows, Range(told.runs))
  <1> DEFINE mine == {r \in Range(told.runs) : Adopted(r)}
  <1> DEFINE on == [r \in RunIds |-> IF r \in mine \ opened THEN StartStepRun(kept, r)[r] ELSE kept[r]]
  <1>1. rows' = SkipWaitRunsOf(on, Lost(told.deps)) /\ deps' = CancelLostDeployments(deps, Range(told.deps))
    BY DEF Hello
  <1>2. rows \in [RunIds -> RunResults] /\ deps \in DepRows
    BY DEF Types, StoreTypes, DepRows
  <1>3. kept \in [RunIds -> RunResults] /\ RowsClose(rows, kept)
    BY <1>2, RowStatements, RowsClosed
  <1> HIDE DEF kept, mine
  <1>4. \A r \in RunIds : on[r] = kept[r] \/ (kept[r] = "wait" /\ on[r] = "running")
    BY <1>3 DEF StartStepRun
  <1>5. on \in [RunIds -> RunResults] /\ RowsClose(kept, on)
    BY <1>3, <1>4 DEF RowsClose, RunResults
  <1> HIDE DEF on
  <1>6. RowsClose(rows, rows')
    BY <1>1, <1>2, <1>3, <1>5, RowsClosed
  <1>7. DepsClose(deps, deps')
    BY <1>1, <1>2, DepsClosed
  <1> QED  BY <1>6, <1>7 DEF RowsClose, DepsClose, RowsHeard, DepsHeard, Ended

LEMMA StartHeard ==
  ASSUME Types, OnStepStart
  PROVE  RowsHeard /\ DepsHeard
  <1>1. rows \in [RunIds -> RunResults] /\ deps \in DepRows
    BY DEF Types, StoreTypes, DepRows
  <1>2. RowsClose(rows, rows')
    BY <1>1, RowsClosed DEF OnStepStart, RowsClose
  <1>3. DepsClose(deps, deps')
    BY <1>1, DepsClosed DEF OnStepStart, DepsClose
  <1> QED  BY <1>2, <1>3 DEF RowsClose, DepsClose, RowsHeard, DepsHeard, Ended

LEMMA EndHeard ==
  ASSUME Types, Real, OnEnd \/ OnDeployEnd
  PROVE  RowsHeard /\ DepsHeard
  <1>1. rows \in [RunIds -> RunResults] /\ deps \in DepRows /\ did \in [RunIds -> Maybe]
    BY DEF Types, StoreTypes, DepRows, AgentTypes
  <1>2. PICK m \in UpType : m = Head(up) /\ m \in Range(up)
    BY RangeFacts DEF OnEnd, OnDeployEnd, Received, Types, WayTypes
  <1>3. CASE OnEnd
    <2>1. m.k = "ends" /\ rows' = Finished(m.e.run, m.e.res) /\ UNCHANGED deps
      BY <1>2, <1>3 DEF OnEnd, Received
    <2>2. m.e \in EndType /\ did[m.e.run] = m.e.res
      BY <1>2, <2>1 DEF Real, WayIsTrue, MsgIsTrue, EndIsTrue, UpType
    <2> QED  BY <1>1, <2>1, <2>2 DEF RowsHeard, DepsHeard, Finished, Unfinished, FinishStepRun, EndType
  <1>4. CASE OnDeployEnd
    <2>0. m.k = "deps"
      BY <1>2, <1>4 DEF OnDeployEnd, Received
    <2> DEFINE e == m.e
    <2> DEFINE left == SkipWaitRuns(rows, e.dep, "deploy")
    <2>1. e \in DepEndType /\ DepEndIsTrue(e)
      BY <1>2, <2>0 DEF Real, WayIsTrue, MsgIsTrue, UpType
    <2>2. /\ \/ rows' = SkipWaitRuns(rows, e.dep, "rollback")
             \/ rows' = SkipWaitRuns(left, e.dep, "rollback")
             \/ rows' = DeleteWaitRuns(left, e.dep, "rollback")
          /\ \/ e.list = "rollback" /\ deps' = SetRollbackResult(deps, e.dep, e.res)
             \/ /\ e.list # "rollback"
                /\ \/ deps' = SetRollbackResult(FinishDeployment(deps, e.dep, e.res), e.dep, e.rb)
                   \/ deps' = FinishDeployment(deps, e.dep, e.res)
      BY <1>2, <1>4 DEF OnDeployEnd, Skipped
    <2>3. left \in [RunIds -> RunResults] /\ RowsClose(rows, left)
      BY <1>1, RowStatements, RowsClosed
    <2> HIDE DEF left
    <2>4. RowsClose(rows, rows')
      BY <1>1, <2>2, <2>3, RowsClosed
    <2> HIDE DEF e
    <2>5. CASE e.list = "rollback"
      <3>1. DepsClose(deps, deps')
        BY <1>1, <2>2, <2>5, DepsClosed
      <3> QED  BY <2>4, <3>1 DEF RowsClose, DepsClose, RowsHeard, DepsHeard, Ended
    <2>6. CASE e.list # "rollback"
      <3> DEFINE done == FinishDeployment(deps, e.dep, e.res)
      <3>1. done \in DepRows
        BY <1>1, <2>1, DepStatements DEF DepEndType
      <3>2. \A d \in DepIds : deps'[d].res = done[d].res
        BY <2>2, <2>6, <3>1 DEF SetRollbackResult, DepRows
      <3>3. e.list = "deploy" /\ e.res \in Ended /\ (e.res = "ok" => reached[e.dep].deploy = "ok")
        BY <2>1, <2>6 DEF DepEndType, Lists, DepEndIsTrue
      <3>4. \A d \in DepIds : done[d].res = deps[d].res \/ (d = e.dep /\ deps[d].res = "running" /\ done[d].res = e.res)
        BY <1>1 DEF FinishDeployment, DepRows
      <3> HIDE DEF done
      <3>5. DepsHeard
        BY <3>2, <3>3, <3>4 DEF DepsHeard
      <3> QED  BY <2>4, <3>5 DEF RowsClose, RowsHeard
    <2> QED  BY <2>5, <2>6
  <1> QED  BY <1>3, <1>4

LEMMA HeardOnce ==
  ASSUME Types, Types', Once, Real, Hello \/ OnStepStart \/ OnEnd \/ OnDeployEnd
  PROVE  OnceGoes /\ RowsHeard /\ DepsHeard
  <1>1. RowsHeard /\ DepsHeard
    BY HelloHeard, StartHeard, EndHeard
  <1>2. UNCHANGED <<req, down, task, job, did, reached, count>>
    BY DEF Hello, OnStepStart, OnEnd, OnDeployEnd, netVars, agentVars, history
  <1>3. \A d \in DepIds : deps'[d].res = "none" <=> deps[d].res = "none"
    BY <1>1 DEF DepsHeard, Ended
  <1>4. \A r \in RunIds : rows[r] = "none" => rows'[r] = "none"
    BY <1>1 DEF RowsHeard
  <1>5. \A r \in RunIds : did[r] = "none" /\ rows[r] \in {"running", "cancel"} => rows'[r] \in {"running", "cancel"}
    BY <1>1 DEF RowsHeard, Ended
  <1> QED  BY <1>1, <1>2, <1>3, <1>4, <1>5, OnStore

-----------------------------------------------------------------------------
(* Requests.                                                               *)
ReqsGo ==
  \A u \in Users :
    \/ req'[u] = req[u]
    \/ req'[u] = NoReq
    \/ /\ req[u] # NoReq /\ req'[u].kind = req[u].kind /\ req'[u].id = req[u].id
       /\ \/ req'[u].st \in {"sent", "refused"}
          \/ req[u].st = "made" /\ req'[u].st = "looked"
          \/ req[u].st = "asked" /\ req'[u].st = "marked"

LEMMA ReqsWent ==
  ASSUME Types, Types', Once, ReqsGo, count'.try = count.try, count'.single = count.single,
         \A d \in DepIds : deps'[d].res = "none" => deps[d].res = "none",
         \A u \in Users : req[u] # NoReq /\ req[u].kind = "deploy" /\ req[u].st = "asked"
                            => \/ req'[u] = NoReq
                               \/ req'[u].st = "asked" /\ deps'[req[u].id].res = deps[req[u].id].res
                               \/ req'[u].st = "marked" /\ deps'[req[u].id].res # "none"
  PROVE  ReqsShrink /\ UsedStays /\ ReqsApart' /\ \A d \in DepIds : Unsent(d)' => Unsent(d)
  <1>1. /\ req \in [Users -> ReqType] /\ req' \in [Users -> ReqType]
        /\ \A u \in Users : req[u] # NoReq => req[u].kind \in {"run", "deploy", "rollback"}
        /\ \A u \in Users : req[u] # NoReq /\ req[u].kind = "run" =>
             req[u].id \in SingleIds /\ req[u].st \in {"made", "looked", "sent", "refused"}
        /\ \A u \in Users : req[u] # NoReq /\ req[u].kind = "deploy" =>
             req[u].id \in DepIds /\ req[u].st \in {"asked", "marked", "sent", "refused"}
        /\ \A u \in Users : req[u] # NoReq /\ req[u].kind = "rollback" =>
             req[u].id \in DepIds /\ req[u].st \in {"asked", "sent", "refused"}
    BY DEF Types, WayTypes, ReqType, RunReqType, DepReqType
  <1>2. ReqsShrink
    BY <1>1 DEF ReqsShrink, InReq, ReqsGo
  <1>3. \A d \in DepIds : Unsent(d)' => Unsent(d)
    BY <1>1 DEF Unsent, ReqsGo
  <1>4. UsedStays
    BY <1>3, RunFacts DEF UsedStays, Unused, Attempt
  <1>5. ReqsApart'
    <2>0. \A u \in Users : req'[u] # NoReq =>
            /\ req[u] # NoReq /\ req'[u].kind = req[u].kind /\ req'[u].id = req[u].id
            /\ req'[u].kind = "deploy" /\ req'[u].st = "asked" => req'[u] = req[u]
      BY <1>1 DEF ReqsGo
    <2>4. \A u \in Users : req'[u] # NoReq /\ req'[u].kind = "deploy"
            => req'[u].st = "asked" \/ req[u].st = "asked" \/ (req[u].st # "asked" /\ deps'[req[u].id].res # "none")
      BY <1>1, <2>0 DEF Once, ReqsApart
    <2>1. \A u \in Users : (req[u] # NoReq /\ req[u].kind = "run" => ~Unused(req[u].id))'
      <3> SUFFICES ASSUME NEW u \in Users, req'[u] # NoReq, req'[u].kind = "run" PROVE ~Unused(req[u].id)'
        OBVIOUS
      <3>1. PICK r \in RunIds : r = req[u].id /\ r = req'[u].id
        BY <1>1, <2>0 DEF SingleIds
      <3>2. ~Unused(r)
        BY <2>0, <3>1 DEF Once, ReqsApart
      <3>3. ~Unused(r)'
        BY <1>4, <3>2 DEF UsedStays
      <3> QED  BY <3>1, <3>3
    <2>2. \A u \in Users : req'[u] # NoReq /\ req'[u].kind = "deploy"
            => (req'[u].st = "asked" <=> deps'[req'[u].id].res = "none")
      BY <1>1, <2>0, <2>4 DEF Once, ReqsApart
    <2>3. \A u, v \in Users : /\ u # v /\ req'[u] # NoReq /\ req'[v] # NoReq
                              /\ req'[u].kind = req'[v].kind /\ req'[u].kind # "rollback"
                              => req'[u].id # req'[v].id
      BY <2>0 DEF Once, ReqsApart
    <2> QED  BY <2>1, <2>2, <2>3 DEF ReqsApart
  <1> QED  BY <1>2, <1>3, <1>4, <1>5

LEMMA HeldMoved ==
  ASSUME Types, Once, UsedStays, UNCHANGED <<did, rows>>, \A r \in RunIds : Held(r)' => Held(r), ReqsShrink
  PROVE  HeldIsNew' /\ HeldIsUsed' /\ UnusedIsNew' /\ ReqIsOpen'
  BY DEF UsedStays, Once, HeldIsNew, HeldIsUsed, UnusedIsNew, ReqIsOpen, ReqsShrink

LEMMA AnswerGoes ==
  ASSUME Types, NEW m \in down, m.k # "cancel", req' = Taken(m) \/ req' = Refused(m)
  PROVE  ReqsGo /\ \A u \in Users : req'[u] = req[u] \/ req[u].st # "asked"
  <1>1. req \in [Users -> ReqType]
    BY DEF Types, WayTypes
  <1>2. CASE cut
    BY <1>2 DEF ReqsGo, Taken, Refused
  <1>3. CASE ~cut
    <2>1. req[m.by].st = "sent" /\ req[m.by] # NoReq
      BY <1>3 DEF Types, CallTypes, NoReq
    <2>2. \A u \in Users : req'[u] = req[u] \/ (u = m.by /\ (req'[u] = NoReq \/ req'[u] = [req[u] EXCEPT !.st = "refused"]))
      BY <1>1, <1>3 DEF Taken, Refused
    <2>3. \A u \in Users : req[u] # NoReq => LET r == [req[u] EXCEPT !.st = "refused"] IN
                              r.kind = req[u].kind /\ r.id = req[u].id /\ r.st = "refused"
      BY <1>1 DEF ReqType, RunReqType, DepReqType
    <2> QED  BY <2>1, <2>2, <2>3 DEF ReqsGo
  <1> QED  BY <1>2, <1>3

LEMMA OnRunOnce ==
  ASSUME Types, Types', Once, NEW m \in down, OnRun(m)
  PROVE  OnceGoes
  <1> USE DEF dbVars, superVars, netVars, agentVars, history
  <1>1. /\ UNCHANGED <<deps, rows, did, reached, task, count>> /\ down' = down \ {m} /\ m.k = "run"
        /\ req' = Taken(m) \/ req' = Refused(m)
    BY DEF OnRun
  <1>2. ReqsGo /\ ReqsShrink /\ UsedStays /\ ReqsApart' /\ \A d \in DepIds : Unsent(d)' => Unsent(d)
    BY <1>1, AnswerGoes, ReqsWent
  <1>3. OrdersShrink /\ (\A r \in RunIds : InTask(r)' <=> InTask(r)) /\ \A n \in down' : n \in down /\ n # m
    BY <1>1 DEF OrdersShrink, InTask
  <1>4. (JobShrinks /\ JobOfTask') \/ ((\A r \in RunIds : InJob(r)' => r = m.run) /\ task = NoTask)
    BY <1>1 DEF OnRun, AgentIdle, JobShrinks, JobOfTask, InJob, Once, ListsHeld
  <1>5. HeldOnce' /\ \A r \in RunIds : Held(r)' => Held(r)
    <2>1. CASE JobShrinks
      BY <1>2, <1>3, <2>1, HeldShrunk DEF HeldShrinks, TaskShrinks
    <2>2. CASE \A r \in RunIds : InJob(r)' => r = m.run
      <3>1. \A r \in RunIds : InJob(r)' => InMsg(m, r)
        BY <1>1, <2>2 DEF InMsg
      <3>2. \A r \in RunIds : \A n \in down' : InMsg(n, r)' => InMsg(n, r) /\ n \in down /\ n # m
        BY <1>3 DEF InMsg
      <3>3. \A r \in RunIds : Held(r)' => Held(r)
        BY <1>2, <1>3, <3>1, <3>2 DEF Held, ReqsShrink
      <3>4. HeldOnce'
        BY <1>2, <1>3, <3>1, <3>2 DEF Once, HeldOnce, ReqsShrink
      <3> QED  BY <3>3, <3>4
    <2> QED  BY <1>4, <2>1, <2>2
  <1>6. HeldIsNew' /\ HeldIsUsed' /\ UnusedIsNew' /\ ReqIsOpen'
    BY <1>1, <1>2, <1>5, HeldMoved
  <1>7. ListsHeld'
    BY <1>1, <1>3, <1>4 DEF ListsHeld, JobOfTask, ListFor, ListKind, Once
  <1>8. ReachedOnce'
    BY <1>1, <1>2, <1>3 DEF ReachedOnce, IsFirst, TaskIsFirst, Once, Types, WayTypes, OrderType
  <1> QED  BY <1>2, <1>5, <1>6, <1>7, <1>8 DEF Once, OnceGoes, HeldGrows, UnsentShrinks

LEMMA OnDeployOnce ==
  ASSUME Types, Types', Once, NEW m \in down, OnDeploy(m)
  PROVE  OnceGoes
  <1> USE DEF dbVars, superVars, netVars, agentVars, history
  <1>1. /\ UNCHANGED <<deps, rows, did, job, count>> /\ down' = down \ {m} /\ m.k = "deploy"
        /\ req' = Taken(m) \/ req' = Refused(m)
    BY DEF OnDeploy
  <1>2. ReqsGo /\ ReqsShrink /\ UsedStays /\ ReqsApart' /\ \A d \in DepIds : Unsent(d)' => Unsent(d)
    BY <1>1, AnswerGoes, ReqsWent
  <1>3. /\ OrdersShrink /\ JobShrinks /\ \A n \in down' : n \in down /\ n # m
        /\ \A n \in down : IsFirst(n) => n.dep \in DepIds
    BY <1>1 DEF OrdersShrink, JobShrinks, InJob, IsFirst, Types, WayTypes, OrderType, CallType, CancelType
  <1>4. CASE UNCHANGED <<task, reached>>
    <2>1. TaskShrinks /\ JobOfTask'
      BY <1>1, <1>4 DEF TaskShrinks, InTask, JobOfTask, Once, ListsHeld
    <2>2. HeldOnce' /\ \A r \in RunIds : Held(r)' => Held(r)
      BY <1>2, <1>3, <2>1, HeldShrunk DEF HeldShrinks
    <2>3. HeldIsNew' /\ HeldIsUsed' /\ UnusedIsNew' /\ ReqIsOpen'
      BY <1>1, <1>2, <2>2, HeldMoved
    <2>4. ListsHeld'
      BY <1>1, <1>3, <1>4 DEF ListsHeld, ListFor, ListKind, Once
    <2>5. ReachedOnce'
      BY <1>1, <1>2, <1>3, <1>4 DEF ReachedOnce, IsFirst, TaskIsFirst, Once
    <2> QED  BY <1>2, <2>2, <2>3, <2>4, <2>5 DEF Once, OnceGoes, HeldGrows, UnsentShrinks
  <1>5. CASE ~UNCHANGED <<task, reached>>
    <2>1. /\ AgentIdle
          /\ task' = [dep |-> m.dep, list |-> m.list, todo |-> m.steps, back |-> m.back, stopped |-> FALSE,
                      pc |-> "check", phase |-> "list", res |-> "none", rb |-> "none"]
          /\ reached' = [reached EXCEPT ![m.dep][m.list] = "none"]
      BY <1>5 DEF OnDeploy
    <2>2. /\ task' # NoTask /\ task'.dep = m.dep /\ task'.list = m.list /\ task'.todo = m.steps /\ task'.back = m.back
          /\ task'.pc = "check" /\ task'.phase = "list" /\ task = NoTask /\ job = NoRun
      BY <2>1 DEF NoTask, AgentIdle
    <2>3. /\ m.dep \in DepIds /\ m.list \in Lists /\ m.steps \in Seq(StepIds) /\ m.back \in Seq(StepIds)
          /\ reached \in [DepIds -> [deploy : Maybe, rollback : Maybe]]
      BY <1>1 DEF Types, WayTypes, AgentTypes, OrderType, CallType, CancelType
    <2>4. \A r \in RunIds : InTask(r)' => InMsg(m, r)
      BY <1>1, <2>2 DEF InTask, InMsg
    <2>5. \A r \in RunIds : \A n \in down' : InMsg(n, r)' => InMsg(n, r) /\ n \in down /\ n # m
      BY <1>3 DEF InMsg
    <2>6. \A r \in RunIds : Held(r)' => Held(r)
      BY <1>2, <1>3, <2>4, <2>5 DEF Held, ReqsShrink, JobShrinks
    <2>7. HeldOnce'
      BY <1>2, <1>3, <2>4, <2>5 DEF Once, HeldOnce, ReqsShrink, JobShrinks
    <2>8. HeldIsNew' /\ HeldIsUsed' /\ UnusedIsNew' /\ ReqIsOpen'
      BY <1>1, <1>2, <2>6, HeldMoved
    <2>9. ListsHeld'
      <3>1. ListFor(m.steps, m.dep, m.list) /\ ListFor(m.back, m.dep, "rollback")
        BY <1>1 DEF Once, ListsHeld
      <3>2. ListKind(task') = m.list
        BY <2>2, <2>3 DEF ListKind, Lists
      <3>3. \A n \in down' : n.k = "deploy" => ListFor(n.steps, n.dep, n.list) /\ ListFor(n.back, n.dep, "rollback")
        BY <1>3 DEF Once, ListsHeld
      <3> QED  BY <1>1, <2>2, <3>1, <3>2, <3>3 DEF ListsHeld, ListFor, ListKind
    <2>10. ReachedOnce'
      <3>1. IsFirst(m) <=> m.list = "deploy"
        BY <1>1 DEF IsFirst
      <3>2. TaskIsFirst' <=> m.list = "deploy"
        BY <2>2 DEF TaskIsFirst
      <3>3. /\ \A d \in DepIds : reached'[d].deploy = IF d = m.dep /\ m.list = "deploy" THEN "none" ELSE reached[d].deploy
            /\ m.list = "deploy" => reached'[m.dep].deploy = "none"
        BY <2>1, <2>3 DEF Lists
      <3>4. \A d \in DepIds : Unsent(d)' =>
              /\ reached'[d].deploy = "none"
              /\ \A n \in down' : IsFirst(n) => n.dep # d
              /\ TaskIsFirst' => task'.dep # d
        BY <1>2, <1>3, <2>2, <3>1, <3>2, <3>3 DEF ReachedOnce, Once
      <3>5. \A n \in down' : IsFirst(n) =>
              /\ reached'[n.dep].deploy = "none"
              /\ TaskIsFirst' => task'.dep # n.dep
              /\ \A l \in down' : IsFirst(l) /\ n.dep = l.dep => n = l
        BY <1>3, <2>2, <3>1, <3>2, <3>3 DEF ReachedOnce, Once
      <3> QED  BY <2>2, <3>2, <3>3, <3>4, <3>5 DEF ReachedOnce, IsFirst
    <2> QED  BY <1>2, <2>6, <2>7, <2>8, <2>9, <2>10 DEF Once, OnceGoes, HeldGrows, UnsentShrinks
  <1> QED  BY <1>4, <1>5

LEMMA RestartOnce ==
  ASSUME Types, Types', Once, SupervisorRestarts
  PROVE  OnceGoes
  <1> USE DEF dbVars, superVars, netVars, agentVars, history
  <1>1. /\ UNCHANGED <<deps, rows, did, job, task, reached, down>> /\ req' = [u \in Users |-> NoReq]
        /\ count' = [count EXCEPT !.boot = @ + 1]
    BY DEF SupervisorRestarts
  <1>2. count'.try = count.try /\ count'.single = count.single
    BY <1>1 DEF Types, StoreTypes
  <1>3. ReqsGo /\ ReqsShrink /\ UsedStays /\ ReqsApart' /\ \A d \in DepIds : Unsent(d)' => Unsent(d)
    <2>1. ReqsGo
      BY <1>1 DEF ReqsGo
    <2>2. \A u \in Users : req'[u] = req[u] => req[u] = NoReq
      BY <1>1
    <2> QED  BY <1>1, <1>2, <2>1, <2>2, ReqsWent
  <1>4. OrdersShrink /\ JobShrinks /\ TaskShrinks
    BY <1>1 DEF OrdersShrink, JobShrinks, InJob, TaskShrinks, InTask
  <1>5. HeldIsUsed' /\ HeldOnce' /\ HeldIsNew' /\ \A r \in RunIds : Held(r)' => Held(r)
    BY <1>1, <1>3, <1>4, HeldShrunk DEF HeldShrinks
  <1>6. UnusedIsNew' /\ ReqIsOpen'
    BY <1>1, <1>3, <1>5, HeldMoved
  <1>7. ListsHeld'
    BY <1>1 DEF ListsHeld, ListFor, ListKind, Once
  <1>8. ReachedOnce'
    BY <1>1, <1>3 DEF ReachedOnce, IsFirst, TaskIsFirst, Once
  <1> QED  BY <1>3, <1>5, <1>6, <1>7, <1>8 DEF Once, OnceGoes, HeldGrows, UnsentShrinks

LEMMA ReqOnce ==
  ASSUME Types, Types', Once, UNCHANGED <<down, task, job, did, reached>>,
         count'.try = count.try, count'.single = count.single, ReqsGo,
         \A d \in DepIds : deps'[d].res = "none" => deps[d].res = "none",
         \A u \in Users : req[u] # NoReq /\ req[u].kind = "deploy" /\ req[u].st = "asked"
                            => \/ req'[u] = NoReq
                               \/ req'[u].st = "asked" /\ deps'[req[u].id].res = deps[req[u].id].res
                               \/ req'[u].st = "marked" /\ deps'[req[u].id].res # "none",
         \A r \in RunIds : Unused(r)' => rows'[r] = "none",
         \A u \in Users : \A r \in RunIds : InReq(u, r)' => rows'[r] \in {"running", "cancel"}
  PROVE  OnceGoes
  <1>1. ReqsShrink /\ UsedStays /\ ReqsApart' /\ \A d \in DepIds : Unsent(d)' => Unsent(d)
    BY ReqsWent
  <1>2. OrdersShrink /\ JobShrinks /\ TaskShrinks
    BY DEF OrdersShrink, JobShrinks, InJob, TaskShrinks, InTask
  <1>3. HeldIsUsed' /\ HeldOnce' /\ HeldIsNew' /\ \A r \in RunIds : Held(r)' => Held(r)
    BY <1>1, <1>2, HeldShrunk DEF HeldShrinks
  <1>4. UnusedIsNew' /\ ReqIsOpen'
    BY DEF UnusedIsNew, ReqIsOpen
  <1>5. ListsHeld'
    BY DEF ListsHeld, ListFor, ListKind, Once
  <1>6. ReachedOnce'
    BY <1>1 DEF ReachedOnce, IsFirst, TaskIsFirst, Once
  <1> QED  BY <1>1, <1>3, <1>4, <1>5, <1>6 DEF Once, OnceGoes, HeldGrows, UnsentShrinks

LEMMA ReqKinds ==
  ASSUME Types, NEW u \in Users, req[u] # NoReq
  PROVE  /\ req[u].kind \in {"run", "deploy", "rollback"}
         /\ req[u].kind = "run" =>
              /\ req[u].id \in SingleIds /\ req[u].id \in RunIds /\ DepOf(req[u].id) = 0
              /\ req[u].st \in {"made", "looked", "sent", "refused"}
         /\ req[u].kind = "deploy" => req[u].id \in DepIds /\ req[u].st \in {"asked", "marked", "sent", "refused"}
         /\ req[u].kind = "rollback" => req[u].id \in DepIds /\ req[u].st \in {"asked", "sent", "refused"}
         /\ \A s : /\ [req[u] EXCEPT !.st = s].kind = req[u].kind /\ [req[u] EXCEPT !.st = s].id = req[u].id
                   /\ [req[u] EXCEPT !.st = s].st = s /\ [req[u] EXCEPT !.st = s].conn = req[u].conn
  BY DEF Types, WayTypes, ReqType, RunReqType, DepReqType, SingleIds

LEMMA OtherReqs ==
  ASSUME Types, Once, NEW u \in Users, NEW r \in RunIds, req[u] # NoReq, req[u].kind = "run"
  PROVE  /\ ~Unused(req[u].id)
         /\ \A v \in Users : v # u /\ InReq(v, r) => r # req[u].id
  BY DEF Once, ReqsApart, InReq

LEMMA LookOnce ==
  ASSUME Types, Types', Once, NEW u \in Users, LookRun(u) \/ RefuseRollback(u)
  PROVE  OnceGoes
  <1> USE DEF dbVars, superVars, netVars, agentVars, history
  <1>1. UNCHANGED <<deps, down, task, job, did, reached, count>> /\ req[u] # NoReq
    BY DEF LookRun, RunTaken, RefuseRollback, NoReq
  <1>2. /\ \/ req' = [req EXCEPT ![u] = NoReq]
           \/ req[u].st = "made" /\ req' = [req EXCEPT ![u] = [req[u] EXCEPT !.st = "looked"]]
        /\ req \in [Users -> ReqType]
    BY DEF LookRun, RunTaken, RefuseRollback, Done, Asked, Types, WayTypes
  <1>3. ReqsGo
    <2>1. /\ [req[u] EXCEPT !.st = "looked"].kind = req[u].kind /\ [req[u] EXCEPT !.st = "looked"].id = req[u].id
          /\ [req[u] EXCEPT !.st = "looked"].st = "looked"
      BY <1>1, ReqKinds
    <2> QED  BY <1>1, <1>2, <2>1 DEF ReqsGo
  <1>4. \A v \in Users : req[v] # NoReq /\ req[v].kind = "deploy" /\ req[v].st = "asked"
                           => req'[v] = NoReq \/ (req'[v].st = "asked" /\ deps'[req[v].id].res = deps[req[v].id].res)
    BY <1>1, <1>2
  <1>5. /\ rows \in [RunIds -> RunResults]
        /\ rows' = rows \/ (req[u].kind = "run" /\ rows' = [rows EXCEPT ![req[u].id] = "cancel"])
    BY <1>1, ReqKinds DEF LookRun, RunTaken, RefuseRollback, FinishStepRun, Types, StoreTypes
  <1>6. ReqsShrink /\ UsedStays
    BY <1>1, <1>3, <1>4, ReqsWent
  <1>7. \A r \in RunIds : Unused(r)' => rows'[r] = "none"
    BY <1>1, <1>5, <1>6, OtherReqs DEF UsedStays, UnusedIsNew, Once
  <1>8. \A v \in Users : \A r \in RunIds : InReq(v, r)' => rows'[r] \in {"running", "cancel"}
    BY <1>5, <1>6 DEF ReqsShrink, ReqIsOpen, Once
  <1> QED  BY <1>1, <1>3, <1>4, <1>7, <1>8, ReqOnce

LEMMA AbortFacts ==
  ASSUME Types, NEW u \in Users, NEW list, NEW t, t \in [RunIds -> RunResults], Aborted(u, list, t)
  PROVE  /\ RowsClose(t, rows') /\ DepsClose(deps, deps') /\ req' = [req EXCEPT ![u] = NoReq]
         /\ \A r \in RunIds : t[r] # "wait" => rows'[r] = t[r]
         /\ \A r \in RunIds : rows'[r] = t[r] \/ rows'[r] = "skip"
  <1>1. deps \in DepRows
    BY DEF Types, StoreTypes, DepRows
  <1>2. DepsClose(deps, deps')
    BY <1>1, DepsClosed DEF Aborted
  <1>3. rows' = SkipWaitRunsOf(t, {req[u].id})
    BY DEF Aborted
  <1>4. RowsClose(t, rows')
    BY <1>3, RowsClosed
  <1>5. \A r \in RunIds : rows'[r] = t[r] \/ (t[r] = "wait" /\ rows'[r] = "skip")
    BY <1>3 DEF SkipWaitRunsOf
  <1> QED  BY <1>2, <1>4, <1>5 DEF Aborted, Done

\* A request that is over leaves the others as they are.
LEMMA DoneOnce ==
  ASSUME Types, Types', Once, NEW u \in Users, UNCHANGED <<down, task, job, did, reached, count>>,
         req' = [req EXCEPT ![u] = NoReq],
         \A d \in DepIds : deps[d].res = "none" <=> deps'[d].res = "none",
         \A r \in RunIds : Unused(r)' => rows'[r] = "none",
         \A r \in RunIds : rows[r] \in {"running", "cancel"} /\ rows'[r] \notin {"running", "cancel"}
                             => \A v \in Users \ {u} : ~InReq(v, r)
  PROVE  OnceGoes
  <1>1. req \in [Users -> ReqType]
    BY DEF Types, WayTypes
  <1>2. ReqsGo
    BY <1>1 DEF ReqsGo
  <1>3. \A v \in Users : req[v] # NoReq /\ req[v].kind = "deploy" /\ req[v].st = "asked"
                           => req'[v] = NoReq \/ (req'[v].st = "asked" /\ deps'[req[v].id].res = deps[req[v].id].res)
    <2>1. \A v \in Users : req[v] # NoReq /\ req[v].kind = "deploy" /\ req[v].st = "asked"
                             => req[v].id \in DepIds /\ deps[req[v].id].res = "none"
      BY ReqKinds DEF Once, ReqsApart
    <2> QED  BY <1>1, <2>1
  <1>4. \A v \in Users : \A r \in RunIds : InReq(v, r)' => v # u /\ InReq(v, r)
    BY <1>1 DEF InReq
  <1>5. \A v \in Users : \A r \in RunIds : InReq(v, r)' => rows'[r] \in {"running", "cancel"}
    BY <1>4 DEF ReqIsOpen, Once
  <1> QED  BY <1>2, <1>3, <1>5, ReqOnce

LEMMA ReturnOnce ==
  ASSUME Types, Types', Once, NEW u \in Users, CallReturns(u)
  PROVE  OnceGoes
  <1> USE DEF dbVars, superVars, netVars, agentVars, history
  <1>1. UNCHANGED <<down, task, job, did, reached, count>> /\ req[u] # NoReq
    BY DEF CallReturns, CallFails, NoReq
  <1>2. rows \in [RunIds -> RunResults] /\ req \in [Users -> ReqType]
    BY DEF Types, StoreTypes, WayTypes
  <1>3. CASE req[u].kind = "run"
    <2>1. UNCHANGED deps /\ rows' = Finished(req[u].id, "fail") /\ req' = [req EXCEPT ![u] = NoReq]
      BY <1>3 DEF CallReturns, Done
    <2>2. UsedStays
      BY <1>2, <2>1, <1>1, RunFacts DEF UsedStays, Unused, Unsent, Attempt
    <2>3. \A r \in RunIds : rows'[r] = rows[r] \/ (r = req[u].id /\ rows[r] # "none")
      BY <1>2, <2>1 DEF Finished, Unfinished, FinishStepRun
    <2>4. \A r \in RunIds : Unused(r)' => rows'[r] = "none"
      BY <2>2, <2>3 DEF UsedStays, UnusedIsNew, Once
    <2>5. \A r \in RunIds : rows'[r] # rows[r] => \A v \in Users \ {u} : ~InReq(v, r)
      BY <1>1, <1>3, <2>3, OtherReqs
    <2> QED  BY <1>1, <2>1, <2>4, <2>5, DoneOnce
  <1>4. CASE req[u].kind # "run"
    <2>1. /\ RowsClose(rows, rows') /\ DepsClose(deps, deps') /\ req' = [req EXCEPT ![u] = NoReq]
          /\ \A r \in RunIds : rows[r] # "wait" => rows'[r] = rows[r]
      BY <1>2, <1>4, AbortFacts DEF CallReturns
    <2>2. \A d \in DepIds : deps[d].res = "none" <=> deps'[d].res = "none"
      BY <2>1 DEF DepsClose
    <2>3. UsedStays
      BY <1>1, <1>2, <2>1, <2>2, RunFacts DEF UsedStays, Unused, Unsent, Attempt
    <2>4. \A r \in RunIds : Unused(r)' => rows'[r] = "none"
      BY <2>1, <2>3 DEF UsedStays, UnusedIsNew, Once
    <2> QED  BY <1>1, <2>1, <2>2, <2>4, DoneOnce
  <1> QED  BY <1>3, <1>4

LEMMA TakeOnce ==
  ASSUME Types, Types', Once, NEW u \in Users, TakeDeploy(u)
  PROVE  OnceGoes
  <1> USE DEF dbVars, superVars, netVars, agentVars, history
  <1> DEFINE d == req[u].id
  <1>1. UNCHANGED <<rows, down, task, job, did, reached, count>> /\ req[u] # NoReq /\ req[u].kind = "deploy"
        /\ req[u].st = "asked"
    BY DEF TakeDeploy, NoReq
  <1>2. d \in DepIds /\ req \in [Users -> ReqType] /\ deps \in DepRows
    BY <1>1, ReqKinds DEF Types, StoreTypes, WayTypes, DepRows
  <1>3. /\ \A e \in DepIds : e # d => deps'[e].res = deps[e].res
        /\ deps'[d].res # "none"
        /\ \/ req' = [req EXCEPT ![u] = NoReq]
           \/ req' = [req EXCEPT ![u] = [req[u] EXCEPT !.st = "marked"]]
    BY <1>2 DEF TakeDeploy, CreateDeployment, FinishDeployment, DepRows, Done, Asked
  <1>4. /\ [req[u] EXCEPT !.st = "marked"].kind = req[u].kind /\ [req[u] EXCEPT !.st = "marked"].id = req[u].id
        /\ [req[u] EXCEPT !.st = "marked"].st = "marked"
    BY <1>1, ReqKinds
  <1>5. ReqsGo
    BY <1>1, <1>2, <1>3, <1>4 DEF ReqsGo
  <1>6. \A e \in DepIds : deps'[e].res = "none" => deps[e].res = "none"
    BY <1>3
  <1>7. \A v \in Users : req[v] # NoReq /\ req[v].kind = "deploy" /\ req[v].st = "asked"
                           => \/ req'[v] = NoReq
                              \/ req'[v].st = "asked" /\ deps'[req[v].id].res = deps[req[v].id].res
                              \/ req'[v].st = "marked" /\ deps'[req[v].id].res # "none"
    <2>1. \A v \in Users : v # u /\ req[v] # NoReq /\ req[v].kind = "deploy" => req[v].id # d /\ req[v].id \in DepIds
      BY <1>1, ReqKinds DEF Once, ReqsApart
    <2> QED  BY <1>1, <1>2, <1>3, <1>4, <2>1
  <1>8. ReqsShrink /\ UsedStays
    BY <1>1, <1>5, <1>6, <1>7, ReqsWent
  <1>9. /\ \A r \in RunIds : Unused(r)' => rows'[r] = "none"
        /\ \A v \in Users : \A r \in RunIds : InReq(v, r)' => rows'[r] \in {"running", "cancel"}
    BY <1>1, <1>8 DEF UsedStays, ReqsShrink, UnusedIsNew, ReqIsOpen, Once
  <1> QED  BY <1>1, <1>5, <1>6, <1>7, <1>9, ReqOnce

LEMMA AskDepOnce ==
  ASSUME Types, Types', Once, NEW u \in Users, NEW d \in DepIds, AskDeploy(u, d) \/ AskRollback(u, d)
  PROVE  OnceGoes
  <1> USE DEF dbVars, superVars, netVars, agentVars, history
  <1>1. UNCHANGED <<deps, rows, down, task, job, did, reached, count>> /\ req[u] = NoReq
    BY DEF AskDeploy, AskRollback
  <1>2. PICK q : /\ req' = [req EXCEPT ![u] = q] /\ q # NoReq /\ q.id = d
                 /\ \/ q.kind = "rollback"
                    \/ q.kind = "deploy" /\ q.st = "asked" /\ ~Created(d)
    <2>1. CASE AskDeploy(u, d)
      <3> DEFINE q == [st |-> "asked", kind |-> "deploy", id |-> d, conn |-> link]
      <3>1. req' = [req EXCEPT ![u] = q] /\ ~Created(d)
        BY <2>1 DEF AskDeploy, Asked
      <3>2. q # NoReq /\ q.id = d /\ q.kind = "deploy" /\ q.st = "asked"
        BY DEF NoReq
      <3> QED  BY <3>1, <3>2
    <2>2. CASE AskRollback(u, d)
      <3> DEFINE q == [st |-> "asked", kind |-> "rollback", id |-> d, conn |-> 0]
      <3>1. req' = [req EXCEPT ![u] = q]
        BY <2>2 DEF AskRollback, Asked
      <3>2. q # NoReq /\ q.id = d /\ q.kind = "rollback"
        BY DEF NoReq
      <3> QED  BY <3>1, <3>2
    <2> QED  BY <2>1, <2>2
  <1>3. /\ req \in [Users -> ReqType] /\ req'[u] = q
        /\ \A v \in Users : v # u => req'[v] = req[v]
    BY <1>2 DEF Types, WayTypes
  <1>4. q.kind = "deploy" => /\ deps[d].res = "none"
                             /\ \A v \in Users : req[v] # NoReq /\ req[v].kind = "deploy" => req[v].id # d
    BY <1>2 DEF Created
  <1>5. \A e \in DepIds : Unsent(e)' => Unsent(e)
    BY <1>1, <1>2, <1>3, <1>4 DEF Unsent
  <1>6. UsedStays
    BY <1>1, <1>5, RunFacts DEF UsedStays, Unused, Attempt
  <1>7. ReqsShrink
    BY <1>2, <1>3 DEF ReqsShrink, InReq
  <1>8. OrdersShrink /\ JobShrinks /\ TaskShrinks
    BY <1>1 DEF OrdersShrink, JobShrinks, InJob, TaskShrinks, InTask
  <1>9. HeldIsUsed' /\ HeldOnce' /\ HeldIsNew' /\ \A r \in RunIds : Held(r)' => Held(r)
    BY <1>1, <1>6, <1>7, <1>8, HeldShrunk DEF HeldShrinks
  <1>10. UnusedIsNew' /\ ReqIsOpen'
    BY <1>1, <1>6, <1>7, <1>9, HeldMoved
  <1>11. ListsHeld' /\ ReachedOnce'
    BY <1>1, <1>5 DEF ListsHeld, ListFor, ListKind, ReachedOnce, IsFirst, TaskIsFirst, Once
  <1>12. ReqsApart'
    <2>1. \A v \in Users : (req[v] # NoReq /\ req[v].kind = "run" => ~Unused(req[v].id))'
      <3> SUFFICES ASSUME NEW v \in Users, req'[v] # NoReq, req'[v].kind = "run" PROVE ~Unused(req[v].id)'
        OBVIOUS
      <3>1. v # u /\ req'[v] = req[v]
        BY <1>2, <1>3
      <3>2. PICK r \in RunIds : r = req[v].id
        BY <3>1, ReqKinds
      <3>3. ~Unused(r)'
        BY <1>6, <3>1, <3>2 DEF UsedStays, Once, ReqsApart
      <3> QED  BY <3>1, <3>2, <3>3
    <2>2. \A v \in Users : req'[v] # NoReq /\ req'[v].kind = "deploy"
            => (req'[v].st = "asked" <=> deps'[req'[v].id].res = "none")
      BY <1>1, <1>2, <1>3, <1>4 DEF Once, ReqsApart
    <2>3. \A v, w \in Users : /\ v # w /\ req'[v] # NoReq /\ req'[w] # NoReq
                              /\ req'[v].kind = req'[w].kind /\ req'[v].kind # "rollback"
                              => req'[v].id # req'[w].id
      BY <1>2, <1>3, <1>4 DEF Once, ReqsApart
    <2> QED  BY <2>1, <2>2, <2>3 DEF ReqsApart
  <1> QED  BY <1>5, <1>9, <1>10, <1>11, <1>12 DEF Once, OnceGoes, HeldGrows, UnsentShrinks

LEMMA AskRunOnce ==
  ASSUME Types, Types', Once, NEW u \in Users, AskRun(u)
  PROVE  OnceGoes
  <1> USE DEF dbVars, superVars, netVars, agentVars, history
  <1>1. UNCHANGED <<deps, down, task, job, did, reached>> /\ req[u] = NoReq
    BY DEF AskRun
  <1>2. /\ count.single \in 0 .. MaxSingle /\ count.single < MaxSingle /\ count'.try = count.try
        /\ count'.single = count.single + 1
    BY DEF AskRun, Types, StoreTypes
  <1>3. PICK n \in 1 .. MaxSingle : n = count.single + 1
    BY <1>2, StoreAssumption
  <1>4. PICK s \in RunIds : s = SingleRun(n) /\ DepOf(s) = 0 /\ NumOf(s) = n
    BY SingleFacts
  <1>5. /\ rows' = [rows EXCEPT ![s] = "running"] /\ rows \in [RunIds -> RunResults]
        /\ req' = [req EXCEPT ![u] = [st |-> "made", kind |-> "run", id |-> s, conn |-> link]]
        /\ req \in [Users -> ReqType]
    BY <1>3, <1>4 DEF AskRun, CreateStepRun, Asked, Types, StoreTypes, WayTypes
  <1>6. req'[u] # NoReq /\ req'[u].kind = "run" /\ req'[u].id = s /\ \A v \in Users : v # u => req'[v] = req[v]
    BY <1>5 DEF NoReq
  <1>7. Unused(s) /\ did[s] = "none" /\ ~Held(s) /\ ~Unused(s)'
    <2>1. Unused(s) /\ ~Unused(s)'
      BY <1>2, <1>3, <1>4 DEF Unused
    <2> QED  BY <2>1 DEF Once, HeldIsNew, HeldIsUsed
  <1>8. \A e \in DepIds : Unsent(e)' <=> Unsent(e)
    BY <1>1, <1>6 DEF Unsent
  <1>9. UsedStays
    BY <1>1, <1>2, <1>8, RunFacts DEF UsedStays, Unused, Attempt
  <1>10. \A r \in RunIds : \A v \in Users : InReq(v, r)' => InReq(v, r) \/ (v = u /\ r = s)
    BY <1>6 DEF InReq
  <1>11. /\ \A r \in RunIds : (InTask(r)' <=> InTask(r)) /\ (InJob(r)' <=> InJob(r))
         /\ \A m, r : InMsg(m, r)' <=> InMsg(m', r')
    BY <1>1 DEF InTask, InJob, InMsg
  <1>12. \A r \in RunIds : Held(r)' => Held(r) \/ r = s
    BY <1>1, <1>10, <1>11 DEF Held
  <1>13. HeldIsNew' /\ HeldIsUsed'
    BY <1>1, <1>7, <1>9, <1>12 DEF HeldIsNew, HeldIsUsed, UsedStays, Once
  <1>14. UnusedIsNew'
    BY <1>5, <1>7, <1>9 DEF UnusedIsNew, UsedStays, Once
  <1>15. ReqIsOpen'
    BY <1>5, <1>10 DEF ReqIsOpen, Once
  <1>16. HeldOnce'
    BY <1>1, <1>7, <1>10, <1>11 DEF HeldOnce, Held, Once
  <1>17. ListsHeld' /\ ReachedOnce'
    BY <1>1, <1>8 DEF ListsHeld, ListFor, ListKind, ReachedOnce, IsFirst, TaskIsFirst, Once
  <1>18. ReqsApart'
    <2>1. \A v \in Users : (req[v] # NoReq /\ req[v].kind = "run" => ~Unused(req[v].id))'
      <3> SUFFICES ASSUME NEW v \in Users, req'[v] # NoReq, req'[v].kind = "run" PROVE ~Unused(req[v].id)'
        OBVIOUS
      <3>1. CASE v = u
        BY <1>6, <1>7, <3>1
      <3>2. CASE v # u
        <4>1. PICK r \in RunIds : r = req[v].id /\ req'[v] = req[v]
          BY <1>6, <3>2, ReqKinds
        <4>2. ~Unused(r)'
          BY <1>9, <4>1 DEF UsedStays, Once, ReqsApart
        <4> QED  BY <4>1, <4>2
      <3> QED  BY <3>1, <3>2
    <2>2. \A v \in Users : req'[v] # NoReq /\ req'[v].kind = "deploy"
            => (req'[v].st = "asked" <=> deps'[req'[v].id].res = "none")
      BY <1>1, <1>6 DEF Once, ReqsApart
    <2>3. \A v \in Users : v # u /\ req[v] # NoReq /\ req[v].kind = "run" => req[v].id # s
      BY <1>7 DEF Once, ReqsApart
    <2>4. \A v, w \in Users : /\ v # w /\ req'[v] # NoReq /\ req'[w] # NoReq
                              /\ req'[v].kind = req'[w].kind /\ req'[v].kind # "rollback"
                              => req'[v].id # req'[w].id
      BY <1>6, <2>3 DEF Once, ReqsApart
    <2> QED  BY <2>1, <2>2, <2>4 DEF ReqsApart
  <1> QED  BY <1>7, <1>8, <1>12, <1>13, <1>14, <1>15, <1>16, <1>17, <1>18 DEF Once, OnceGoes, HeldGrows, UnsentShrinks

LEMMA SendRunOnce ==
  ASSUME Types, Types', Once, NEW u \in Users, SendRun(u)
  PROVE  OnceGoes
  <1> USE DEF dbVars, superVars, netVars, agentVars, history
  <1>1. UNCHANGED <<deps, task, job, did, reached, count>> /\ req[u] # NoReq /\ req[u].kind = "run" /\ req[u].st = "looked"
    BY ReqKinds DEF SendRun, NoReq
  <1>2. PICK s \in RunIds : s = req[u].id /\ DepOf(s) = 0 /\ InReq(u, s)
    BY <1>1, ReqKinds DEF InReq
  <1>3. rows \in [RunIds -> RunResults] /\ req \in [Users -> ReqType]
    BY DEF Types, StoreTypes, WayTypes
  <1>4. CASE /\ rows' = FinishStepRun(rows, s, "cancel") \/ rows' = Finished(s, "fail")
             /\ req' = [req EXCEPT ![u] = NoReq] /\ UNCHANGED down
    <2>1. UsedStays
      BY <1>1, <1>3, <1>4, RunFacts DEF UsedStays, Unused, Unsent, Attempt
    <2>2. \A r \in RunIds : rows'[r] = rows[r] \/ r = s
      BY <1>3, <1>4 DEF Finished, FinishStepRun
    <2>3. ~Unused(s)
      BY <1>1, <1>2, OtherReqs
    <2>4. \A r \in RunIds : Unused(r)' => rows'[r] = "none"
      BY <2>1, <2>2, <2>3 DEF UsedStays, UnusedIsNew, Once
    <2>5. \A r \in RunIds : rows'[r] # rows[r] => \A v \in Users \ {u} : ~InReq(v, r)
      BY <1>1, <1>2, <2>2, OtherReqs
    <2> QED  BY <1>1, <1>4, <2>4, <2>5, DoneOnce
  <1>5. CASE /\ req' = [req EXCEPT ![u] = [req[u] EXCEPT !.st = "sent"]] /\ UNCHANGED rows
             /\ down' = down \cup {[k |-> "run", by |-> u, run |-> s]}
    <2> DEFINE m == [k |-> "run", by |-> u, run |-> s]
    <2>1. /\ [req[u] EXCEPT !.st = "sent"].kind = req[u].kind /\ [req[u] EXCEPT !.st = "sent"].id = req[u].id
          /\ [req[u] EXCEPT !.st = "sent"].st = "sent"
      BY <1>1, ReqKinds
    <2>2. ReqsGo
      BY <1>1, <1>3, <1>5, <2>1 DEF ReqsGo
    <2>3. \A v \in Users : req[v] # NoReq /\ req[v].kind = "deploy" /\ req[v].st = "asked"
                             => req'[v].st = "asked" /\ deps'[req[v].id].res = deps[req[v].id].res
      BY <1>1, <1>3, <1>5
    <2>4. ReqsShrink /\ UsedStays /\ ReqsApart' /\ \A d \in DepIds : Unsent(d)' => Unsent(d)
      BY <1>1, <2>2, <2>3, ReqsWent
    <2>5. \A v \in Users : ~InReq(v, s)'
      BY <1>1, <1>2, <1>3, <1>5, <2>1, <2>4, OtherReqs DEF ReqsShrink, InReq
    <2>6. /\ \A r \in RunIds : (InTask(r)' <=> InTask(r)) /\ (InJob(r)' <=> InJob(r))
          /\ \A r \in RunIds : \A n \in down' : InMsg(n, r)' => InMsg(n, r) /\ (n \in down \/ (n = m /\ r = s))
      BY <1>1, <1>5 DEF InTask, InJob, InMsg
    <2>7. \A r \in RunIds : Held(r)' => Held(r)
      BY <1>2, <2>4, <2>6 DEF Held, ReqsShrink
    <2>8. HeldIsNew' /\ HeldIsUsed' /\ UnusedIsNew' /\ ReqIsOpen'
      BY <1>1, <1>5, <2>4, <2>7, HeldMoved
    <2>9. ~InTask(s) /\ ~InJob(s) /\ \A n \in down : ~InMsg(n, s)
      <3>1. ~InTask(s)
        BY <1>2, RangeFacts DEF InTask, Types, AgentTypes, IsTask, TaskType, StepIds
      <3> QED  BY <1>2, <3>1 DEF Once, HeldOnce
    <2>10. HeldOnce'
      BY <2>4, <2>5, <2>6, <2>9 DEF Once, HeldOnce, ReqsShrink
    <2>11. \A n \in down' : n.k = "deploy" => n \in down
      BY <1>5
    <2>12. ListsHeld'
      BY <1>1, <2>11 DEF ListsHeld, ListFor, ListKind, Once
    <2>13. ReachedOnce'
      BY <1>1, <2>4, <2>11 DEF ReachedOnce, IsFirst, TaskIsFirst, Once
    <2> QED  BY <2>4, <2>7, <2>8, <2>10, <2>12, <2>13 DEF Once, OnceGoes, HeldGrows, UnsentShrinks
  <1> QED  BY <1>2, <1>4, <1>5 DEF SendRun, RunTaken, Done, Asked

\* An order is sent with runs nobody has had before.
LEMMA NewOrder ==
  ASSUME Types, Types', Once, UNCHANGED <<task, job, did, reached>>, UsedStays, ReqsShrink, ReqsApart',
         NEW m, m.k = "deploy", ListFor(m.steps, m.dep, m.list), ListFor(m.back, m.dep, "rollback"),
         OrdersShrink \/ down' = down \cup {m},
         \A r \in RunIds : InMsg(m, r) => Unused(r) /\ ~Unused(r)',
         m.list = "deploy" => Unsent(m.dep) /\ ~Unsent(m.dep)', m.dep \in DepIds,
         \A d \in DepIds : Unsent(d)' => Unsent(d),
         \A r \in RunIds : Unused(r)' => rows'[r] = "none",
         \A u \in Users : \A r \in RunIds : InReq(u, r)' => rows'[r] = rows[r]
  PROVE  OnceGoes
  <1>1. \A r \in RunIds : InMsg(m, r) => ~Held(r) /\ did[r] = "none"
    BY DEF Once, HeldIsUsed, HeldIsNew
  <1>2. /\ \A n \in down' : n.k # "cancel" => n \in down \/ n = m
        /\ \A r \in RunIds : \A n \in down' : InMsg(n, r)' => InMsg(n, r) /\ (n \in down \/ n = m)
        /\ \A r \in RunIds : (InTask(r)' <=> InTask(r)) /\ (InJob(r)' <=> InJob(r))
    BY DEF OrdersShrink, InMsg, InTask, InJob
  <1>3. \A r \in RunIds : Held(r)' => Held(r) \/ InMsg(m, r)
    BY <1>2 DEF Held, ReqsShrink
  <1>4. HeldIsNew' /\ HeldIsUsed'
    BY <1>1, <1>3 DEF HeldIsNew, HeldIsUsed, UsedStays, Once
  <1>5. UnusedIsNew' /\ ReqIsOpen'
    BY DEF UnusedIsNew, ReqIsOpen, ReqsShrink, Once
  <1>6. \A r \in RunIds : InMsg(m, r) => ~InTask(r) /\ ~InJob(r) /\ (\A n \in down : ~InMsg(n, r)) /\ \A u \in Users : ~InReq(u, r)
    BY <1>1 DEF Held
  <1>7. HeldOnce'
    BY <1>2, <1>6 DEF HeldOnce, ReqsShrink, Once
  <1>8. ListsHeld'
    BY <1>2 DEF ListsHeld, ListFor, ListKind, Once
  <1>9. \A n \in down' : IsFirst(n) => (n \in down /\ n.dep \in DepIds) \/ (n = m /\ m.list = "deploy")
    BY <1>2 DEF IsFirst, Types, WayTypes, OrderType, CallType, CancelType
  <1>10. ReachedOnce'
    <2>1. \A d \in DepIds : Unsent(d)' =>
            /\ reached'[d].deploy = "none"
            /\ \A n \in down' : IsFirst(n) => n.dep # d
            /\ TaskIsFirst' => task'.dep # d
      BY <1>9 DEF Once, ReachedOnce, TaskIsFirst
    <2>2. \A n \in down' : IsFirst(n) =>
            /\ reached'[n.dep].deploy = "none"
            /\ TaskIsFirst' => task'.dep # n.dep
            /\ \A l \in down' : IsFirst(l) /\ n.dep = l.dep => n = l
      BY <1>9 DEF Once, ReachedOnce, TaskIsFirst
    <2> QED  BY <2>1, <2>2 DEF Once, ReachedOnce, TaskIsFirst, IsFirst
  <1> QED  BY <1>3, <1>4, <1>5, <1>7, <1>8, <1>10 DEF Once, OnceGoes, HeldGrows, UnsentShrinks

LEMMA RangeIs ==
  ASSUME NEW s, NEW x
  PROVE  x \in Range(s) <=> \E i \in DOMAIN s : s[i] = x
  BY DEF Range

\* What is recorded of a run or a deployment is recorded while it is open.
RowsRecorded ==
  \A r \in RunIds :
    rows'[r] = rows[r] \/ (rows[r] \in {"none", "wait", "running"} /\ (rows'[r] = "ok" => did[r] = "ok"))
DepsRecorded ==
  \A d \in DepIds :
    \/ deps'[d].res = deps[d].res
    \/ deps[d].res \in {"none", "running"} /\ (deps'[d].res = "ok" => reached[d].deploy = "ok")

LEMMA SendDeployOnce ==
  ASSUME Types, Types', Once, NEW u \in Users, SendDeploy(u)
  PROVE  OnceGoes /\ RowsRecorded /\ DepsRecorded
  <1> USE DEF dbVars, superVars, netVars, agentVars, history
  <1>1. UNCHANGED <<task, job, did, reached, count>> /\ req[u] # NoReq /\ req[u].kind = "deploy" /\ req[u].st = "marked"
    BY ReqKinds DEF SendDeploy, NoReq
  <1>d. PICK d \in DepIds : d = req[u].id
    BY <1>1, ReqKinds
  <1>2. /\ deps[d].res # "none" /\ Unsent(d) /\ rows \in [RunIds -> RunResults] /\ req \in [Users -> ReqType]
        /\ 0 \in 0 .. MaxTry
    BY <1>1, <1>d, StoreAssumption DEF Once, ReqsApart, Unsent, Types, StoreTypes, WayTypes
  <1>3. PICK back : /\ back = <<>> \/ back = BackRuns(d, 0)
                    /\ LET made == CreateWaitStepRuns(rows, DeployRuns(d) \o back) IN
                       \/ Aborted(u, "deploy", rows) /\ UNCHANGED down
                       \/ Aborted(u, "deploy", made) /\ UNCHANGED down
                       \/ /\ rows' = made /\ UNCHANGED <<deps, mark>>
                          /\ down' = down \cup {[k |-> "deploy", by |-> u, dep |-> d, list |-> "deploy",
                                                 steps |-> DeployRuns(d), back |-> back]}
                          /\ req' = [req EXCEPT ![u] = [req[u] EXCEPT !.st = "sent"]]
    BY <1>d DEF SendDeploy, Asked
  <1> DEFINE runs == DeployRuns(d) \o back
  <1> DEFINE made == CreateWaitStepRuns(rows, runs)
  <1>4. back \in Seq(StepIds) /\ ListFor(back, d, "rollback") /\ \A i \in DOMAIN back : NumOf(back[i]) <= Backs
    <2>1. CASE back = <<>>
      BY <2>1 DEF ListFor
    <2>2. CASE back = BackRuns(d, 0)
      <3>1. (0 + 1) * Backs = Backs
        BY StoreAssumption
      <3> QED  BY <1>2, <2>2, <3>1, BackRunsFacts
    <2> QED  BY <1>3, <2>1, <2>2
  <1>5. DeployRuns(d) \in Seq(StepIds) /\ ListFor(DeployRuns(d), d, "deploy")
    BY <1>2, DeployRunsFacts
  <1>6. \A i \in DOMAIN runs : DepOf(runs[i]) = d /\ Attempt(runs[i], 0) /\ runs[i] \in RunIds
    <2> DEFINE a == DeployRuns(d)
    <2>0. a \in Seq(StepIds) /\ \A i \in DOMAIN a : DepOf(a[i]) = d /\ ListOf(a[i]) = "deploy"
      BY <1>5 DEF ListFor
    <2>1. \A i \in DOMAIN back : DepOf(back[i]) = d /\ NumOf(back[i]) <= Backs
      BY <1>4 DEF ListFor
    <2>2. (0 + 1) * Backs = Backs
      BY StoreAssumption
    <2> HIDE DEF a
    <2>3. \A i \in DOMAIN (a \o back) : /\ i <= Len(a) => i \in DOMAIN a /\ (a \o back)[i] = a[i]
                                        /\ i > Len(a) => i - Len(a) \in DOMAIN back /\ (a \o back)[i] = back[i - Len(a)]
      BY <1>4, <2>0
    <2>4. \A i \in DOMAIN (a \o back) : DepOf((a \o back)[i]) = d /\ Attempt((a \o back)[i], 0) /\ (a \o back)[i] \in RunIds
      BY <1>4, <2>0, <2>1, <2>2, <2>3 DEF Attempt, StepIds
    <2> QED  BY <2>4 DEF a
  <1> HIDE DEF runs
  <1>7. made \in [RunIds -> RunResults] /\ \A r \in RunIds : made[r] = rows[r] \/ (DepOf(r) = d /\ Attempt(r, 0) /\ made[r] = "wait")
    BY <1>2, <1>6, RowStatements DEF CreateWaitStepRuns
  <1> HIDE DEF made
  <1>8. \A r \in RunIds : DepOf(r) = d /\ Attempt(r, 0) => Unused(r)
    BY <1>2, RunFacts DEF Unused, DepIds
  <1>9. ~Unsent(d)' => \A r \in RunIds : DepOf(r) = d /\ Attempt(r, 0) => ~Unused(r)'
    <2> SUFFICES ASSUME ~Unsent(d)', NEW r \in RunIds, DepOf(r) = d, Attempt(r, 0) PROVE ~Unused(r)'
      OBVIOUS
    <2>1. PICK e \in DepIds : e = d /\ DepOf(r) = e /\ e # 0
      BY <1>2 DEF DepIds
    <2>2. ~Unsent(DepOf(r))'
      BY <2>1
    <2>3. ~(DepOf(r) = 0) /\ DepOf(r) # 0 /\ Attempt(r, 0)
      BY <2>1
    <2> QED  BY <2>2, <2>3 DEF Unused, Attempt
  <1>10. CASE \E t \in {rows, made} : Aborted(u, "deploy", t) /\ UNCHANGED down
    <2>1. PICK t \in {rows, made} : Aborted(u, "deploy", t) /\ UNCHANGED down
      BY <1>10
    <2>2. /\ RowsClose(t, rows') /\ DepsClose(deps, deps') /\ req' = [req EXCEPT ![u] = NoReq]
          /\ \A r \in RunIds : t[r] # "wait" => rows'[r] = t[r]
      BY <1>2, <1>7, <2>1, AbortFacts
    <2>3. \A e \in DepIds : deps[e].res = "none" <=> deps'[e].res = "none"
      BY <2>2 DEF DepsClose
    <2>4. UsedStays
      BY <1>1, <1>2, <2>2, <2>3, RunFacts DEF UsedStays, Unused, Unsent, Attempt
    <2>5. ~Unsent(d)'
      BY <1>1, <1>d, <1>2, <2>2, <2>3 DEF Unsent, Once, ReqsApart
    <2>6. \A r \in RunIds : Unused(r)' => rows'[r] = "none"
      BY <1>7, <1>9, <2>1, <2>2, <2>4, <2>5 DEF UsedStays, UnusedIsNew, Once
    <2>7. \A r \in RunIds : rows[r] \in {"running", "cancel"} /\ rows'[r] \notin {"running", "cancel"}
                              => \A v \in Users \ {u} : ~InReq(v, r)
      <3>1. \A r \in RunIds : \A v \in Users : InReq(v, r) => DepOf(r) = 0
        BY ReqKinds DEF InReq
      <3>2. \A r \in RunIds : DepOf(r) = 0 => t[r] = rows[r]
        BY <1>2, <1>7, <2>1 DEF DepIds
      <3> QED  BY <2>2, <3>1, <3>2
    <2>8. RowsRecorded
      <3>1. \A r \in RunIds : t[r] = rows[r] \/ (rows[r] = "none" /\ t[r] = "wait")
        BY <1>7, <1>8, <2>1 DEF Once, UnusedIsNew
      <3>2. \A r \in RunIds : rows'[r] = t[r] \/ rows'[r] = "skip"
        BY <1>2, <1>7, <2>1, AbortFacts
      <3> QED  BY <2>2, <3>1, <3>2 DEF RowsRecorded
    <2>9. DepsRecorded
      BY <2>2 DEF DepsClose, DepsRecorded
    <2> QED  BY <1>1, <2>1, <2>2, <2>3, <2>6, <2>7, <2>8, <2>9, DoneOnce
  <1>11. CASE /\ rows' = made /\ UNCHANGED deps
              /\ down' = down \cup {[k |-> "deploy", by |-> u, dep |-> d, list |-> "deploy", steps |-> DeployRuns(d),
                                     back |-> back]}
              /\ req' = [req EXCEPT ![u] = [req[u] EXCEPT !.st = "sent"]]
    <2> DEFINE m == [k |-> "deploy", by |-> u, dep |-> d, list |-> "deploy", steps |-> DeployRuns(d), back |-> back]
    <2>1. /\ [req[u] EXCEPT !.st = "sent"].kind = req[u].kind /\ [req[u] EXCEPT !.st = "sent"].id = req[u].id
          /\ [req[u] EXCEPT !.st = "sent"].st = "sent"
      BY <1>1, ReqKinds
    <2>2. ReqsGo
      BY <1>1, <1>2, <1>11, <2>1 DEF ReqsGo
    <2>3. \A v \in Users : req[v] # NoReq /\ req[v].kind = "deploy" /\ req[v].st = "asked"
                             => req'[v].st = "asked" /\ deps'[req[v].id].res = deps[req[v].id].res
      BY <1>1, <1>2, <1>11
    <2>4. ReqsShrink /\ UsedStays /\ ReqsApart' /\ \A e \in DepIds : Unsent(e)' => Unsent(e)
      BY <1>1, <1>11, <2>2, <2>3, ReqsWent
    <2>5. ~Unsent(d)'
      BY <1>1, <1>d, <1>2, <1>11, <2>1 DEF Unsent, Once, ReqsApart
    <2>6. \A r \in RunIds : Unused(r)' => rows'[r] = "none"
      BY <1>7, <1>9, <1>11, <2>4, <2>5 DEF UsedStays, UnusedIsNew, Once
    <2>7. \A v \in Users : \A r \in RunIds : InReq(v, r)' => rows'[r] = rows[r]
      <3>1. \A r \in RunIds : \A v \in Users : InReq(v, r) => DepOf(r) = 0
        BY ReqKinds DEF InReq
      <3> QED  BY <1>2, <1>7, <1>11, <2>4, <3>1 DEF DepIds, ReqsShrink
    <2>8. \A r \in RunIds : InMsg(m, r) => DepOf(r) = d /\ Attempt(r, 0)
      <3>1. \A r : r \in Range(back) => DepOf(r) = d /\ NumOf(r) <= Backs
        BY <1>4 DEF ListFor, Range
      <3>2. \A r : r \in Range(DeployRuns(d)) => DepOf(r) = d /\ ListOf(r) = "deploy"
        BY <1>5 DEF ListFor, Range
      <3>3. (0 + 1) * Backs = Backs
        BY StoreAssumption
      <3> QED  BY <3>1, <3>2, <3>3 DEF InMsg, Attempt
    <2>9. m.k = "deploy" /\ m.list = "deploy" /\ m.dep = d /\ m.steps = DeployRuns(d) /\ m.back = back
      OBVIOUS
    <2>10. down' = down \cup {m}
      BY <1>11
    <2>11. \A r \in RunIds : InMsg(m, r) => Unused(r) /\ ~Unused(r)'
      BY <1>8, <1>9, <2>5, <2>8
    <2>12. ListFor(m.steps, m.dep, m.list) /\ ListFor(m.back, m.dep, "rollback")
      BY <1>4, <1>5
    <2> HIDE DEF m
    <2>13. RowsRecorded /\ DepsRecorded
      BY <1>7, <1>8, <1>11 DEF Once, UnusedIsNew, RowsRecorded, DepsRecorded
    <2> QED  BY <1>1, <1>2, <2>13, <2>4, <2>5, <2>6, <2>7, <2>9, <2>10, <2>11, <2>12, NewOrder
  <1> QED  BY <1>3, <1>10, <1>11 DEF made, runs

LEMMA SendRollbackOnce ==
  ASSUME Types, Types', Once, NEW u \in Users, SendRollback(u)
  PROVE  OnceGoes /\ RowsRecorded /\ DepsRecorded
  <1> USE DEF dbVars, superVars, netVars, agentVars, history
  <1>1. UNCHANGED <<task, job, did, reached>> /\ req[u] # NoReq /\ req[u].kind = "rollback" /\ req[u].st = "asked"
    BY DEF SendRollback, NoReq
  <1>d. PICK d \in DepIds : d = req[u].id
    BY <1>1, ReqKinds
  <1>k. PICK k \in 1 .. MaxTry : k = count.try[d] + 1 /\ count.try \in [DepIds -> 0 .. MaxTry]
    BY <1>d, StoreAssumption DEF SendRollback, Types, StoreTypes
  <1>2. /\ k \in 0 .. MaxTry /\ k \in Nat /\ rows \in [RunIds -> RunResults] /\ req \in [Users -> ReqType] /\ deps \in DepRows
        /\ count'.try = [count.try EXCEPT ![d] = k] /\ count'.single = count.single
    BY <1>d, <1>k, StoreAssumption DEF SendRollback, Types, StoreTypes, WayTypes, DepRows
  <1>3. /\ deps' = SetRollbackResult(deps, d, "running")
        /\ rows' = CreateWaitStepRuns(DeleteWaitRuns(rows, d, "rollback"), BackRuns(d, k))
        /\ \/ UNCHANGED down
           \/ down' = down \cup {[k |-> "deploy", by |-> u, dep |-> d, list |-> "rollback", steps |-> BackRuns(d, k),
                                  back |-> <<>>]}
    BY <1>d, <1>k DEF SendRollback
  <1>4. PICK q : /\ req' = [req EXCEPT ![u] = q] /\ q.kind = "rollback" /\ q.id = d /\ q.st \in {"sent", "refused"}
    <2> DEFINE q == [req[u] EXCEPT !.st = IF cut THEN "refused" ELSE "sent", !.conn = link]
    <2>1. req' = [req EXCEPT ![u] = q]
      BY DEF SendRollback, Asked
    <2>2. req[u] \in DepReqType
      BY <1>1 DEF Types, WayTypes, ReqType, RunReqType
    <2>3. q.kind = "rollback" /\ q.id = d /\ q.st \in {"sent", "refused"}
      BY <1>1, <1>d, <2>2 DEF DepReqType
    <2> QED  BY <2>1, <2>3
  <1>5. ReqsGo
    BY <1>1, <1>d, <1>2, <1>4 DEF ReqsGo
  <1>6. \A e \in DepIds : deps'[e].res = deps[e].res
    BY <1>2, <1>3 DEF SetRollbackResult, DepRows
  <1>7. /\ BackRuns(d, k) \in Seq(StepIds) /\ ListFor(BackRuns(d, k), d, "rollback")
        /\ \A r : r \in Range(BackRuns(d, k)) =>
             r \in RunIds /\ DepOf(r) = d /\ ListOf(r) = "rollback" /\ NumOf(r) > k * Backs /\ NumOf(r) <= (k + 1) * Backs
    <2> DEFINE s == BackRuns(d, k)
    <2>1. /\ s \in Seq(StepIds) /\ ListFor(s, d, "rollback")
          /\ \A i \in DOMAIN s : NumOf(s[i]) > k * Backs /\ NumOf(s[i]) <= (k + 1) * Backs
      BY <1>2, BackRunsFacts
    <2> HIDE DEF s
    <2>2. \A i \in DOMAIN s : s[i] \in RunIds /\ DepOf(s[i]) = d /\ ListOf(s[i]) = "rollback"
      BY <2>1 DEF ListFor, StepIds
    <2>3. \A r : r \in Range(s) => \E i \in DOMAIN s : s[i] = r
      BY DEF Range
    <2>4. \A r : r \in Range(s) =>
            r \in RunIds /\ DepOf(r) = d /\ ListOf(r) = "rollback" /\ NumOf(r) > k * Backs /\ NumOf(r) <= (k + 1) * Backs
      BY <2>1, <2>2, <2>3
    <2> QED  BY <2>1, <2>4 DEF s
  <1>8. k * Backs \in Nat /\ (k + 1) * Backs \in Nat /\ k * Backs >= Backs /\ (k + 1) * Backs = k * Backs + Backs
        /\ (0 + 1) * Backs = Backs
    <2>1. /\ (k - 1) \in Nat /\ Backs \in Nat
      BY StoreAssumption
    <2>2. (k - 1) * Backs \in Nat
      BY <2>1
    <2>3. k * Backs = (k - 1) * Backs + Backs /\ (k + 1) * Backs = k * Backs + Backs
      BY <2>1
    <2> QED  BY <2>1, <2>2, <2>3
  <1>9. count.try[d] + 1 = k /\ count'.try[d] + 1 = k + 1
    BY <1>k, <1>2
  <1>10. \A r \in RunIds : r \in Range(BackRuns(d, k)) => ~Attempt(r, 0) /\ Unused(r) /\ ~Unused(r)'
    <2> SUFFICES ASSUME NEW r \in RunIds, r \in Range(BackRuns(d, k)) PROVE ~Attempt(r, 0) /\ Unused(r) /\ ~Unused(r)'
      OBVIOUS
    <2>1. DepOf(r) = d /\ DepOf(r) # 0 /\ ListOf(r) = "rollback" /\ NumOf(r) > k * Backs /\ NumOf(r) <= (k + 1) * Backs
          /\ NumOf(r) \in Nat
      BY <1>7, RunFacts DEF DepIds
    <2>2. ~Attempt(r, 0)
      <3>1. Backs \in Nat
        BY StoreAssumption
      <3>2. ~(NumOf(r) <= (0 + 1) * Backs)
        BY <1>8, <2>1, <3>1
      <3> QED  BY <2>1, <3>2 DEF Attempt
    <2>3. Unused(r) <=> NumOf(r) > (count.try[d] + 1) * Backs
      BY <2>1, <2>2 DEF Unused
    <2>4. Unused(r)' <=> NumOf(r) > (count'.try[d] + 1) * Backs
      BY <2>1, <2>2 DEF Unused, Attempt
    <2> QED  BY <1>8, <1>9, <2>1, <2>2, <2>3, <2>4
  <1>11. \A e \in DepIds : Unsent(e)' => Unsent(e)
    BY <1>1, <1>2, <1>4, <1>6 DEF Unsent, NoReq
  <1>12. UsedStays
    <2> SUFFICES ASSUME NEW r \in RunIds, Unused(r)' PROVE Unused(r)
      BY DEF UsedStays
    <2>0. DepOf(r) # 0 => DepOf(r) \in DepIds
      BY RunFacts
    <2>1. CASE DepOf(r) = 0
      BY <1>2, <2>1 DEF Unused
    <2>2. CASE DepOf(r) # 0 /\ Attempt(r, 0)
      BY <1>11, <2>0, <2>2 DEF Unused, Attempt
    <2>3. CASE DepOf(r) # 0 /\ ~Attempt(r, 0)
      <3>1. Unused(r) <=> NumOf(r) > (count.try[DepOf(r)] + 1) * Backs
        BY <2>3 DEF Unused
      <3>2. Unused(r)' <=> NumOf(r) > (count'.try[DepOf(r)] + 1) * Backs
        BY <2>3 DEF Unused, Attempt
      <3>3. CASE DepOf(r) # d
        BY <1>2, <1>k, <2>0, <2>3, <3>1, <3>2, <3>3
      <3>4. CASE DepOf(r) = d
        <4>1. NumOf(r) \in Nat /\ Backs \in Nat
          BY RunFacts, StoreAssumption
        <4>2. NumOf(r) > (k + 1) * Backs
          BY <1>9, <3>2, <3>4
        <4>3. NumOf(r) > k * Backs
          BY <1>8, <4>1, <4>2
        <4> QED  BY <1>9, <3>1, <3>4, <4>3
      <3> QED  BY <3>3, <3>4
    <2> QED  BY <2>1, <2>2, <2>3
  <1>13. ReqsShrink /\ ReqsApart'
    <2>1. ReqsShrink
      BY <1>1, <1>2, <1>4 DEF ReqsShrink, InReq
    <2>2. \A v \in Users : (req[v] # NoReq /\ req[v].kind = "run" => ~Unused(req[v].id))'
      <3> SUFFICES ASSUME NEW v \in Users, req'[v] # NoReq, req'[v].kind = "run" PROVE ~Unused(req[v].id)'
        OBVIOUS
      <3>1. v # u /\ req'[v] = req[v]
        BY <1>2, <1>4
      <3>2. PICK r \in RunIds : r = req[v].id
        BY <3>1, ReqKinds
      <3>3. ~Unused(r)'
        BY <1>12, <3>1, <3>2 DEF UsedStays, Once, ReqsApart
      <3> QED  BY <3>1, <3>2, <3>3
    <2>3. \A v \in Users : req'[v] # NoReq /\ req'[v].kind = "deploy"
            => v # u /\ req'[v] = req[v] /\ req[v].id \in DepIds
      BY <1>2, <1>4, ReqKinds
    <2>4. \A v \in Users : req'[v] # NoReq /\ req'[v].kind = "deploy"
            => (req'[v].st = "asked" <=> deps'[req'[v].id].res = "none")
      BY <1>6, <2>3 DEF Once, ReqsApart
    <2>5. \A v, w \in Users : /\ v # w /\ req'[v] # NoReq /\ req'[w] # NoReq
                              /\ req'[v].kind = req'[w].kind /\ req'[v].kind # "rollback"
                              => req'[v].id # req'[w].id
      BY <1>2, <1>4 DEF Once, ReqsApart
    <2> QED  BY <2>1, <2>2, <2>4, <2>5 DEF ReqsApart
  <1>14. DeleteWaitRuns(rows, d, "rollback") \in [RunIds -> RunResults]
         /\ \A r \in RunIds : rows[r] # "wait" => DeleteWaitRuns(rows, d, "rollback")[r] = rows[r]
    BY <1>2, RowStatements DEF DeleteWaitRuns, WaitingOf
  <1>15. \A r \in RunIds : rows[r] # "wait" => rows'[r] = rows[r] \/ r \in Range(BackRuns(d, k))
    <2> DEFINE t == DeleteWaitRuns(rows, d, "rollback")
    <2> DEFINE s == BackRuns(d, k)
    <2> HIDE DEF t, s
    <2>1. rows' = CreateWaitStepRuns(t, s)
      BY <1>3 DEF t, s
    <2>2. \A r \in RunIds : rows'[r] = t[r] \/ r \in Range(s)
      BY <2>1 DEF CreateWaitStepRuns, Range
    <2> QED  BY <1>14, <2>2 DEF t, s
  <1>16. \A r \in RunIds : Unused(r)' => rows'[r] = "none"
    BY <1>10, <1>12, <1>15 DEF UsedStays, UnusedIsNew, Once
  <1>17. \A v \in Users : \A r \in RunIds : InReq(v, r)' => rows'[r] = rows[r]
    <2>1. \A r \in RunIds : \A v \in Users : InReq(v, r) => DepOf(r) = 0 /\ rows[r] # "wait"
      BY ReqKinds DEF InReq, Once, ReqIsOpen
    <2> QED  BY <1>7, <1>13, <1>15, <2>1 DEF ReqsShrink, DepIds
  <1> DEFINE m == [k |-> "deploy", by |-> u, dep |-> d, list |-> "rollback", steps |-> BackRuns(d, k), back |-> <<>>]
  <1>18. m.k = "deploy" /\ m.list = "rollback" /\ m.dep = d /\ m.steps = BackRuns(d, k) /\ m.back = <<>>
    OBVIOUS
  <1>19. OrdersShrink \/ down' = down \cup {m}
    BY <1>3 DEF OrdersShrink
  <1> HIDE DEF m
  <1>20. \A r \in RunIds : InMsg(m, r) => Unused(r) /\ ~Unused(r)'
    BY <1>10, <1>18 DEF InMsg, Range
  <1>21. ListFor(m.steps, m.dep, m.list) /\ ListFor(m.back, m.dep, "rollback")
    BY <1>7, <1>18 DEF ListFor
  <1>22. RowsRecorded
    <2> DEFINE t == DeleteWaitRuns(rows, d, "rollback")
    <2> DEFINE s == BackRuns(d, k)
    <2>1. \A r \in RunIds : t[r] = rows[r] \/ (rows[r] = "wait" /\ t[r] = "none")
      BY <1>2 DEF DeleteWaitRuns, WaitingOf
    <2>2. \A r \in RunIds : r \in Range(s) => rows[r] = "none"
      BY <1>10 DEF Once, UnusedIsNew
    <2> HIDE DEF t, s
    <2>3. rows' = CreateWaitStepRuns(t, s)
      BY <1>3 DEF t, s
    <2>4. \A r \in RunIds : rows'[r] = t[r] \/ (rows'[r] = "wait" /\ r \in Range(s))
      BY <2>3 DEF CreateWaitStepRuns, Range
    <2> QED  BY <2>1, <2>2, <2>4 DEF RowsRecorded
  <1>23. DepsRecorded
    BY <1>6 DEF DepsRecorded
  <1> QED  BY <1>1, <1>22, <1>23, <1>11, <1>12, <1>13, <1>16, <1>17, <1>18, <1>19, <1>20, <1>21, NewOrder

LEMMA InitOnce == Init => Once
  <1> SUFFICES ASSUME Init PROVE Once
    OBVIOUS
  <1>1. /\ deps = [d \in DepIds |-> NoDep] /\ rows = [r \in RunIds |-> "none"] /\ req = [u \in Users |-> NoReq] /\ down = {}
        /\ job = NoRun /\ task = NoTask /\ did = [r \in RunIds |-> "none"]
        /\ reached = [d \in DepIds |-> [deploy |-> "none", rollback |-> "none"]]
    BY DEF Init
  <1>2. \A r \in RunIds : ~Held(r) /\ did[r] = "none" /\ rows[r] = "none" /\ \A u \in Users : ~InReq(u, r)
    BY <1>1, RunFacts DEF Held, InTask, InJob, InReq
  <1>3. HeldIsNew /\ HeldIsUsed /\ UnusedIsNew /\ ReqIsOpen
    BY <1>2 DEF HeldIsNew, HeldIsUsed, UnusedIsNew, ReqIsOpen
  <1>4. HeldOnce
    BY <1>1, <1>2 DEF HeldOnce, Held
  <1>5. ListsHeld /\ ReqsApart /\ ReachedOnce
    BY <1>1 DEF ListsHeld, ReqsApart, ReachedOnce, TaskIsFirst
  <1> QED  BY <1>3, <1>4, <1>5 DEF Once

LEMMA OnceStep == Types /\ Types' /\ Once /\ Real /\ [Next]_vars => OnceGoes
  <1> SUFFICES ASSUME Types, Types', Once, Real, [Next]_vars PROVE OnceGoes
    OBVIOUS
  <1>1. CASE AgentNext
    BY <1>1, SessionOnce, StepOnce, JobOnce, OnRunOnce, OnDeployOnce, CancelOnce DEF AgentNext
  <1>2. CASE SupervisorNext
    BY <1>2, SessionOnce, RestartOnce, HeardOnce, AskRunOnce, LookOnce, SendRunOnce, TakeOnce, SendDeployOnce,
       SendRollbackOnce, ReturnOnce, AskDepOnce DEF SupervisorNext
  <1>3. CASE Cut
    BY <1>3, SessionOnce
  <1>4. CASE UNCHANGED vars
    BY <1>4, SameTask, OffStore DEF vars, dbVars, superVars, netVars, agentVars, history, OrdersShrink
  <1> QED  BY <1>1, <1>2, <1>3, <1>4 DEF Next

-----------------------------------------------------------------------------
(* What really happened is not undone, and what is told of it is true.     *)
DidStays == \A r \in RunIds : did[r] # "none" => did'[r] = did[r]
ReachedStays == \A d \in DepIds : reached[d].deploy # "none" => reached'[d].deploy = reached[d].deploy

LEMMA ListReached ==
  ASSUME Types, Once, NEW res \in Ended, task # NoTask, task.pc # "over", ListEnds(res)
  PROVE  ReachedStays
  <1>1. /\ reached' = [reached EXCEPT ![task.dep][ListKind(task)] = res]
        /\ reached \in [DepIds -> [deploy : Maybe, rollback : Maybe]] /\ task.dep \in DepIds
    BY DEF ListEnds, Types, AgentTypes, IsTask, TaskType
  <1>2. ListKind(task) = "deploy" => reached[task.dep].deploy = "none"
    BY DEF ListKind, Once, ReachedOnce, TaskIsFirst
  <1>3. ListKind(task) \in {"deploy", "rollback"}
    BY DEF ListKind
  <1> QED  BY <1>1, <1>2, <1>3 DEF ReachedStays

LEMMA HistoryStays ==
  ASSUME Types, Once, [Next]_vars
  PROVE  DidStays /\ ReachedStays
  <1> USE DEF dbVars, superVars, netVars, agentVars, history
  <1>1. CASE UNCHANGED <<did, reached>>
    BY <1>1 DEF DidStays, ReachedStays
  <1>2. CASE StepCheck
    <2>1. UNCHANGED did /\ task.pc = "check" /\ task # NoTask
      BY <1>2 DEF StepCheck, NoTask
    <2>2. UNCHANGED reached \/ \E res \in Ended : ListEnds(res)
      BY <1>2 DEF StepCheck, Ended
    <2> QED  BY <2>1, <2>2, ListReached DEF DidStays, ReachedStays
  <1>3. CASE StepFails
    <2>1. task.pc = "begin" /\ task # NoTask /\ ListEnds("fail") /\ did' = [did EXCEPT ![Head(task.todo)] = "fail"]
      BY <1>3 DEF StepFails, NoTask, Ends
    <2>2. Head(task.todo) \in RunIds /\ InTask(Head(task.todo))
      BY <2>1, RangeFacts DEF Types, AgentTypes, IsTask, TaskType, StepIds, InTask
    <2>3. did[Head(task.todo)] = "none"
      BY <2>2 DEF Once, HeldIsNew, Held
    <2>4. ReachedStays
      BY <2>1, ListReached DEF Ended
    <2> QED  BY <2>1, <2>2, <2>3, <2>4 DEF DidStays, Types, AgentTypes
  <1>4. ASSUME NEW res \in Ended, JobEnds(res) PROVE DidStays /\ ReachedStays
    <2>1. job \in RunIds /\ did' = [did EXCEPT ![job] = res]
      BY <1>4, RunFacts DEF JobEnds, Ends, Types, AgentTypes
    <2>2. InJob(job) \/ (InTask(job) /\ task.pc = "run" /\ task # NoTask)
      <3>1. CASE DepOf(job) = 0
        BY <3>1 DEF InJob
      <3>2. CASE DepOf(job) # 0
        <4>1. task.pc = "run" /\ task # NoTask /\ job # NoRun
          BY <2>1, <3>2, RunFacts DEF Types, AgentTypes, StepIds, NoTask
        <4>2. job = Head(task.todo) /\ task.todo # <<>> /\ task.todo \in Seq(StepIds)
          BY <4>1 DEF Once, ListsHeld, Types, AgentTypes, IsTask, TaskType
        <4> QED  BY <4>1, <4>2, RangeFacts DEF InTask
      <3> QED  BY <3>1, <3>2
    <2>3. did[job] = "none"
      BY <2>1, <2>2 DEF Once, HeldIsNew, Held
    <2>4. ReachedStays
      <3>1. UNCHANGED reached \/ (DepOf(job) # 0 /\ ListEnds(res))
        BY <1>4 DEF JobEnds
      <3>2. DepOf(job) # 0 => task.pc = "run" /\ task # NoTask
        BY <2>1 DEF Types, AgentTypes, StepIds, NoTask
      <3> QED  BY <3>1, <3>2, ListReached DEF ReachedStays
    <2> QED  BY <2>1, <2>3, <2>4 DEF DidStays, Types, AgentTypes
  <1>5. ASSUME NEW m \in down, OnDeploy(m) PROVE DidStays /\ ReachedStays
    <2>1. UNCHANGED did /\ (UNCHANGED reached \/ reached' = [reached EXCEPT ![m.dep][m.list] = "none"]) /\ m.k = "deploy"
      BY <1>5 DEF OnDeploy
    <2>2. m.dep \in DepIds /\ m.list \in Lists /\ reached \in [DepIds -> [deploy : Maybe, rollback : Maybe]]
      BY <2>1 DEF Types, WayTypes, AgentTypes, OrderType, CallType, CancelType
    <2>3. m.list = "deploy" => reached[m.dep].deploy = "none"
      BY <2>1 DEF Once, ReachedOnce, IsFirst
    <2> QED  BY <2>1, <2>2, <2>3 DEF DidStays, ReachedStays, Lists
  <1>6. CASE AgentNext
    <2>1. CASE Dial \/ Connected \/ UpdaterNotices \/ UpdaterRestarts \/ StepBegin \/ FinishDeploy
      BY <1>1, <2>1 DEF Dial, Connected, UpdaterNotices, UpdaterRestarts, StepBegin, FinishDeploy
    <2>2. ASSUME NEW f \in Flushers, FlushStart(f) \/ FlushNext(f) PROVE DidStays /\ ReachedStays
      BY <1>1, <2>2 DEF FlushStart, FlushNext
    <2>3. ASSUME NEW m \in down, OnRun(m) \/ OnCancel(m) PROVE DidStays /\ ReachedStays
      BY <1>1, <2>3 DEF OnRun, OnCancel
    <2> QED  BY <1>2, <1>3, <1>4, <1>5, <1>6, <2>1, <2>2, <2>3 DEF AgentNext
  <1>7. CASE SupervisorNext
    <2>1. CASE Hello \/ ServeEnds \/ SupervisorRestarts \/ OnStepStart \/ OnEnd \/ OnDeployEnd
      BY <1>1, <2>1 DEF Hello, ServeEnds, SupervisorRestarts, OnStepStart, OnEnd, OnDeployEnd
    <2>2. ASSUME NEW u \in Users, AskRun(u) \/ LookRun(u) \/ SendRun(u) \/ TakeDeploy(u) \/ SendDeploy(u)
                   \/ RefuseRollback(u) \/ SendRollback(u) \/ CallReturns(u)
                   \/ \E d \in DepIds : AskDeploy(u, d) \/ AskRollback(u, d)
          PROVE DidStays /\ ReachedStays
      BY <1>1, <2>2 DEF AskRun, LookRun, SendRun, TakeDeploy, SendDeploy, RefuseRollback, SendRollback, CallReturns,
         AskDeploy, AskRollback
    <2>3. ASSUME NEW d \in DepIds, CancelDeploy(d) PROVE DidStays /\ ReachedStays
      BY <1>1, <2>3 DEF CancelDeploy
    <2>4. ASSUME NEW r \in RunIds, CancelRun(r) PROVE DidStays /\ ReachedStays
      BY <1>1, <2>4 DEF CancelRun
    <2> QED  BY <1>7, <2>1, <2>2, <2>3, <2>4 DEF SupervisorNext
  <1>8. CASE Cut \/ UNCHANGED vars
    BY <1>1, <1>8 DEF Cut, vars
  <1> QED  BY <1>6, <1>7, <1>8 DEF Next

LEMMA TruthStays ==
  ASSUME DidStays, ReachedStays
  PROVE  /\ \A e \in EndType : EndIsTrue(e) => EndIsTrue(e)'
         /\ \A e \in DepEndType : DepEndIsTrue(e) => DepEndIsTrue(e)'
         /\ \A m \in UpType : MsgIsTrue(m) => MsgIsTrue(m)'
         /\ \A s \in FlushType : FlushIsTrue(s) => FlushIsTrue(s)'
  <1>1. \A e \in EndType : EndIsTrue(e) => EndIsTrue(e)'
    BY DEF EndIsTrue, DidStays, EndType, Ended
  <1>2. \A e \in DepEndType : DepEndIsTrue(e) => DepEndIsTrue(e)'
    BY DEF DepEndIsTrue, ReachedStays, DepEndType
  <1>3. \A m \in UpType : MsgIsTrue(m) => MsgIsTrue(m)'
    <2> SUFFICES ASSUME NEW m \in UpType, MsgIsTrue(m) PROVE MsgIsTrue(m)'
      OBVIOUS
    <2>1. (m.k = "ends" => m.e \in EndType) /\ (m.k = "deps" => m.e \in DepEndType)
      BY DEF UpType
    <2> QED  BY <1>1, <1>2, <2>1 DEF MsgIsTrue
  <1>4. \A s \in FlushType : FlushIsTrue(s) => FlushIsTrue(s)'
    <2> SUFFICES ASSUME NEW s \in FlushType, FlushIsTrue(s) PROVE FlushIsTrue(s)'
      OBVIOUS
    <2>1. /\ s.st \in {"ends", "endAcked"} => s.todo \in Seq(EndType)
          /\ s.st \in {"deps", "depAcked"} => s.todo \in Seq(DepEndType)
      BY DEF FlushType, EndsFlush, DepsFlush, Idle
    <2>2. /\ s.st \in {"ends", "endAcked"} => Range(s.todo) \subseteq EndType
          /\ s.st \in {"deps", "depAcked"} => Range(s.todo) \subseteq DepEndType
      BY <2>1, RangeFacts
    <2> QED  BY <1>1, <1>2, <2>2 DEF FlushIsTrue
  <1> QED  BY <1>1, <1>2, <1>3, <1>4

FlushRests == \A f \in Flushers : flush'[f] = flush[f] \/ flush'[f].st \in {"idle", "start"}

LEMMA WayQuiet ==
  ASSUME Types, WayIsTrue, DidStays, ReachedStays,
         Range(ends') \subseteq Range(ends), Range(dends') \subseteq Range(dends),
         \A m \in Range(up') : m \in Range(up) \/ m.k = "start", FlushRests
  PROVE  WayIsTrue'
  <1>1. /\ Range(ends) \subseteq EndType /\ Range(dends) \subseteq DepEndType /\ Range(up) \subseteq UpType
        /\ \A f \in Flushers : flush[f] \in FlushType
    BY RangeFacts DEF Types, WayTypes
  <1>2. \A e \in Range(ends') : EndIsTrue(e)'
    BY <1>1, TruthStays DEF WayIsTrue
  <1>3. \A e \in Range(dends') : DepEndIsTrue(e)'
    BY <1>1, TruthStays DEF WayIsTrue
  <1>4. \A m \in Range(up') : MsgIsTrue(m)'
    <2>1. \A m \in Range(up) : MsgIsTrue(m)'
      BY <1>1, TruthStays DEF WayIsTrue
    <2> QED  BY <2>1 DEF MsgIsTrue
  <1>5. \A f \in Flushers : FlushIsTrue(flush[f])'
    <2> SUFFICES ASSUME NEW f \in Flushers PROVE FlushIsTrue(flush[f])'
      OBVIOUS
    <2>1. PICK s \in FlushType : s = flush[f] /\ FlushIsTrue(s)
      BY <1>1 DEF WayIsTrue
    <2>2. FlushIsTrue(s)'
      BY <2>1, TruthStays
    <2>3. CASE flush'[f] = s
      BY <2>2, <2>3
    <2>4. CASE flush'[f].st \in {"idle", "start"}
      BY <2>4 DEF FlushIsTrue
    <2> QED  BY <2>1, <2>3, <2>4 DEF FlushRests
  <1> QED  BY <1>2, <1>3, <1>4, <1>5 DEF WayIsTrue

LEMMA SpawnRests ==
  ASSUME Types, SpawnFlush
  PROVE  FlushRests
  BY DEF SpawnFlush, FlushRests, Types, WayTypes

LEMMA PrefixRange ==
  ASSUME NEW S, NEW q \in Seq(S), NEW n \in 0 .. Len(q)
  PROVE  Range(SubSeq(q, 1, n)) \subseteq Range(q)
  <1>1. DOMAIN SubSeq(q, 1, n) = 1 .. n /\ \A i \in 1 .. n : SubSeq(q, 1, n)[i] = q[i] /\ i \in DOMAIN q
    OBVIOUS
  <1> DEFINE t == SubSeq(q, 1, n)
  <1> HIDE DEF t
  <1>2. Range(t) \subseteq Range(q)
    BY <1>1 DEF Range, t
  <1> QED  BY <1>2 DEF t

LEMMA NoRange == Range(<<>>) = {}
  BY DEF Range

LEMMA QuietWay ==
  ASSUME Types, WayIsTrue, DidStays, ReachedStays,
         \/ Dial \/ Connected \/ UpdaterNotices \/ UpdaterRestarts \/ Cut \/ ServeEnds \/ SupervisorRestarts
         \/ StepCheck \/ StepBegin \/ Hello \/ OnStepStart \/ UNCHANGED <<up, ends, dends, flush>>
  PROVE  WayIsTrue'
  <1> USE DEF dbVars, superVars, netVars, agentVars, history
  <1>0. up \in Seq(UpType)
    BY DEF Types, WayTypes
  <1>1. Range(ends') \subseteq Range(ends) /\ Range(dends') \subseteq Range(dends)
    BY NoRange DEF Dial, Connected, UpdaterNotices, UpdaterRestarts, Cut, ServeEnds, SupervisorRestarts, StepCheck, StepBegin,
           Hello, OnStepStart
  <1>2. FlushRests
    <2>1. CASE UNCHANGED flush
      BY <2>1 DEF FlushRests
    <2>2. CASE Connected
      <3>1. PICK g \in Flushers :
              flush' = [f \in Flushers |-> IF f = g THEN [st |-> "start", todo |-> <<>>] ELSE Idle]
        BY <2>2 DEF Connected
      <3> QED  BY <3>1 DEF FlushRests, Idle
    <2>3. CASE UpdaterNotices \/ UpdaterRestarts
      BY <2>3 DEF UpdaterNotices, UpdaterRestarts, FlushRests, Idle
    <2> QED  BY <2>1, <2>2, <2>3 DEF Dial, Cut, ServeEnds, SupervisorRestarts, StepCheck, StepBegin, Hello, OnStepStart
  <1>3. \A m \in Range(up') : m \in Range(up) \/ m.k = "start"
    <2>1. CASE UNCHANGED up \/ up' = <<>>
      BY <2>1, NoRange
    <2>2. CASE Cut
      BY <1>0, <2>2, PrefixRange DEF Cut
    <2>3. CASE OnStepStart
      BY <1>0, <2>3, RangeFacts DEF OnStepStart, Received
    <2>4. CASE StepCheck /\ up' # up
      <3>1. up' = Append(up, [k |-> "start", dep |-> task.dep, run |-> Head(task.todo)]) /\ task.todo # <<>> /\ task # NoTask
        BY <2>4 DEF StepCheck, Emitted, NoTask
      <3>2. task.dep \in DepIds /\ Head(task.todo) \in RunIds
        BY <3>1, RangeFacts DEF Types, AgentTypes, IsTask, TaskType, StepIds
      <3>3. PICK m \in UpType : m = [k |-> "start", dep |-> task.dep, run |-> Head(task.todo)]
        BY <3>2 DEF UpType
      <3>4. up' = Append(up, m) /\ m.k = "start"
        BY <3>1, <3>3
      <3> QED  BY <1>0, <3>4, RangeFacts
    <2> QED  BY <2>1, <2>2, <2>3, <2>4 DEF Dial, Connected, UpdaterNotices, UpdaterRestarts, ServeEnds, SupervisorRestarts,
                StepCheck, StepBegin, Hello
  <1> QED  BY <1>1, <1>2, <1>3, WayQuiet

LEMMA EndsWay ==
  ASSUME Types, Types', Once, WayIsTrue, DidStays, ReachedStays, StepFails \/ FinishDeploy \/ \E res \in Ended : JobEnds(res)
  PROVE  WayIsTrue'
  <1> USE DEF dbVars, superVars, netVars, agentVars, history
  <1>1. FlushRests /\ UNCHANGED up
    BY SpawnRests DEF StepFails, FinishDeploy, JobEnds, Ends
  <1>2. /\ Range(ends) \subseteq EndType /\ Range(dends) \subseteq DepEndType /\ ends \in Seq(EndType) /\ dends \in Seq(DepEndType)
        /\ did \in [RunIds -> Maybe]
    BY RangeFacts DEF Types, WayTypes, AgentTypes
  <1>3. CASE FinishDeploy
    <2>1. PICK e : /\ dends' = Append(dends, e) /\ e.dep = task.dep /\ e.list = task.list /\ e.res = task.res
                   /\ UNCHANGED <<ends, reached, did>> /\ task.pc = "over"
      <3> DEFINE e == [dep |-> task.dep, list |-> task.list, res |-> task.res, rb |-> task.rb, inst |-> installed']
      <3>1. dends' = Append(dends, e) /\ UNCHANGED <<ends, reached, did>> /\ task.pc = "over"
        BY <1>3 DEF FinishDeploy
      <3> QED  BY <3>1
    <2>2. IsTask(task) /\ task # NoTask /\ task.phase \in {"list", "back"}
      BY <2>1 DEF Types, AgentTypes, NoTask, IsTask, TaskType
    <2>3. e.list = "deploy" /\ e.res = "ok" => reached[e.dep].deploy = "ok"
      BY <2>1, <2>2 DEF Once, ReachedOnce, TaskIsFirst, IsTask
    <2>4. DepEndIsTrue(e)'
      BY <2>1, <2>3 DEF DepEndIsTrue
    <2>5. e \in DepEndType
      <3>1. dends' \in Seq(DepEndType)
        BY DEF Types, WayTypes
      <3>2. e = dends'[Len(dends) + 1] /\ Len(dends) + 1 \in DOMAIN dends'
        BY <1>2, <2>1
      <3> QED  BY <3>1, <3>2
    <2>6. Range(dends') = Range(dends) \cup {e}
      BY <1>2, <2>1, <2>5, RangeFacts
    <2>7. \A x \in Range(dends') : DepEndIsTrue(x)'
      BY <1>2, <2>4, <2>6, TruthStays DEF WayIsTrue
    <2>8. (\A x \in Range(ends) : EndIsTrue(x))' /\ (\A m \in Range(up) : MsgIsTrue(m))'
      BY <1>1, <2>1 DEF WayIsTrue, MsgIsTrue, EndIsTrue, DepEndIsTrue
    <2>9. \A f \in Flushers : FlushIsTrue(flush[f])'
      BY <1>1, <2>1 DEF WayIsTrue, FlushRests, FlushIsTrue, EndIsTrue, DepEndIsTrue
    <2> QED  BY <2>7, <2>8, <2>9 DEF WayIsTrue
  <1>4. CASE StepFails \/ \E res \in Ended : JobEnds(res)
    <2>1. PICK r, res : Ends(r, res)
      BY <1>4 DEF StepFails, JobEnds
    <2>2. PICK e : ends' = Append(ends, e) /\ e = [run |-> r, res |-> res] /\ did' = [did EXCEPT ![r] = res] /\ UNCHANGED dends
      BY <1>4, <2>1 DEF Ends, StepFails, JobEnds
    <2>3. e \in EndType
      <3>1. ends' \in Seq(EndType)
        BY DEF Types, WayTypes
      <3>2. e = ends'[Len(ends) + 1] /\ Len(ends) + 1 \in DOMAIN ends'
        BY <1>2, <2>2
      <3> QED  BY <3>1, <3>2
    <2>4. r \in RunIds /\ EndIsTrue(e)'
      BY <1>2, <2>2, <2>3 DEF EndIsTrue, EndType
    <2>5. Range(ends') = Range(ends) \cup {e}
      BY <1>2, <2>2, <2>3, RangeFacts
    <2>6. \A x \in Range(ends') : EndIsTrue(x)'
      BY <1>2, <2>4, <2>5, TruthStays DEF WayIsTrue
    <2>7. \A x \in Range(dends') : DepEndIsTrue(x)'
      BY <1>2, <2>2, TruthStays DEF WayIsTrue
    <2>8. /\ \A m \in Range(up) : m \in UpType
          /\ \A f \in Flushers : flush[f] \in FlushType
      BY RangeFacts DEF Types, WayTypes
    <2>9. \A m \in Range(up') : MsgIsTrue(m)'
      BY <1>1, <2>8, TruthStays DEF WayIsTrue
    <2>10. \A f \in Flushers : FlushIsTrue(flush[f])'
      <3> SUFFICES ASSUME NEW f \in Flushers PROVE FlushIsTrue(flush[f])'
        OBVIOUS
      <3>1. PICK s \in FlushType : s = flush[f] /\ FlushIsTrue(s)
        BY <2>8 DEF WayIsTrue
      <3>2. FlushIsTrue(s)'
        BY <3>1, TruthStays
      <3>3. CASE flush'[f] = s
        BY <3>2, <3>3
      <3>4. CASE flush'[f].st \in {"idle", "start"}
        BY <3>4 DEF FlushIsTrue
      <3> QED  BY <1>1, <3>1, <3>3, <3>4 DEF FlushRests
    <2> QED  BY <2>6, <2>7, <2>9, <2>10 DEF WayIsTrue
  <1> QED  BY <1>3, <1>4

LEMMA SettledTrue ==
  ASSUME WayIsTrue, NEW st \in {"ends", "deps"}, NEW todo,
         st = "ends" => \A e \in Range(todo) : EndIsTrue(e),
         st = "deps" => \A e \in Range(todo) : DepEndIsTrue(e)
  PROVE  FlushIsTrue(Settled(st, todo))
  BY DEF Settled, FlushIsTrue, WayIsTrue, Idle

LEMMA SendsTrue ==
  ASSUME Types, WayIsTrue, UNCHANGED <<did, reached>>,
         NEW f \in Flushers, NEW s \in FlushType, FlushIsTrue(s), Sends(f, s), s = Idle \/ s.st \in {"ends", "deps"}
  PROVE  /\ \A m \in Range(up') : MsgIsTrue(m)'
         /\ \A g \in Flushers : FlushIsTrue(flush[g])'
  <1>1. up \in Seq(UpType) /\ flush \in [Flushers -> FlushType]
    BY DEF Types, WayTypes
  <1>2. \A m : MsgIsTrue(m)' <=> MsgIsTrue(m')
    BY DEF MsgIsTrue, EndIsTrue, DepEndIsTrue
  <1>3. \A g \in Flushers : FlushIsTrue(flush[g])'
    <2>1. \A x : FlushIsTrue(x) => FlushIsTrue(x)'
      BY DEF FlushIsTrue, EndIsTrue, DepEndIsTrue
    <2>2. \A g \in Flushers : flush'[g] = s \/ flush'[g] = flush[g]
      BY <1>1 DEF Sends
    <2>3. \A g \in Flushers : \A x : x = flush'[g] => FlushIsTrue(x)
      BY <2>2 DEF WayIsTrue
    <2> QED  BY <2>1, <2>3
  <1>4. CASE s = Idle \/ cut
    <2>1. up' = up
      BY <1>4 DEF Sends
    <2>2. \A m \in Range(up) : MsgIsTrue(m)'
      BY <1>2, <2>1 DEF WayIsTrue, MsgIsTrue, EndIsTrue, DepEndIsTrue
    <2> QED  BY <1>3, <2>1, <2>2
  <1>5. CASE s # Idle /\ ~cut
    <2>1. (s \in EndsFlush /\ s.st = "ends") \/ (s \in DepsFlush /\ s.st = "deps")
      BY <1>5 DEF FlushType, EndsFlush, DepsFlush, Idle
    <2>2. PICK m : m = [k |-> s.st, e |-> Head(s.todo), f |-> f] /\ up' = Append(up, m)
      BY <1>5 DEF Sends
    <2>3. m \in UpType /\ m.e \in Range(s.todo) /\ m.k = s.st
      <3>1. CASE s \in EndsFlush /\ s.st = "ends"
        <4>1. s.todo \in Seq(EndType) /\ s.todo # <<>>
          BY <3>1 DEF EndsFlush
        <4>2. Head(s.todo) \in EndType /\ Head(s.todo) \in Range(s.todo)
          BY <4>1, RangeFacts
        <4> QED  BY <2>2, <3>1, <4>2 DEF UpType
      <3>2. CASE s \in DepsFlush /\ s.st = "deps"
        <4>1. s.todo \in Seq(DepEndType) /\ s.todo # <<>>
          BY <3>2 DEF DepsFlush
        <4>2. Head(s.todo) \in DepEndType /\ Head(s.todo) \in Range(s.todo)
          BY <4>1, RangeFacts
        <4> QED  BY <2>2, <3>2, <4>2 DEF UpType
      <3> QED  BY <2>1, <3>1, <3>2
    <2>4. MsgIsTrue(m)
      BY <2>1, <2>3 DEF FlushIsTrue, MsgIsTrue
    <2>5. Range(up') = Range(up) \cup {m}
      BY <1>1, <2>2, <2>3, RangeFacts
    <2> QED  BY <1>2, <1>3, <2>4, <2>5 DEF WayIsTrue
  <1> QED  BY <1>3, <1>4, <1>5

LEMMA FlushWay ==
  ASSUME Types, WayIsTrue, NEW f \in Flushers, FlushStart(f) \/ FlushNext(f)
  PROVE  WayIsTrue'
  <1> USE DEF dbVars, superVars, netVars, history
  <1>1. UNCHANGED <<did, reached>>
    BY DEF FlushStart, FlushNext
  <1>2. PICK s \in FlushType : /\ FlushIsTrue(s) /\ Sends(f, s) /\ (s = Idle \/ s.st \in {"ends", "deps"})
                               /\ Range(ends') \subseteq Range(ends) /\ Range(dends') \subseteq Range(dends)
    <2>1. CASE FlushStart(f)
      <3> DEFINE s == Settled("ends", ends)
      <3>1. s \in FlushType /\ (s = Idle \/ s.st \in {"ends", "deps"}) /\ FlushIsTrue(s)
        BY SettledTyped, SettledTrue DEF Types, WayTypes, WayIsTrue
      <3>2. Sends(f, s) /\ UNCHANGED <<ends, dends>>
        BY <2>1 DEF FlushStart
      <3> QED  BY <3>1, <3>2
    <2>2. CASE FlushNext(f) /\ FlushOn(f)
      <3> DEFINE e == Head(flush[f].todo)
      <3> DEFINE isEnd == flush[f].st = "endAcked"
      <3> DEFINE s == Settled(IF isEnd THEN "ends" ELSE "deps", Tail(flush[f].todo))
      <3>1. /\ flush[f].st \in {"endAcked", "depAcked"} /\ Sends(f, s)
            /\ ends' = IF isEnd THEN Without(ends, e) ELSE ends
            /\ dends' = IF isEnd THEN dends ELSE Without(dends, e)
        BY <2>2 DEF FlushNext, FlushOn
      <3>2. Range(ends') \subseteq Range(ends) /\ Range(dends') \subseteq Range(dends)
        BY <3>1, WithoutFacts DEF Types, WayTypes
      <3>3. (isEnd => flush[f] \in EndsFlush) /\ (~isEnd => flush[f] \in DepsFlush)
        BY <3>1 DEF Types, WayTypes, FlushType, EndsFlush, DepsFlush, Idle
      <3>4. FlushIsTrue(flush[f])
        BY DEF WayIsTrue
      <3>5. isEnd => /\ Tail(flush[f].todo) \in Seq(EndType) /\ Range(Tail(flush[f].todo)) \subseteq Range(flush[f].todo)
                     /\ \A x \in Range(Tail(flush[f].todo)) : EndIsTrue(x)
        <4> SUFFICES ASSUME isEnd PROVE /\ Tail(flush[f].todo) \in Seq(EndType)
                                        /\ Range(Tail(flush[f].todo)) \subseteq Range(flush[f].todo)
                                        /\ \A x \in Range(Tail(flush[f].todo)) : EndIsTrue(x)
          OBVIOUS
        <4>1. flush[f].todo \in Seq(EndType) /\ flush[f].todo # <<>>
          BY <3>3 DEF EndsFlush
        <4>2. Range(Tail(flush[f].todo)) \subseteq Range(flush[f].todo) /\ Tail(flush[f].todo) \in Seq(EndType)
          BY <4>1, RangeFacts
        <4> QED  BY <3>4, <4>2 DEF FlushIsTrue
      <3>6. ~isEnd => /\ Tail(flush[f].todo) \in Seq(DepEndType) /\ Range(Tail(flush[f].todo)) \subseteq Range(flush[f].todo)
                      /\ \A x \in Range(Tail(flush[f].todo)) : DepEndIsTrue(x)
        <4> SUFFICES ASSUME ~isEnd PROVE /\ Tail(flush[f].todo) \in Seq(DepEndType)
                                         /\ Range(Tail(flush[f].todo)) \subseteq Range(flush[f].todo)
                                         /\ \A x \in Range(Tail(flush[f].todo)) : DepEndIsTrue(x)
          OBVIOUS
        <4>1. flush[f].todo \in Seq(DepEndType) /\ flush[f].todo # <<>>
          BY <3>3 DEF DepsFlush
        <4>2. Range(Tail(flush[f].todo)) \subseteq Range(flush[f].todo) /\ Tail(flush[f].todo) \in Seq(DepEndType)
          BY <4>1, RangeFacts
        <4>3. flush[f].st = "depAcked"
          BY <3>1
        <4> QED  BY <3>4, <4>2, <4>3 DEF FlushIsTrue
      <3>7. s \in FlushType /\ (s = Idle \/ s.st \in {"ends", "deps"})
        BY <3>5, <3>6, SettledTyped
      <3>8. FlushIsTrue(s)
        BY <3>5, <3>6, SettledTrue
      <3> HIDE DEF s, e, isEnd
      <3> QED  BY <3>1, <3>2, <3>7, <3>8
    <2>3. CASE FlushNext(f) /\ FlushGaveUp(f)
      <3>1. Sends(f, Idle) /\ UNCHANGED <<ends, dends>> /\ Idle \in FlushType /\ FlushIsTrue(Idle)
        BY <2>3 DEF FlushGaveUp, FlushType, FlushIsTrue, Idle
      <3> QED  BY <3>1
    <2> QED  BY <2>1, <2>2, <2>3 DEF FlushNext
  <1>3. (\A e \in Range(ends) : EndIsTrue(e))' /\ (\A e \in Range(dends) : DepEndIsTrue(e))'
    BY <1>1, <1>2 DEF WayIsTrue, EndIsTrue, DepEndIsTrue
  <1>4. (\A m \in Range(up') : MsgIsTrue(m)') /\ \A g \in Flushers : FlushIsTrue(flush[g])'
    BY <1>1, <1>2, SendsTrue
  <1> QED  BY <1>3, <1>4 DEF WayIsTrue

\* What is heard of a result changes only the flusher that waits for it.
AckedAs(x, y) ==
  y.todo = x.todo /\ ((x.st = "ends" /\ y.st = "endAcked") \/ (x.st = "deps" /\ y.st = "depAcked"))

LEMMA AckMoves ==
  ASSUME Types, OnEnd \/ OnDeployEnd
  PROVE  /\ \A g \in Flushers : flush'[g] = flush[g] \/ AckedAs(flush[g], flush'[g])
         /\ OnDeployEnd /\ ~cut => \E g \in Flushers : flush'[g].st = "depAcked"
  <1>1. up # <<>> /\ up \in Seq(UpType) /\ Head(up) \in UpType
    BY RangeFacts DEF OnEnd, OnDeployEnd, Received, Types, WayTypes
  <1>2. CASE cut
    BY <1>2 DEF OnEnd, OnDeployEnd, Acked
  <1>3. CASE ~cut
    <2>1. Head(up) = up[1] /\ 1 \in DOMAIN up
      BY <1>1
    <2>2. Head(up).k \in {"ends", "deps"} /\ (OnDeployEnd => Head(up).k = "deps")
      BY DEF OnEnd, OnDeployEnd, Received
    <2>3. WaitsFor(Head(up)) /\ Head(up).f \in Flushers
      BY <1>1, <1>3, <2>1, <2>2 DEF Types, ChanTypes, UpType
    <2>4. PICK m : m = Head(up) /\ m.f \in Flushers /\ flush[m.f].st = m.k
      BY <2>3 DEF WaitsFor
    <2>5. \/ m.k = "ends" /\ flush' = Acked(m, "endAcked")
          \/ m.k = "deps" /\ flush' = Acked(m, "depAcked")
      BY <2>4 DEF OnEnd, OnDeployEnd, Received
    <2>6. flush \in [Flushers -> FlushType] /\ flush[m.f] # Idle /\ flush[m.f] \in EndsFlush \cup DepsFlush
      <3>1. flush \in [Flushers -> FlushType] /\ flush[m.f] \in FlushType
        BY <2>4 DEF Types, WayTypes
      <3>2. flush[m.f].st \in {"ends", "deps"}
        BY <2>2, <2>4
      <3>3. flush[m.f] # Idle
        BY <3>2 DEF Idle
      <3>4. flush[m.f] \in EndsFlush \cup DepsFlush
        BY <3>1, <3>2, <3>3 DEF FlushType
      <3> QED  BY <3>1, <3>3, <3>4
    <2>7. flush' = [flush EXCEPT ![m.f].st = IF m.k = "ends" THEN "endAcked" ELSE "depAcked"]
      BY <2>2, <2>4, <2>5, <2>6, <1>3 DEF Acked
    <2>8. /\ flush'[m.f].todo = flush[m.f].todo
          /\ flush'[m.f].st = IF m.k = "ends" THEN "endAcked" ELSE "depAcked"
      BY <2>4, <2>6, <2>7 DEF EndsFlush, DepsFlush
    <2> QED  BY <2>2, <2>4, <2>6, <2>7, <2>8 DEF AckedAs
  <1> QED  BY <1>2, <1>3

LEMMA AckWay ==
  ASSUME Types, Types', WayIsTrue, OnEnd \/ OnDeployEnd
  PROVE  WayIsTrue'
  <1> USE DEF dbVars, superVars, netVars, agentVars, history
  <1>1. UNCHANGED <<did, reached, ends, dends, cut>> /\ up # <<>> /\ up' = Tail(up) /\ up \in Seq(UpType)
    BY DEF OnEnd, OnDeployEnd, Received, Types, WayTypes
  <1>2. Range(up') \subseteq Range(up) /\ Head(up) \in UpType
    BY <1>1, RangeFacts
  <1>3. \A g \in Flushers : flush'[g] = flush[g] \/ AckedAs(flush[g], flush'[g])
    BY AckMoves
  <1>4. \A g \in Flushers : FlushIsTrue(flush[g])'
    BY <1>1, <1>3 DEF AckedAs, FlushIsTrue, WayIsTrue, EndIsTrue, DepEndIsTrue
  <1>5. (\A e \in Range(ends) : EndIsTrue(e))' /\ (\A e \in Range(dends) : DepEndIsTrue(e))' /\ (\A m \in Range(up) : MsgIsTrue(m))'
    BY <1>1, <1>2 DEF WayIsTrue, EndIsTrue, DepEndIsTrue, MsgIsTrue
  <1> QED  BY <1>4, <1>5 DEF WayIsTrue

-----------------------------------------------------------------------------
(* Only what really happened is recorded, and once.                        *)
LEMMA RunRecorded ==
  ASSUME Types, Once, NEW u \in Users, AskRun(u) \/ LookRun(u) \/ SendRun(u)
  PROVE  RowsRecorded /\ DepsRecorded
  <1>1. UNCHANGED <<deps, did, reached>> /\ rows \in [RunIds -> RunResults]
    BY DEF AskRun, LookRun, SendRun, history, Types, StoreTypes
  <1>2. CASE AskRun(u)
    <2>1. /\ count.single \in 0 .. MaxSingle /\ count.single < MaxSingle
      BY <1>2 DEF AskRun, Types, StoreTypes
    <2>2. PICK n \in 1 .. MaxSingle : n = count.single + 1
      BY <2>1, StoreAssumption
    <2>3. PICK s \in RunIds : s = SingleRun(n) /\ DepOf(s) = 0 /\ NumOf(s) = n
      BY SingleFacts
    <2>4. rows[s] = "none"
      <3>1. Unused(s)
        BY <2>1, <2>2, <2>3 DEF Unused
      <3> QED  BY <3>1 DEF Once, UnusedIsNew
    <2>5. rows' = [rows EXCEPT ![s] = "running"]
      BY <1>2, <2>2, <2>3 DEF AskRun, CreateStepRun
    <2> QED  BY <1>1, <2>4, <2>5 DEF RowsRecorded, DepsRecorded
  <1>3. CASE LookRun(u) \/ SendRun(u)
    <2>1. req[u] # NoReq /\ req[u].st \in {"made", "looked"}
      BY <1>3 DEF LookRun, SendRun, NoReq
    <2>2. PICK s \in RunIds : s = req[u].id /\ InReq(u, s)
      BY <2>1, ReqKinds DEF InReq
    <2>3. rows[s] \in {"running", "cancel"}
      BY <2>2 DEF Once, ReqIsOpen
    <2>4. UNCHANGED rows \/ rows' = FinishStepRun(rows, s, "cancel") \/ rows' = Finished(s, "fail")
      BY <1>3, <2>2 DEF LookRun, SendRun, RunTaken
    <2> QED  BY <1>1, <2>3, <2>4 DEF RowsRecorded, DepsRecorded, Finished, Unfinished, FinishStepRun
  <1> QED  BY <1>2, <1>3

LEMMA DeployRecorded ==
  ASSUME Types, Once, NEW u \in Users, TakeDeploy(u) \/ CallReturns(u)
  PROVE  RowsRecorded /\ DepsRecorded
  <1>1. rows \in [RunIds -> RunResults] /\ deps \in DepRows
    BY DEF Types, StoreTypes, DepRows
  <1>2. CASE TakeDeploy(u)
    <2>1. UNCHANGED rows /\ req[u] # NoReq /\ req[u].kind = "deploy" /\ req[u].st = "asked"
      BY <1>2 DEF TakeDeploy, NoReq
    <2>2. PICK d \in DepIds : d = req[u].id /\ deps[d].res = "none"
      BY <2>1, ReqKinds DEF Once, ReqsApart
    <2>3. /\ \A e \in DepIds : e # d => deps'[e].res = deps[e].res
          /\ deps'[d].res \in {"running", "cancel"}
      BY <1>1, <1>2, <2>2 DEF TakeDeploy, CreateDeployment, FinishDeployment, DepRows
    <2> QED  BY <2>1, <2>2, <2>3 DEF RowsRecorded, DepsRecorded
  <1>3. CASE CallReturns(u)
    <2>1. CASE req[u].kind = "run"
      <3>1. UNCHANGED deps /\ rows' = Finished(req[u].id, "fail")
        BY <1>3, <2>1 DEF CallReturns
      <3> QED  BY <1>1, <3>1 DEF RowsRecorded, DepsRecorded, Finished, Unfinished, FinishStepRun
    <2>2. CASE req[u].kind # "run"
      <3>1. RowsClose(rows, rows') /\ DepsClose(deps, deps')
        BY <1>1, <1>3, <2>2, AbortFacts DEF CallReturns
      <3> QED  BY <3>1 DEF RowsClose, DepsClose, RowsRecorded, DepsRecorded
    <2> QED  BY <2>1, <2>2
  <1> QED  BY <1>2, <1>3

LEMMA Recorded ==
  ASSUME Types, Types', Once, Real, [Next]_vars
  PROVE  RowsRecorded /\ DepsRecorded
  <1> USE DEF dbVars, superVars, netVars, agentVars, history
  <1>1. CASE UNCHANGED <<rows, deps>>
    BY <1>1 DEF RowsRecorded, DepsRecorded
  <1>2. CASE AgentNext
    <2>1. CASE Dial \/ Connected \/ UpdaterNotices \/ UpdaterRestarts \/ StepCheck \/ StepBegin \/ StepFails \/ FinishDeploy
      BY <1>1, <2>1 DEF Dial, Connected, UpdaterNotices, UpdaterRestarts, StepCheck, StepBegin, StepFails, FinishDeploy
    <2>2. CASE (\E res \in Ended : JobEnds(res)) \/ (\E f \in Flushers : FlushStart(f) \/ FlushNext(f))
      BY <1>1, <2>2 DEF JobEnds, FlushStart, FlushNext
    <2>3. CASE \E m \in down : OnRun(m) \/ OnDeploy(m) \/ OnCancel(m)
      BY <1>1, <2>3 DEF OnRun, OnDeploy, OnCancel
    <2> QED  BY <1>2, <2>1, <2>2, <2>3 DEF AgentNext
  <1>3. CASE SupervisorNext
    <2>1. CASE ServeEnds \/ SupervisorRestarts \/ (\E d \in DepIds : CancelDeploy(d)) \/ (\E r \in RunIds : CancelRun(r))
      BY <1>1, <2>1 DEF ServeEnds, SupervisorRestarts, CancelDeploy, CancelRun
    <2>2. CASE Hello \/ OnStepStart \/ OnEnd \/ OnDeployEnd
      <3>1. RowsHeard /\ DepsHeard
        BY <2>2, HeardOnce
      <3> QED  BY <3>1 DEF RowsHeard, DepsHeard, RowsRecorded, DepsRecorded
    <2>3. ASSUME NEW u \in Users, RefuseRollback(u) \/ \E d \in DepIds : AskDeploy(u, d) \/ AskRollback(u, d)
          PROVE  RowsRecorded /\ DepsRecorded
      BY <1>1, <2>3 DEF RefuseRollback, AskDeploy, AskRollback
    <2>4. ASSUME NEW u \in Users, AskRun(u) \/ LookRun(u) \/ SendRun(u) \/ TakeDeploy(u) \/ SendDeploy(u)
                                    \/ SendRollback(u) \/ CallReturns(u)
          PROVE  RowsRecorded /\ DepsRecorded
      BY <2>4, RunRecorded, DeployRecorded, SendDeployOnce, SendRollbackOnce
    <2> QED  BY <1>3, <2>1, <2>2, <2>3, <2>4 DEF SupervisorNext
  <1>4. CASE Cut \/ UNCHANGED vars
    BY <1>1, <1>4 DEF Cut, vars
  <1> QED  BY <1>2, <1>3, <1>4 DEF Next

LEMMA WayStep ==
  ASSUME Types, Types', Once, WayIsTrue, [Next]_vars
  PROVE  WayIsTrue'
  <1> USE DEF dbVars, superVars, netVars, agentVars, history
  <1>0. DidStays /\ ReachedStays
    BY HistoryStays
  <1>1. CASE UNCHANGED <<up, ends, dends, flush>>
    BY <1>0, <1>1, QuietWay
  <1>2. CASE AgentNext
    <2>1. CASE Dial \/ Connected \/ UpdaterNotices \/ UpdaterRestarts \/ StepCheck \/ StepBegin
      BY <1>0, <2>1, QuietWay
    <2>2. CASE StepFails \/ FinishDeploy \/ \E res \in Ended : JobEnds(res)
      BY <1>0, <2>2, EndsWay
    <2>3. CASE \E f \in Flushers : FlushStart(f) \/ FlushNext(f)
      BY <2>3, FlushWay
    <2>4. CASE \E m \in down : OnRun(m) \/ OnDeploy(m) \/ OnCancel(m)
      BY <1>1, <2>4 DEF OnRun, OnDeploy, OnCancel
    <2> QED  BY <1>2, <2>1, <2>2, <2>3, <2>4 DEF AgentNext
  <1>3. CASE SupervisorNext
    <2>1. CASE ServeEnds \/ SupervisorRestarts \/ Hello \/ OnStepStart
      BY <1>0, <2>1, QuietWay
    <2>2. CASE OnEnd \/ OnDeployEnd
      BY <2>2, AckWay
    <2>3. ASSUME NEW u \in Users, AskRun(u) \/ LookRun(u) \/ SendRun(u) \/ TakeDeploy(u) \/ SendDeploy(u)
                   \/ RefuseRollback(u) \/ SendRollback(u) \/ CallReturns(u)
                   \/ \E d \in DepIds : AskDeploy(u, d) \/ AskRollback(u, d)
          PROVE WayIsTrue'
      BY <1>1, <2>3 DEF AskRun, LookRun, SendRun, TakeDeploy, SendDeploy, RefuseRollback, SendRollback, CallReturns,
         AskDeploy, AskRollback
    <2>4. CASE (\E d \in DepIds : CancelDeploy(d)) \/ (\E r \in RunIds : CancelRun(r))
      BY <1>1, <2>4 DEF CancelDeploy, CancelRun
    <2> QED  BY <1>3, <2>1, <2>2, <2>3, <2>4 DEF SupervisorNext
  <1>4. CASE Cut
    BY <1>0, <1>4, QuietWay
  <1>5. CASE UNCHANGED vars
    BY <1>1, <1>5 DEF vars
  <1> QED  BY <1>2, <1>3, <1>4, <1>5 DEF Next

LEMMA RealStep == Types /\ Types' /\ Once /\ Real /\ [Next]_vars => Real'
  <1> SUFFICES ASSUME Types, Types', Once, Real, [Next]_vars PROVE Real'
    OBVIOUS
  <1>1. DidStays /\ ReachedStays /\ RowsRecorded /\ DepsRecorded
    BY HistoryStays, Recorded
  <1>2. WayIsTrue'
    BY WayStep DEF Real
  <1>3. RecordsAreTrue'
    BY <1>1 DEF RecordsAreTrue, Real, DidStays, ReachedStays, RowsRecorded, DepsRecorded
  <1> QED  BY <1>2, <1>3 DEF Real

LEMMA InitReal == Init => Real
  <1> SUFFICES ASSUME Init PROVE Real
    OBVIOUS
  <1>1. up = <<>> /\ ends = <<>> /\ dends = <<>> /\ flush = [f \in Flushers |-> Idle]
    BY DEF Init
  <1>2. WayIsTrue
    BY <1>1, NoRange DEF WayIsTrue, FlushIsTrue, Idle
  <1>3. RecordsAreTrue
    BY DEF Init, RecordsAreTrue, NoDep
  <1> QED  BY <1>2, <1>3 DEF Real

LEMMA Invariant == Spec => [](Types /\ Once /\ Real)
  <1> DEFINE I == Types /\ Once /\ Real
  <1>1. Init => I
    BY InitTypes, InitOnce, InitReal
  <1>2. I /\ [Next]_vars => I'
    <2> SUFFICES ASSUME Types, Once, Real, [Next]_vars PROVE Types' /\ Once' /\ Real'
      OBVIOUS
    <2>1. Types'
      BY TypesStep
    <2> QED  BY <2>1, OnceStep, RealStep DEF OnceGoes
  <1> HIDE DEF I
  <1>3. Spec => []I
    BY <1>1, <1>2, PTL DEF Spec
  <1> QED  BY <1>3 DEF I

(* Every part of the state keeps the kind of value the code gives it,      *)
(* whatever is lost, sent twice or cut.                                    *)
THEOREM DeploysTyped == Spec => []TypeOK
  <1>1. Types => TypeOK
    BY DEF Types, StoreTypes, LinkTypes, FlagTypes, AgentTypes, TypeOK
  <1> QED  BY <1>1, Invariant, PTL

(* A run that has ended on the machine is never run again, though requests *)
(* are sent twice, answers are lost and both sides restart.                *)
THEOREM RunOnce == Spec => [][\A r \in RunIds : did[r] # "none" => did'[r] = did[r]]_vars
  <1>1. Types /\ Once /\ [Next]_vars => [\A r \in RunIds : did[r] # "none" => did'[r] = did[r]]_vars
    BY HistoryStays DEF DidStays
  <1> QED  BY <1>1, Invariant, PTL DEF Spec

(* What the supervisor shows as done was done: a run recorded as ok ended  *)
(* well on the machine, a deployment recorded as ok reached its end well.  *)
THEOREM DoneWasDone ==
  Spec => [](/\ \A r \in RunIds : rows[r] = "ok" => did[r] = "ok"
             /\ \A d \in DepIds : deps[d].res = "ok" => reached[d].deploy = "ok")
  <1>1. Real => /\ \A r \in RunIds : rows[r] = "ok" => did[r] = "ok"
                /\ \A d \in DepIds : deps[d].res = "ok" => reached[d].deploy = "ok"
    BY DEF Real, RecordsAreTrue
  <1> QED  BY <1>1, Invariant, PTL

(* The result recorded of a run or of a deployment is never written anew,  *)
(* also when the updater tells it again or a request fails late.           *)
THEOREM ResultsStay ==
  Spec => [][/\ \A r \in RunIds : rows[r] \in Ended \cup {"skip"} => rows'[r] = rows[r]
             /\ \A d \in DepIds : deps[d].res \in Ended => deps'[d].res = deps[d].res]_vars
  <1>1. Types /\ Once /\ Real /\ Types' /\ [Next]_vars =>
          [/\ \A r \in RunIds : rows[r] \in Ended \cup {"skip"} => rows'[r] = rows[r]
           /\ \A d \in DepIds : deps[d].res \in Ended => deps'[d].res = deps[d].res]_vars
    <2> SUFFICES ASSUME Types, Once, Real, Types', [Next]_vars
                 PROVE  /\ \A r \in RunIds : rows[r] \in Ended \cup {"skip"} => rows'[r] = rows[r]
                        /\ \A d \in DepIds : deps[d].res \in Ended => deps'[d].res = deps[d].res
      OBVIOUS
    <2>1. RowsRecorded /\ DepsRecorded
      BY Recorded
    <2> QED  BY <2>1 DEF RowsRecorded, DepsRecorded, Ended
  <1> QED  BY <1>1, Invariant, PTL DEF Spec

-----------------------------------------------------------------------------
(* Marks: with these windows shut a mark stands for all that is going on.  *)
(* At each moment at most one of these is under way: a request that has    *)
(* taken the mark, its order, the deployment that runs, or the end still   *)
(* to be told; and the row of that deployment waits for it.                *)
Marked == Windows \cap {"answer", "hello", "dup", "stale", "outlive", "tardy"} = {}

IsOrder(m) == m \in down /\ m.k = "deploy"
IsCall(m) == m \in down /\ m.k = "run"
Asks(u, kind) == req[u] # NoReq /\ req[u].kind = kind
HasUp(e) == \E m \in Range(up) : m.k = "deps" /\ m.e = e
HasFlush(f, e) == flush[f].st \in {"deps", "depAcked"} /\ e \in Range(flush[f].todo)
Pending(e) == e \in Range(dends) \/ HasUp(e) \/ \E f \in Flushers : HasFlush(f, e)
NonePending == \A e \in DepEndType : ~Pending(e)

Going(row, list) ==
  IF list = "deploy" THEN row.res = "running" /\ row.back \in {"none", "running"}
  ELSE row.res \in Ended /\ row.back = "running"
Undone(e) == IF e.list = "rollback" THEN e.res = "ok" ELSE e.rb = "ok"

(* Links and requests on them.                                             *)
LinksKnown ==
  /\ link <= last /\ (hello = "no" <=> link = 0)
  /\ hello \in {"added", "leaked"} => uconn = 0 /\ up = <<>>
ReqLinked(u) ==
  req[u] # NoReq =>
    /\ req[u].conn <= last
    /\ req[u].kind # "rollback" => req[u].conn # 0
    /\ hello \in {"added", "leaked"} => req[u].conn # link
    /\ req[u].st = "sent" => req[u].conn = link /\ ~cut /\ hello = "done"
    /\ req[u].kind = "rollback" => deps[req[u].id].res \in Ended
ReqsLinked == \A u \in Users : ReqLinked(u)
ReqsMarked ==
  /\ \A u, v \in Users : u # v /\ Asks(u, "rollback") /\ Asks(v, "rollback") => FALSE
  /\ \A u \in Users : Asks(u, "deploy") /\ req[u].st = "marked" /\ req[u].conn = link /\ link # 0
       => mark.dep = req[u].id /\ Going(deps[req[u].id], "deploy")
CallFits(m) ==
  IF m.k = "run" THEN req[m.by].kind = "run" /\ req[m.by].id = m.run
  ELSE req[m.by].kind = m.list /\ req[m.by].id = m.dep
CallsFit == ~cut => \A m \in down : m.k # "cancel" => CallFits(m)
OrdersGo ==
  /\ \A m, n \in down : m.k = "deploy" /\ n.k = "deploy" => m = n
  /\ \A m \in down : m.k = "deploy" =>
       /\ IF link = 0 THEN cut ELSE ~cut /\ hello = "done"
       /\ task = NoTask /\ NonePending
       /\ Going(deps[m.dep], m.list)
       /\ hello = "done" => mark.dep = m.dep
TaskMarked ==
  task # NoTask =>
    /\ NonePending
    /\ Going(deps[task.dep], task.list)
    /\ hello = "done" => mark.dep = task.dep
    /\ hello = "added" => told.deps = <<task.dep>>
    /\ task.pc # "over" => task.rb = "none" /\ (task.phase = "list" => task.res = "none")
    /\ task.pc = "over" /\ Undone(task) => reached[task.dep].rollback = "ok"
PendingOnce ==
  /\ \A e, g \in DepEndType : Pending(e) /\ Pending(g) => e = g
  /\ Len(dends) <= 1
  /\ hello = "done" /\ ~cut /\ dends # <<>> => mark.dep = dends[1].dep \/ \E f \in Flushers : flush[f].st = "depAcked"
  /\ hello = "added" /\ dends # <<>> => told.deps = <<dends[1].dep>>
Told(row, e) ==
  /\ Undone(e) => row.back = "ok"
  /\ e.list = "deploy" => row.res \in Ended
  /\ ~Undone(e) /\ (e.list = "rollback" \/ e.rb # "none") => row.back # "ok"
PendingTrue ==
  \A e \in DepEndType : Pending(e) =>
    /\ ~Unsent(e.dep)
    /\ Undone(e) => reached[e.dep].rollback = "ok"
    /\ Going(deps[e.dep], e.list) \/ Told(deps[e.dep], e)
Refusals ==
  \A u \in Users : req[u] # NoReq /\ req[u].st = "refused" /\ req[u].kind # "run" =>
    /\ task # NoTask => task.dep # req[u].id
    /\ \A m \in down : m.k = "deploy" => m.dep # req[u].id
    /\ \A e \in DepEndType : Pending(e) /\ e.dep = req[u].id =>
         req[u].kind = "rollback" /\ (req[u].conn = link => cut) /\ ~Undone(e)
    /\ req[u].kind = "rollback" => deps[req[u].id].back # "ok"
UndoneRows ==
  /\ \A d \in DepIds : deps[d].back = "ok" =>
       /\ reached[d].rollback = "ok"
       /\ \A r \in RunIds : DepOf(r) = d /\ ListOf(r) = "rollback" => rows[r] # "wait"
  /\ \A d \in DepIds : Unsent(d) => deps[d].back # "ok"
Undoing(d) ==
  \/ task # NoTask /\ task.list = "rollback" /\ task.dep = d
  \/ \E m \in down : m.k = "deploy" /\ m.list = "rollback" /\ m.dep = d
NewestGoes ==
  \A d \in DepIds : Undoing(d) =>
    /\ \A e \in d + 1 .. MaxDep : Placed(e) => deps[e].back = "ok"
    /\ \A u \in Users : req[u] # NoReq =>
         /\ req[u].kind = "deploy" => req[u].id # d
         /\ req[u].kind = "rollback" => req[u].st # "refused"
RunRefused(u, r) == Asks(u, "run") /\ req[u].st = "refused" /\ req[u].id = r
FailsTrue ==
  /\ \A r \in RunIds : rows[r] = "fail" => did[r] \in {"none", "fail"}
  /\ \A r \in RunIds : rows[r] = "fail" /\ did[r] = "none" => ~Held(r)
  /\ \A u \in Users, r \in RunIds : RunRefused(u, r) => did[r] = "none" /\ ~Held(r)

\* A link is known by the last connection made.
LEMMA LinksStep ==
  ASSUME Types, LinksKnown, [Next]_vars
  PROVE  LinksKnown'
  <1> USE DEF dbVars, superVars, netVars, agentVars, history
  <1>00. up \in Seq(UpType)
    BY DEF Types, WayTypes
  <1>0. /\ link \in 0 .. MaxConn /\ last \in 0 .. MaxConn /\ link <= last /\ (hello = "no" <=> link = 0)
        /\ hello \in {"added", "leaked"} => uconn = 0 /\ up = <<>> /\ \A f \in Flushers : flush[f] = Idle
    BY DEF Types, LinkTypes, ChanTypes, LinksKnown
  <1>1. CASE UNCHANGED <<link, last, hello>>
    <2>1. CASE hello \notin {"added", "leaked"}
      BY <1>0, <1>1, <2>1 DEF LinksKnown
    <2>2. CASE hello \in {"added", "leaked"} /\ UNCHANGED <<uconn, up>>
      BY <1>0, <1>1, <2>2 DEF LinksKnown
    <2>3. CASE hello \in {"added", "leaked"} /\ ~UNCHANGED <<uconn, up>>
      <3>1. (uconn' = 0 /\ UNCHANGED up) \/ Cut \/ StepCheck \/ \E f \in Flushers : FlushStart(f) \/ FlushNext(f)
        <4>1. CASE AgentNext
          BY <1>0, <1>1, <2>3, <4>1 DEF AgentNext, Dial, Connected, UpdaterNotices, UpdaterRestarts, StepBegin,
             StepFails, FinishDeploy, JobEnds, OnRun, OnDeploy, OnCancel
        <4>2. CASE SupervisorNext
          <5>1. CASE Hello \/ ServeEnds \/ SupervisorRestarts
            BY <1>0, <1>1, <2>3, <5>1 DEF Hello, ServeEnds, SupervisorRestarts, Removed
          <5>2. CASE OnStepStart \/ OnEnd \/ OnDeployEnd
            BY <2>3, <5>2 DEF OnStepStart, OnEnd, OnDeployEnd, Received
          <5>3. CASE UNCHANGED <<uconn, up>>
            BY <2>3, <5>3
          <5> QED  BY <4>2, <5>1, <5>2, <5>3 DEF SupervisorNext, AskRun, LookRun, SendRun, TakeDeploy, SendDeploy,
                RefuseRollback, SendRollback, CallReturns, AskDeploy, AskRollback, CancelDeploy, CancelRun
        <4> QED  BY <2>3, <4>1, <4>2 DEF Next, vars
      <3>2. CASE Cut
        <4>1. up' = <<>> /\ uconn' = uconn
          <5>1. PICK n \in 0 .. Len(up) : up' = SubSeq(up, 1, n)
            BY <1>00, <3>2 DEF Cut
          <5>2. n = 0 /\ up = <<>>
            BY <1>0, <2>3, <5>1
          <5> QED  BY <3>2, <5>1, <5>2 DEF Cut
        <4>2. UNCHANGED <<uconn, up>>
          BY <1>0, <2>3, <4>1
        <4> QED  BY <2>3, <4>2
      <3>3. CASE StepCheck
        BY <1>0, <1>1, <2>3, <3>3 DEF StepCheck, Emitted, LinksKnown
      <3>4. ASSUME NEW f \in Flushers, FlushStart(f) \/ FlushNext(f) PROVE FALSE
        BY <1>0, <2>3, <3>4 DEF FlushStart, FlushNext, Idle
      <3> QED  BY <1>0, <1>1, <2>3, <3>1, <3>2, <3>3, <3>4 DEF LinksKnown
    <2> QED  BY <2>1, <2>2, <2>3
  <1>2. CASE ~UNCHANGED <<link, last, hello>>
    <2>1. Dial \/ Hello \/ ServeEnds \/ SupervisorRestarts
      BY <1>2 DEF Next, AgentNext, SupervisorNext, Cut, Connected, UpdaterNotices, UpdaterRestarts, StepCheck, StepBegin,
           StepFails, FinishDeploy, JobEnds, FlushStart, FlushNext, OnRun, OnDeploy, OnCancel, OnStepStart,
           OnEnd, OnDeployEnd, AskRun, LookRun, SendRun, TakeDeploy, SendDeploy, RefuseRollback, SendRollback,
           CallReturns, AskDeploy, AskRollback, CancelDeploy, CancelRun, vars
    <2>2. CASE Dial
      BY <1>0, <2>2 DEF Dial, Connecting, LinksKnown
    <2>3. CASE Hello
      BY <1>0, <2>3 DEF Hello, LinksKnown
    <2>4. CASE ServeEnds
      <3>1. hello' = "leaked" => hello = "added"
        BY <1>0, <2>4 DEF ServeEnds, Removed, Types, LinkTypes
      <3> QED  BY <1>0, <2>4, <3>1 DEF ServeEnds, Removed, LinksKnown
    <2>5. CASE SupervisorRestarts
      BY <1>0, <2>5 DEF SupervisorRestarts, LinksKnown
    <2> QED  BY <2>1, <2>2, <2>3, <2>4, <2>5
  <1> QED  BY <1>1, <1>2

\* What a link and the requests on it look like does not change by itself.
LEMMA ReqsLinkedStep ==
  ASSUME Types, Types', Once, Real, Marked, LinksKnown, ReqsLinked, [Next]_vars
  PROVE  ReqsLinked'
  <1> USE DEF dbVars, superVars, netVars, agentVars, history
  <1>0. /\ req \in [Users -> ReqType] /\ link \in 0 .. MaxConn /\ last \in 0 .. MaxConn /\ link <= last
        /\ (hello = "no" <=> link = 0) /\ hello \in {"no", "added", "done", "leaked"} /\ cut \in BOOLEAN
    BY DEF Types, WayTypes, LinkTypes, FlagTypes, LinksKnown
  <1>1. /\ \A u \in Users : req[u] # NoReq /\ req[u].kind = "rollback" => req[u].id \in DepIds
        /\ \A d \in DepIds : deps[d].res \in Ended => deps'[d].res \in Ended
    BY ReqKinds, Recorded DEF DepsRecorded, Ended
  <1>2. \A u \in Users : ReqLinked(u)
    BY DEF ReqsLinked
  <1>c. \A u \in Users : req[u] # NoReq => req[u].conn \in 0 .. MaxConn
    BY <1>0 DEF ReqType, RunReqType, DepReqType
  <1>3. ASSUME UNCHANGED <<link, hello, cut, last>>, NEW u \in Users, req'[u] = req[u]
        PROVE  ReqLinked(u)'
    BY <1>0, <1>1, <1>2, <1>3 DEF ReqLinked
  <1>4. ASSUME UNCHANGED <<link, hello, cut, last>>, NEW u \in Users, req[u] # NoReq,
               req'[u].conn = req[u].conn, req'[u].kind = req[u].kind, req'[u].id = req[u].id, req'[u].st # "sent"
        PROVE  ReqLinked(u)'
    BY <1>0, <1>1, <1>2, <1>4 DEF ReqLinked
  <1>5. ASSUME NEW u \in Users, req'[u] = NoReq
        PROVE  ReqLinked(u)'
    BY <1>5 DEF ReqLinked
  <1>6. ASSUME UNCHANGED <<link, hello, cut, last>>, hello = "done", NEW u \in Users,
               req'[u].conn = link, (req'[u].kind = "rollback" => deps'[req'[u].id].res \in Ended),
               (req'[u].st = "sent" => ~cut)
        PROVE  ReqLinked(u)'
    <2>1. /\ link # 0 /\ req'[u].conn <= last' /\ req'[u].conn # 0 /\ hello' \notin {"added", "leaked"}
          /\ req'[u].conn = link' /\ hello' = "done"
      BY <1>0, <1>6
    <2>2. (req'[u].st = "sent" => ~cut') /\ (req'[u].kind = "rollback" => deps'[req'[u].id].res \in Ended)
      BY <1>6
    <2> QED  BY <2>1, <2>2 DEF ReqLinked
  <1>7. CASE UNCHANGED <<req, link, hello, cut, last>>
    BY <1>3, <1>7 DEF ReqsLinked
  <1>8. CASE AgentNext
    <2>1. CASE Dial
      <3>1. hello = "no" /\ last' = last + 1 /\ link' = last + 1 /\ UNCHANGED req
        BY <1>0, <2>1 DEF Dial
      <3>2. \A u \in Users : req[u] # NoReq => req[u].st # "sent"
        BY <1>2, <3>1 DEF ReqLinked
      <3> QED  BY <1>0, <1>1, <1>2, <1>c, <3>1, <3>2 DEF ReqLinked, ReqsLinked
    <2>2. CASE UpdaterRestarts
      BY <1>0, <1>1, <1>2, <2>2 DEF UpdaterRestarts, MayCut, Marked, ReqLinked, ReqsLinked
    <2>3. CASE \E m \in down : OnRun(m) \/ OnDeploy(m)
      <3>1. PICK m \in down : (req' = req \/ req' = Taken(m) \/ req' = Refused(m)) /\ UNCHANGED <<link, hello, cut, last>>
                              /\ m.k # "cancel"
        BY <2>3 DEF OnRun, OnDeploy
      <3>2. CASE cut
        BY <1>3, <3>1, <3>2 DEF Taken, Refused, ReqsLinked
      <3>3. CASE ~cut
        <4>1. m.by \in Users /\ req[m.by] # NoReq
          BY <3>1, <3>3 DEF Types, CallTypes, WayTypes, OrderType, CallType, CancelType, NoReq
        <4>2. \A u \in Users \ {m.by} : req'[u] = req[u]
          BY <1>0, <3>1 DEF Taken, Refused
        <4>3. req'[m.by] = req[m.by] \/ req'[m.by] = NoReq \/ req'[m.by] = [req[m.by] EXCEPT !.st = "refused"]
          BY <1>0, <3>1, <3>3, <4>1 DEF Taken, Refused
        <4>4. ReqLinked(m.by)'
          <5>1. CASE req'[m.by] = [req[m.by] EXCEPT !.st = "refused"]
            <6>1. /\ req'[m.by].conn = req[m.by].conn /\ req'[m.by].kind = req[m.by].kind
                  /\ req'[m.by].id = req[m.by].id /\ req'[m.by].st # "sent"
              BY <4>1, <5>1, ReqKinds
            <6> QED  BY <1>4, <3>1, <4>1, <6>1
          <5> QED  BY <1>3, <1>5, <3>1, <4>1, <4>3, <5>1
        <4> QED  BY <1>3, <3>1, <4>2, <4>4 DEF ReqsLinked
      <3> QED  BY <3>2, <3>3
    <2> QED  BY <1>7, <1>8, <2>1, <2>2, <2>3 DEF AgentNext, Connected, UpdaterNotices, StepCheck, StepBegin, StepFails,
               FinishDeploy, JobEnds, FlushStart, FlushNext, OnCancel
  <1>9. CASE SupervisorNext
    <2>1. CASE Hello \/ ServeEnds \/ SupervisorRestarts
      <3>1. CASE Hello
        BY <1>0, <1>1, <1>2, <3>1 DEF Hello, ReqLinked, ReqsLinked
      <3>2. CASE ServeEnds
        <4>1. \A u \in Users : req[u] # NoReq => req[u].st # "sent"
          BY <1>2, <3>2 DEF ServeEnds, ReqLinked
        <4> QED  BY <1>0, <1>1, <1>2, <3>2, <4>1 DEF ServeEnds, Removed, ReqLinked, ReqsLinked
      <3>3. CASE SupervisorRestarts
        BY <1>5, <3>3 DEF SupervisorRestarts, ReqsLinked
      <3> QED  BY <2>1, <3>1, <3>2, <3>3
    <2>2. ASSUME NEW u \in Users,
                 \/ AskRun(u) \/ LookRun(u) \/ SendRun(u) \/ TakeDeploy(u) \/ SendDeploy(u)
                 \/ RefuseRollback(u) \/ SendRollback(u) \/ CallReturns(u)
                 \/ \E d \in DepIds : AskDeploy(u, d) \/ AskRollback(u, d)
          PROVE  ReqsLinked'
      <3>1. UNCHANGED <<link, hello, cut, last>> /\ \A v \in Users \ {u} : req'[v] = req[v]
        BY <1>0, <2>2 DEF AskRun, LookRun, SendRun, TakeDeploy, SendDeploy, RefuseRollback, SendRollback, CallReturns,
             AskDeploy, AskRollback, Asked, Done, RunTaken, Aborted
      <3>2. CASE req'[u] = NoReq
        BY <1>3, <1>5, <3>1, <3>2 DEF ReqsLinked
      <3>3. CASE req'[u] # NoReq
        <4>1. CASE LookRun(u) \/ TakeDeploy(u) \/ RefuseRollback(u) \/ CallReturns(u)
          <5>1. req[u] # NoReq
            BY <4>1 DEF LookRun, TakeDeploy, RefuseRollback, CallReturns, CallFails, NoReq
          <5>2. \E s \in {"looked", "marked"} : req'[u] = [req[u] EXCEPT !.st = s]
            BY <1>0, <3>3, <4>1 DEF LookRun, TakeDeploy, RefuseRollback, CallReturns, Asked, Done, RunTaken, Aborted
          <5>3. /\ req'[u].conn = req[u].conn /\ req'[u].kind = req[u].kind /\ req'[u].id = req[u].id
                /\ req'[u].st # "sent"
            BY <5>1, <5>2, ReqKinds
          <5>4. ReqLinked(u)'
            BY <1>4, <3>1, <5>1, <5>3
          <5> QED  BY <1>3, <3>1, <5>4 DEF ReqsLinked
        <4>2. CASE SendRun(u) \/ SendDeploy(u)
          <5>1. req[u] # NoReq /\ req[u].kind # "rollback"
            BY <4>2, ReqKinds DEF SendRun, SendDeploy, NoReq
          <5>2. Callable(u) /\ req'[u] = [req[u] EXCEPT !.st = "sent"]
            BY <1>0, <3>3, <4>2 DEF SendRun, SendDeploy, RunTaken, Aborted, Asked, Done
          <5>3. hello = "done" /\ req[u].conn = link /\ ~cut
            BY <1>0, <1>2, <5>1, <5>2 DEF Callable, Alive, ReqLinked
          <5>4. req'[u].conn = link /\ req'[u].kind # "rollback"
            BY <5>1, <5>2, <5>3, ReqKinds
          <5>5. ReqLinked(u)'
            BY <1>6, <3>1, <5>3, <5>4
          <5> QED  BY <1>3, <3>1, <5>5 DEF ReqsLinked
        <4>3. CASE SendRollback(u)
          <5>1. /\ hello = "done" /\ req[u] # NoReq /\ req[u].kind = "rollback"
                /\ req'[u] = [req[u] EXCEPT !.st = IF cut THEN "refused" ELSE "sent", !.conn = link]
            BY <1>0, <4>3 DEF SendRollback, Online, Marked, Asked, NoReq
          <5>2. req'[u].conn = link /\ req'[u].kind = "rollback" /\ req'[u].id = req[u].id
                /\ (req'[u].st = "sent" => ~cut)
            BY <1>0, <5>1 DEF ReqType, RunReqType, DepReqType
          <5>3. deps'[req'[u].id].res \in Ended
            BY <1>1, <1>2, <5>1, <5>2 DEF ReqLinked
          <5>4. ReqLinked(u)'
            BY <1>6, <3>1, <5>1, <5>2, <5>3
          <5> QED  BY <1>3, <3>1, <5>4 DEF ReqsLinked
        <4>4. CASE AskRun(u) \/ \E d \in DepIds : AskDeploy(u, d)
          <5>1. hello = "done" /\ req'[u].conn = link /\ req'[u].kind # "rollback" /\ req'[u].st # "sent"
            BY <1>0, <4>4 DEF AskRun, AskDeploy, Online, Marked, Asked
          <5>2. ReqLinked(u)'
            BY <1>6, <3>1, <5>1
          <5> QED  BY <1>3, <3>1, <5>2 DEF ReqsLinked
        <4>5. CASE \E d \in DepIds : AskRollback(u, d)
          <5>1. PICK d \in DepIds : deps[d].res \in Ended /\ UNCHANGED deps
                                    /\ req'[u] = [st |-> "asked", kind |-> "rollback", id |-> d, conn |-> 0]
            BY <1>0, <4>5 DEF AskRollback, MayRollback, Asked
          <5>2. ReqLinked(u)'
            BY <1>0, <3>1, <5>1 DEF ReqLinked
          <5> QED  BY <1>3, <3>1, <5>2 DEF ReqsLinked
        <4> QED  BY <2>2, <4>1, <4>2, <4>3, <4>4, <4>5
      <3> QED  BY <3>2, <3>3
    <2>3. CASE OnStepStart \/ OnEnd \/ OnDeployEnd \/ (\E d \in DepIds : CancelDeploy(d)) \/ \E r \in RunIds : CancelRun(r)
      BY <1>7, <2>3 DEF OnStepStart, OnEnd, OnDeployEnd, CancelDeploy, CancelRun
    <2> QED  BY <1>9, <2>1, <2>2, <2>3 DEF SupervisorNext
  <1>10. CASE Cut
    BY <1>0, <1>1, <1>2, <1>10 DEF Cut, MayCut, Marked, ReqLinked, ReqsLinked
  <1>11. CASE UNCHANGED vars
    BY <1>7, <1>11 DEF vars
  <1> QED  BY <1>8, <1>9, <1>10, <1>11 DEF Next

\* A call the connection carries is about what its request asks for.
LEMMA CallsFitStep ==
  ASSUME Types, CallsFit, [Next]_vars
  PROVE  CallsFit'
  <1> USE DEF dbVars, superVars, netVars, agentVars, history
  <1>0. req \in [Users -> ReqType] /\ down \subseteq OrderType \cup CallType \cup CancelType
    BY DEF Types, WayTypes
  <1>1. ASSUME NEW m \in down, m.k # "cancel"
        PROVE  m.by \in Users /\ (m.k = "run" => m.run \in SingleIds) /\ (m.k # "run" => m.k = "deploy")
    BY <1>0, <1>1 DEF OrderType, CallType, CancelType
  <1>2. \A m \in down : ~cut /\ m.k # "cancel" => CallFits(m) /\ req[m.by].st = "sent" /\ req[m.by] # NoReq
    BY DEF CallsFit, Types, CallTypes, NoReq
  <1>3. ASSUME cut' => cut, cut = cut' \/ down' = {},
               \A n \in down' : ~cut /\ n.k # "cancel" => n \in down /\ (req'[n.by] = req[n.by] \/ CallFits(n)')
        PROVE  CallsFit'
    BY <1>2, <1>3 DEF CallsFit, CallFits
  <1>4. CASE UNCHANGED <<req, cut>> /\ \A n \in down' : n.k # "cancel" => n \in down
    BY <1>3, <1>4
  <1>5. CASE AgentNext
    <2>1. CASE Dial
      BY <2>1 DEF Dial, CallsFit
    <2>2. CASE UpdaterNotices \/ UpdaterRestarts
      BY <2>2 DEF UpdaterNotices, UpdaterRestarts, CallsFit
    <2>3. ASSUME NEW m \in down, OnRun(m) \/ OnDeploy(m) PROVE CallsFit'
      <3>1. /\ req' = Taken(m) \/ req' = Refused(m)
            /\ UNCHANGED cut /\ down' = down \ {m} /\ m.k # "cancel"
        <4>1. CASE OnRun(m)
          <5>1. UNCHANGED cut /\ down' = down \ {m} /\ m.k = "run"
            BY <4>1 DEF OnRun
          <5>2. req' = Taken(m) \/ req' = Refused(m)
            BY <4>1 DEF OnRun
          <5> QED  BY <5>1, <5>2
        <4>2. CASE OnDeploy(m)
          BY <4>2 DEF OnDeploy
        <4> QED  BY <2>3, <4>1, <4>2
      <3>2. ASSUME NEW n \in down', ~cut, n.k # "cancel"
            PROVE  n \in down /\ req'[n.by] = req[n.by]
        <4>1. n \in down /\ n # m
          BY <3>1, <3>2
        <4>2. n.by # m.by
          BY <3>1, <3>2, <4>1 DEF Types, CallTypes
        <4>3. n.by \in Users
          BY <1>1, <3>2, <4>1
        <4> QED  BY <1>0, <3>1, <4>1, <4>2, <4>3 DEF Taken, Refused
      <3> QED  BY <1>3, <3>1, <3>2
    <2> QED  BY <1>4, <1>5, <2>1, <2>2, <2>3 DEF AgentNext, Connected, StepCheck, StepBegin, StepFails,
               FinishDeploy, JobEnds, FlushStart, FlushNext, OnCancel
  <1>6. CASE SupervisorNext
    <2>1. CASE SupervisorRestarts
      BY <2>1 DEF SupervisorRestarts, CallsFit
    <2>2. CASE Hello \/ ServeEnds
      BY <1>4, <2>2 DEF Hello, ServeEnds
    <2>3. ASSUME NEW u \in Users,
                 \/ AskRun(u) \/ LookRun(u) \/ TakeDeploy(u)
                 \/ RefuseRollback(u) \/ CallReturns(u)
                 \/ \E d \in DepIds : AskDeploy(u, d) \/ AskRollback(u, d)
          PROVE  CallsFit'
      <3>1. UNCHANGED <<down, cut>> /\ \A v \in Users \ {u} : req'[v] = req[v]
        BY <1>0, <2>3 DEF AskRun, LookRun, TakeDeploy, RefuseRollback, CallReturns,
             AskDeploy, AskRollback, Asked, Done, RunTaken, Aborted
      <3>2. req[u].st # "sent" \/ ~Alive(u) \/ hello = "leaked"
        <4>1. CASE CallReturns(u)
          BY <4>1 DEF CallReturns, CallFails
        <4>2. CASE ~CallReturns(u)
          <5>1. req[u] = NoReq \/ req[u].st \in {"made", "asked"}
            BY <2>3, <4>2 DEF AskRun, LookRun, TakeDeploy, RefuseRollback, AskDeploy, AskRollback
          <5> QED  BY <5>1 DEF NoReq
        <4> QED  BY <4>1, <4>2
      <3>3. \A m \in down : ~cut /\ m.k # "cancel" => m.by \in Users \ {u}
        BY <1>1, <3>2, CallGone
      <3> QED  BY <1>3, <3>1, <3>3
    <2>4. ASSUME NEW u \in Users, SendRun(u) \/ SendDeploy(u) \/ SendRollback(u)
          PROVE  CallsFit'
      <3>1. UNCHANGED cut /\ \A v \in Users \ {u} : req'[v] = req[v]
        BY <1>0, <2>4 DEF SendRun, SendDeploy, SendRollback, Asked, Done, RunTaken, Aborted
      <3>2. req[u].st # "sent" /\ req[u] # NoReq
        BY <2>4 DEF SendRun, SendDeploy, SendRollback, NoReq
      <3>3. \A m \in down : ~cut /\ m.k # "cancel" => m.by \in Users \ {u}
        BY <1>1, <3>2, CallGone
      <3>4. ASSUME ~cut, NEW m \in down', m \notin down PROVE CallFits(m)'
        <4>1. CASE SendRun(u)
          <5>1. /\ m = [k |-> "run", by |-> u, run |-> req[u].id] /\ req'[u] = [req[u] EXCEPT !.st = "sent"]
                /\ req[u].kind = "run"
            BY <1>0, <3>2, <3>4, <4>1, ReqKinds DEF SendRun, Asked
          <5>2. req'[u].kind = "run" /\ req'[u].id = req[u].id /\ m.k = "run" /\ m.by = u /\ m.run = req[u].id
            BY <3>2, <5>1, ReqKinds
          <5> QED  BY <5>2 DEF CallFits
        <4>2. CASE SendDeploy(u)
          <5>1. PICK steps, back : m = [k |-> "deploy", by |-> u, dep |-> req[u].id, list |-> "deploy", steps |-> steps,
                                        back |-> back]
            BY <3>4, <4>2 DEF SendDeploy
          <5>2. req'[u] = [req[u] EXCEPT !.st = "sent"] /\ req[u].kind = "deploy"
            BY <1>0, <3>2, <3>4, <4>2, ReqKinds DEF SendDeploy, Asked
          <5>3. req'[u].kind = "deploy" /\ req'[u].id = req[u].id
            BY <3>2, <5>2, ReqKinds
          <5>4. m.k = "deploy" /\ m.by = u /\ m.dep = req[u].id /\ m.list = "deploy"
            BY <5>1
          <5> QED  BY <5>3, <5>4 DEF CallFits
        <4>3. CASE SendRollback(u)
          <5>1. PICK steps : m = [k |-> "deploy", by |-> u, dep |-> req[u].id, list |-> "rollback", steps |-> steps,
                                        back |-> <<>>]
            BY <3>4, <4>3 DEF SendRollback
          <5>2. req'[u] = [req[u] EXCEPT !.st = IF cut THEN "refused" ELSE "sent", !.conn = link] /\ req[u].kind = "rollback"
            BY <1>0, <4>3 DEF SendRollback, Asked
          <5>3. req'[u].kind = "rollback" /\ req'[u].id = req[u].id
            BY <1>0, <5>2 DEF ReqType, RunReqType, DepReqType
          <5>4. m.k = "deploy" /\ m.by = u /\ m.dep = req[u].id /\ m.list = "rollback"
            BY <5>1
          <5> QED  BY <5>3, <5>4 DEF CallFits
        <4> QED  BY <2>4, <4>1, <4>2, <4>3
      <3>5. ASSUME ~cut, NEW m \in down', m.k # "cancel" PROVE CallFits(m)'
        <4>1. CASE m \in down
          BY <1>2, <3>1, <3>3, <3>5, <4>1 DEF CallFits
        <4> QED  BY <3>4, <3>5, <4>1
      <3> QED  BY <3>1, <3>5 DEF CallsFit
    <2>5. CASE OnStepStart \/ OnEnd \/ OnDeployEnd
      BY <1>4, <2>5 DEF OnStepStart, OnEnd, OnDeployEnd
    <2>6. CASE (\E d \in DepIds : CancelDeploy(d)) \/ \E r \in RunIds : CancelRun(r)
      <3>1. UNCHANGED <<req, cut>> /\ \A n \in down' : n \in down \/ n.k = "cancel"
        BY <2>6 DEF CancelDeploy, CancelRun
      <3> QED  BY <1>4, <3>1
    <2> QED  BY <1>6, <2>1, <2>2, <2>3, <2>4, <2>5, <2>6 DEF SupervisorNext
  <1>7. CASE Cut
    BY <1>7 DEF Cut, CallsFit
  <1>8. CASE UNCHANGED vars
    BY <1>4, <1>8 DEF vars
  <1> QED  BY <1>5, <1>6, <1>7, <1>8 DEF Next

(* Which actions change what.                                              *)
LEMMA DepsChange ==
  ASSUME [Next]_vars, deps' # deps
  PROVE  \/ Hello \/ OnStepStart \/ OnDeployEnd
         \/ \E u \in Users : TakeDeploy(u) \/ SendDeploy(u) \/ SendRollback(u) \/ CallReturns(u)
  BY DEF Next, AgentNext, SupervisorNext, Cut, Dial, Connected, UpdaterNotices, UpdaterRestarts, StepCheck, StepBegin,
         StepFails, FinishDeploy, JobEnds, FlushStart, FlushNext, OnRun, OnDeploy, OnCancel,
         ServeEnds, SupervisorRestarts, OnEnd, AskRun, LookRun, SendRun, RefuseRollback, AskDeploy, AskRollback,
         CancelDeploy, CancelRun, vars, dbVars, superVars, netVars, agentVars, history

\* Which steps change each part of the state.
LEMMA LinkChange ==
  ASSUME [Next]_vars, ~UNCHANGED <<link, hello, told, last>>
  PROVE  Dial \/ Hello \/ ServeEnds \/ SupervisorRestarts
  BY DEF Next, AgentNext, SupervisorNext, Cut, Connected, UpdaterNotices, UpdaterRestarts, StepCheck, StepBegin,
         StepFails, FinishDeploy, JobEnds, FlushStart, FlushNext, OnRun, OnDeploy, OnCancel, OnStepStart, OnDeployEnd,
         OnEnd, AskRun, LookRun, SendRun, RefuseRollback, AskDeploy, AskRollback, TakeDeploy, SendDeploy, SendRollback,
         CallReturns, CancelDeploy, CancelRun, vars, dbVars, superVars, netVars, agentVars, history

LEMMA CutChange ==
  ASSUME [Next]_vars, cut' # cut
  PROVE  Dial \/ UpdaterRestarts \/ SupervisorRestarts \/ Cut
  BY DEF Next, AgentNext, SupervisorNext, Connected, UpdaterNotices, StepCheck, StepBegin,
         StepFails, FinishDeploy, JobEnds, FlushStart, FlushNext, OnRun, OnDeploy, OnCancel, OnStepStart, OnDeployEnd,
         OnEnd, AskRun, LookRun, SendRun, RefuseRollback, AskDeploy, AskRollback, TakeDeploy, SendDeploy, SendRollback,
         CallReturns, CancelDeploy, CancelRun, Hello, ServeEnds, vars, dbVars, superVars, netVars, agentVars, history

LEMMA TaskChange ==
  ASSUME [Next]_vars, task' # task
  PROVE  \/ UpdaterRestarts \/ StepCheck \/ StepBegin \/ StepFails \/ FinishDeploy
         \/ \E res \in Ended : JobEnds(res)
         \/ \E m \in down : OnDeploy(m) \/ OnCancel(m)
  <1> USE DEF dbVars, superVars, netVars, agentVars, history
  <1>1. ~Cut /\ ~UNCHANGED vars
    BY DEF Cut, vars
  <1>2. ~SupervisorNext
    BY DEF SupervisorNext, OnStepStart, OnDeployEnd, OnEnd, AskRun, LookRun, SendRun, RefuseRollback, AskDeploy,
         AskRollback, TakeDeploy, SendDeploy, SendRollback, CallReturns, CancelDeploy, CancelRun, Hello, ServeEnds,
         SupervisorRestarts
  <1>3. AgentNext
    BY <1>1, <1>2 DEF Next
  <1> QED  BY <1>3 DEF AgentNext, Dial, Connected, UpdaterNotices, FlushStart, FlushNext, OnRun

LEMMA ReachedChange ==
  ASSUME [Next]_vars, reached' # reached
  PROVE  \/ StepCheck \/ StepFails \/ (\E res \in Ended : JobEnds(res)) \/ \E m \in down : OnDeploy(m)
  BY DEF Next, AgentNext, SupervisorNext, Cut, Dial, Connected, UpdaterNotices, UpdaterRestarts, StepBegin, FinishDeploy,
         FlushStart, FlushNext, OnRun, OnCancel, OnStepStart, OnDeployEnd,
         OnEnd, AskRun, LookRun, SendRun, RefuseRollback, AskDeploy, AskRollback, TakeDeploy, SendDeploy, SendRollback,
         CallReturns, CancelDeploy, CancelRun, Hello, ServeEnds, SupervisorRestarts, vars, dbVars, superVars, netVars,
         agentVars, history

LEMMA DownChange ==
  ASSUME [Next]_vars, NEW m \in down', m \notin down
  PROVE  m.k = "cancel" \/ \E u \in Users : SendRun(u) \/ SendDeploy(u) \/ SendRollback(u)
  <1> USE DEF dbVars, superVars, netVars, agentVars, history
  <1>1. ~Cut /\ ~UNCHANGED vars
    BY DEF Cut, vars
  <1>2. ~AgentNext
    BY DEF AgentNext, Dial, Connected, UpdaterNotices, UpdaterRestarts, StepCheck, StepBegin,
         StepFails, FinishDeploy, JobEnds, FlushStart, FlushNext, OnRun, OnDeploy, OnCancel
  <1>3. SupervisorNext
    BY <1>1, <1>2 DEF Next
  <1>4. CASE (\E d \in DepIds : CancelDeploy(d)) \/ \E r \in RunIds : CancelRun(r)
    BY <1>4 DEF CancelDeploy, CancelRun
  <1>5. ~UNCHANGED down
    OBVIOUS
  <1> QED  BY <1>3, <1>4, <1>5 DEF SupervisorNext, OnStepStart, OnDeployEnd, OnEnd, AskRun, LookRun, RefuseRollback,
             AskDeploy, AskRollback, TakeDeploy, CallReturns, Hello, ServeEnds, SupervisorRestarts

LEMMA MarkChange ==
  ASSUME Types, [Next]_vars, mark'.dep # mark.dep
  PROVE  \/ Dial \/ Hello \/ ServeEnds \/ SupervisorRestarts \/ OnDeployEnd
         \/ \E u \in Users : TakeDeploy(u) \/ SendDeploy(u) \/ SendRollback(u) \/ CallReturns(u)
  <1>1. mark \in [run : RunIds \cup {NoRun}, dep : 0 .. MaxDep]
    BY DEF Types, LinkTypes
  <1>2. CASE mark' = mark
    BY <1>2
  <1>3. CASE OnStepStart \/ OnEnd
    BY <1>1, <1>3 DEF OnStepStart, OnEnd, RunUnmarked
  <1>4. CASE \E u \in Users : SendRun(u)
    BY <1>1, <1>4 DEF SendRun
  <1> QED
    BY <1>2, <1>3, <1>4 DEF Next, AgentNext, SupervisorNext, Cut, Connected, UpdaterNotices, UpdaterRestarts, StepCheck, StepBegin,
         StepFails, FinishDeploy, JobEnds, FlushStart, FlushNext, OnRun, OnDeploy, OnCancel,
         AskRun, LookRun, RefuseRollback, AskDeploy, AskRollback,
         CancelDeploy, CancelRun, vars, dbVars, superVars, netVars, agentVars, history

LEMMA ReqChange ==
  ASSUME [Next]_vars, req' # req
  PROVE  \/ SupervisorRestarts \/ \E m \in down : OnRun(m) \/ OnDeploy(m)
         \/ \E u \in Users :
              \/ AskRun(u) \/ LookRun(u) \/ SendRun(u) \/ TakeDeploy(u) \/ SendDeploy(u)
              \/ RefuseRollback(u) \/ SendRollback(u) \/ CallReturns(u)
              \/ \E d \in DepIds : AskDeploy(u, d) \/ AskRollback(u, d)
  BY DEF Next, AgentNext, SupervisorNext, Cut, Dial, Connected, UpdaterNotices, UpdaterRestarts, StepCheck, StepBegin,
         StepFails, FinishDeploy, JobEnds, FlushStart, FlushNext, OnCancel, OnStepStart, OnDeployEnd,
         OnEnd, CancelDeploy, CancelRun, Hello, ServeEnds, vars, dbVars, superVars, netVars,
         agentVars, history
LEMMA RowsChange ==
  ASSUME [Next]_vars, rows' # rows
  PROVE  \/ Hello \/ OnStepStart \/ OnEnd \/ OnDeployEnd
         \/ \E u \in Users : AskRun(u) \/ LookRun(u) \/ SendRun(u) \/ SendDeploy(u) \/ SendRollback(u) \/ CallReturns(u)
  BY DEF Next, AgentNext, SupervisorNext, Cut, Dial, Connected, UpdaterNotices, UpdaterRestarts, StepCheck, StepBegin,
         StepFails, FinishDeploy, JobEnds, FlushStart, FlushNext, OnRun, OnDeploy, OnCancel,
         ServeEnds, SupervisorRestarts, TakeDeploy, RefuseRollback, AskDeploy, AskRollback,
         CancelDeploy, CancelRun, vars, dbVars, superVars, netVars, agentVars, history

\* A run that ends was held, and its row and requests are left alone.
LEMMA DidChange ==
  ASSUME Types, Once, [Next]_vars, did' # did
  PROVE  UNCHANGED <<rows, req>> /\ \A r \in RunIds : did'[r] # did[r] => Held(r)
  <1> USE DEF dbVars, superVars, netVars, agentVars, history
  <1>1. StepFails \/ \E res \in Ended : JobEnds(res)
    BY DEF Next, AgentNext, SupervisorNext, Cut, Dial, Connected, UpdaterNotices, UpdaterRestarts, StepBegin, FinishDeploy,
         FlushStart, FlushNext, OnRun, OnCancel, OnStepStart, OnDeployEnd, OnDeploy, StepCheck,
         OnEnd, AskRun, LookRun, SendRun, RefuseRollback, AskDeploy, AskRollback, TakeDeploy, SendDeploy, SendRollback,
         CallReturns, CancelDeploy, CancelRun, Hello, ServeEnds, SupervisorRestarts, vars
  <1>2. UNCHANGED <<rows, req>>
    BY <1>1 DEF StepFails, JobEnds
  <1>3. CASE StepFails
    <2>1. task # NoTask /\ IsTask(task) /\ task.pc = "begin" /\ task.todo # <<>> /\ task.todo \in Seq(StepIds)
      BY <1>3 DEF StepFails, NoTask, Types, AgentTypes, IsTask, TaskType
    <2>2. Head(task.todo) \in Range(task.todo)
      BY <2>1, RangeFacts
    <2>3. \A r \in RunIds : did'[r] # did[r] => r = Head(task.todo)
      BY <1>3 DEF StepFails, Ends, Types, AgentTypes
    <2> QED  BY <1>2, <2>1, <2>2, <2>3 DEF Held, InTask
  <1>4. CASE \E res \in Ended : JobEnds(res)
    <2>1. job \in RunIds /\ \A r \in RunIds : did'[r] # did[r] => r = job
      BY <1>4 DEF JobEnds, Ends, Types, AgentTypes
    <2>2. CASE DepOf(job) = 0
      BY <1>2, <2>1, <2>2 DEF Held, InJob
    <2>3. CASE DepOf(job) # 0
      <3>0. job \in StepIds /\ job # NoRun
        BY <2>1, <2>3, RunFacts DEF StepIds, RunIds
      <3>4. task.pc = "run"
        BY <3>0 DEF Types, AgentTypes
      <3>5. task # NoTask
        BY <3>4 DEF NoTask
      <3>1. task # NoTask /\ task.pc = "run" /\ IsTask(task) /\ task.todo # <<>> /\ task.todo \in Seq(StepIds)
        BY <3>4, <3>5 DEF Types, AgentTypes, IsTask, TaskType
      <3>2. job = Head(task.todo)
        BY <2>1, <3>1, RunFacts DEF Once, ListsHeld
      <3>3. Head(task.todo) \in Range(task.todo)
        BY <3>1, RangeFacts
      <3> QED  BY <1>2, <2>1, <3>1, <3>2, <3>3 DEF Held, InTask
    <2> QED  BY <2>2, <2>3
  <1> QED  BY <1>1, <1>2, <1>3, <1>4

\* A run is recorded as failed once it failed, or once nothing will run it.
LEMMA RunFails ==
  ASSUME Types, Types', Once, Real, ReqsLinked, FailsTrue, HeldGrows, [Next]_vars,
         NEW r \in RunIds, rows'[r] = "fail", rows[r] # "fail"
  PROVE  did[r] = "fail" \/ (did[r] = "none" /\ ~Held(r)')
  <1> USE DEF dbVars, superVars, netVars, agentVars, history
  <1>0. rows \in [RunIds -> RunResults] /\ req \in [Users -> ReqType]
    BY DEF Types, StoreTypes, WayTypes
  <1>1. CASE Hello \/ OnStepStart \/ OnEnd \/ OnDeployEnd
    <2>1. RowsHeard
      BY <1>1, HelloHeard, StartHeard, EndHeard
    <2> QED  BY <2>1 DEF RowsHeard
  <1>2. ASSUME NEW u \in Users, AskRun(u) \/ LookRun(u) PROVE FALSE
    BY <1>0, <1>2 DEF AskRun, LookRun, RunTaken, CreateStepRun, FinishStepRun
  <1>3. ASSUME NEW u \in Users, SendDeploy(u) \/ SendRollback(u) PROVE FALSE
    <2>1. CASE SendDeploy(u)
      <3>1. \E runs : \/ rows' = SkipWaitRunsOf(rows, {req[u].id})
                      \/ rows' = SkipWaitRunsOf(CreateWaitStepRuns(rows, runs), {req[u].id})
                      \/ rows' = CreateWaitStepRuns(rows, runs)
        BY <2>1 DEF SendDeploy, Aborted
      <3> QED  BY <3>1 DEF SkipWaitRunsOf, CreateWaitStepRuns
    <2>2. CASE SendRollback(u)
      <3>1. \E runs : rows' = CreateWaitStepRuns(DeleteWaitRuns(rows, req[u].id, "rollback"), runs)
        BY <2>2 DEF SendRollback
      <3> QED  BY <3>1 DEF DeleteWaitRuns, CreateWaitStepRuns
    <2> QED  BY <1>3, <2>1, <2>2
  <1>4. ASSUME NEW u \in Users, SendRun(u) PROVE did[r] = "none" /\ ~Held(r)'
    <2>1. req[u] # NoReq /\ req[u].kind = "run" /\ req[u].st = "looked"
      BY <1>4, ReqKinds DEF SendRun, NoReq
    <2>2. PICK s \in RunIds : s = req[u].id /\ DepOf(s) = 0 /\ InReq(u, s)
      BY <2>1, ReqKinds DEF InReq
    <2>3. rows' = Finished(s, "fail") /\ req' = [req EXCEPT ![u] = NoReq] /\ UNCHANGED <<down, task, job>>
      BY <1>0, <1>4, <2>2 DEF SendRun, RunTaken, Done, FinishStepRun
    <2>4. r = s
      BY <1>0, <2>3 DEF Finished, FinishStepRun
    <2>5. ~InTask(s) /\ ~InJob(s) /\ (\A n \in down : ~InMsg(n, s)) /\ did[s] = "none"
      <3>1. ~InTask(s)
        BY <2>2, RangeFacts DEF InTask, Types, AgentTypes, IsTask, TaskType, StepIds
      <3> QED  BY <2>2, <3>1 DEF Once, HeldOnce, HeldIsNew, Held
    <2>6. \A v \in Users : ~InReq(v, s)'
      BY <1>0, <2>1, <2>2, <2>3, OtherReqs DEF InReq
    <2>7. ~Held(s)'
      BY <2>3, <2>5, <2>6 DEF Held, InTask, InJob, InMsg
    <2> QED  BY <2>4, <2>5, <2>7
  <1>5. ASSUME NEW u \in Users, CallReturns(u) PROVE did[r] = "none" /\ ~Held(r)'
    <2>1. req[u] # NoReq /\ req[u].st = "refused"
      BY <1>5 DEF CallReturns, CallFails, NoReq, Alive, ReqsLinked, ReqLinked
    <2>2. req[u].kind = "run" /\ rows' = Finished(req[u].id, "fail")
      <3>1. CASE req[u].kind = "run"
        BY <1>5, <3>1 DEF CallReturns
      <3>2. CASE req[u].kind # "run"
        BY <1>0, <1>5, <3>2, AbortFacts DEF CallReturns
      <3> QED  BY <3>1, <3>2
    <2>3. r = req[u].id
      BY <1>0, <2>2 DEF Finished, FinishStepRun
    <2>4. did[r] = "none" /\ ~Held(r) /\ ~Unused(r)
      BY <2>1, <2>2, <2>3, OtherReqs DEF FailsTrue, RunRefused, Asks
    <2> QED  BY <2>4 DEF HeldGrows
  <1>6. rows' # rows
    OBVIOUS
  <1> QED  BY <1>1, <1>2, <1>3, <1>4, <1>5, <1>6, RowsChange

\* A run that is refused has not begun, and nobody holds it any more.
LEMMA RunGoesRefused ==
  ASSUME Types, Types', Once, CallsFit, NEW m \in down, OnRun(m), NEW u \in Users,
         req'[u] # req[u], req'[u].st = "refused"
  PROVE  \E s \in RunIds : req'[u].id = s /\ did[s] = "none" /\ ~Held(s)' /\ req'[u].kind = "run"
  <1> USE DEF dbVars, superVars, netVars, agentVars, history
  <1>1. /\ m.k = "run" /\ down' = down \ {m} /\ UNCHANGED task /\ ~cut /\ req \in [Users -> ReqType]
        /\ req' = Taken(m) \/ req' = Refused(m)
    BY DEF OnRun, Taken, Refused, Types, WayTypes
  <1>2. u = m.by /\ req[u] # NoReq /\ req[u].kind = "run" /\ req[u].id = m.run
    BY <1>1 DEF Taken, Refused, CallsFit, CallFits, Types, CallTypes, NoReq
  <1>3. req' = Refused(m) /\ UNCHANGED job
    <2>1. req' # Taken(m)
      BY <1>1, <1>2 DEF Taken, NoReq
    <2> QED  BY <2>1 DEF OnRun
  <1>4. req'[u] = [req[u] EXCEPT !.st = "refused"]
    BY <1>1, <1>2, <1>3 DEF Refused
  <1>5. PICK s \in RunIds : s = m.run /\ DepOf(s) = 0 /\ InMsg(m, s) /\ req'[u].id = s /\ req'[u].kind = "run"
    BY <1>1, <1>2, <1>4, ReqKinds DEF InMsg
  <1>6. did[s] = "none" /\ ~InTask(s) /\ ~InJob(s) /\ (\A n \in down : n # m => ~InMsg(n, s)) /\ \A v \in Users : ~InReq(v, s)
    BY <1>5 DEF Once, HeldOnce, HeldIsNew, Held
  <1>7. \A v \in Users : ~InReq(v, s)'
    BY <1>1, <1>2, <1>3, <1>4, <1>6 DEF InReq, Refused
  <1>8. ~Held(s)'
    BY <1>1, <1>3, <1>6, <1>7 DEF Held, InTask, InJob, InMsg
  <1> QED  BY <1>5, <1>6, <1>8

\* A run recorded as failed, or refused, does not run afterwards.
LEMMA FailsTrueStep ==
  ASSUME Types, Types', Once, Real, ReqsLinked, CallsFit, FailsTrue, [Next]_vars
  PROVE  FailsTrue'
  <1> USE DEF dbVars, superVars, netVars, agentVars, history
  <1>0. req \in [Users -> ReqType] /\ did \in [RunIds -> Maybe]
    BY DEF Types, WayTypes, AgentTypes
  <1>1. HeldGrows /\ DidStays
    BY OnceStep, HistoryStays DEF OnceGoes
  <1>2. \A r \in RunIds : did'[r] # did[r] => UNCHANGED <<rows, req>> /\ Held(r) /\ did[r] = "none"
    BY <1>1, DidChange DEF DidStays
  <1>3. ASSUME NEW r \in RunIds, rows'[r] = "fail"
        PROVE  did'[r] \in {"none", "fail"} /\ (did'[r] = "none" => ~Held(r)')
    <2>1. CASE rows[r] = "fail"
      <3>1. did[r] \in {"none", "fail"} /\ (did[r] = "none" => ~Held(r)) /\ ~Unused(r)
        BY <2>1 DEF FailsTrue, Once, UnusedIsNew
      <3> QED  BY <1>1, <1>2, <3>1 DEF HeldGrows
    <2>2. CASE rows[r] # "fail"
      <3>1. did[r] = "fail" \/ (did[r] = "none" /\ ~Held(r)')
        BY <1>1, <1>3, <2>2, RunFails
      <3>2. did'[r] = did[r]
        BY <1>2, <1>3, <2>2
      <3> QED  BY <3>1, <3>2
    <2> QED  BY <2>1, <2>2
  <1>4. ASSUME NEW u \in Users, NEW s \in RunIds, req'[u] # NoReq, req'[u].kind = "run", req'[u].st = "refused", req'[u].id = s
        PROVE  did'[s] = "none" /\ ~Held(s)'
    <2>1. CASE req'[u] = req[u]
      <3>1. s = req[u].id /\ did[s] = "none" /\ ~Held(s) /\ ~Unused(s)
        BY <1>4, <2>1, ReqKinds, OtherReqs DEF FailsTrue, RunRefused, Asks
      <3> QED  BY <1>1, <1>2, <2>1, <3>1 DEF HeldGrows
    <2>2. CASE req'[u] # req[u]
      <3>1. ~SupervisorRestarts
        BY <1>4 DEF SupervisorRestarts
      <3>2. ASSUME NEW v \in Users,
              \/ AskRun(v) \/ LookRun(v) \/ SendRun(v) \/ TakeDeploy(v) \/ SendDeploy(v)
              \/ RefuseRollback(v) \/ SendRollback(v) \/ CallReturns(v)
              \/ \E d \in DepIds : AskDeploy(v, d) \/ AskRollback(v, d)
            PROVE FALSE
        <4>1. u = v
          BY <1>0, <2>2, <3>2 DEF AskRun, LookRun, SendRun, TakeDeploy, SendDeploy, RefuseRollback, SendRollback, CallReturns,
             AskDeploy, AskRollback, Asked, Done, RunTaken, Aborted
        <4>2. CASE SendRollback(u)
          <5>1. req[u] \in DepReqType /\ req[u].kind = "rollback"
            BY <1>0, <4>2 DEF SendRollback, NoReq, ReqType, RunReqType
          <5>2. req'[u] = [req[u] EXCEPT !.st = IF cut THEN "refused" ELSE "sent", !.conn = link]
            BY <1>0, <4>2 DEF SendRollback, Asked
          <5>3. req'[u].kind = "rollback"
            BY <5>1, <5>2 DEF DepReqType
          <5> QED  BY <1>4, <5>3
        <4>3. CASE (\E d \in DepIds : AskDeploy(u, d) \/ AskRollback(u, d)) \/ AskRun(u)
          BY <1>0, <1>4, <4>3 DEF AskRun, AskDeploy, AskRollback, Asked
        <4>4. CASE LookRun(u) \/ SendRun(u) \/ TakeDeploy(u) \/ SendDeploy(u) \/ RefuseRollback(u) \/ CallReturns(u)
          <5>1. req[u] # NoReq
            BY <4>4 DEF LookRun, SendRun, TakeDeploy, SendDeploy, RefuseRollback, CallReturns, CallFails, NoReq
          <5>2. \E st \in {"looked", "marked", "sent"} : req'[u] = [req[u] EXCEPT !.st = st]
            BY <1>0, <1>4, <4>4 DEF LookRun, SendRun, TakeDeploy, SendDeploy, RefuseRollback, CallReturns, Asked, Done,
               RunTaken, Aborted
          <5> QED  BY <1>4, <5>1, <5>2, ReqKinds
        <4> QED  BY <3>2, <4>1, <4>2, <4>3, <4>4
      <3>3. PICK m \in down : OnRun(m) \/ OnDeploy(m)
        BY <2>2, <3>1, <3>2, ReqChange
      <3>4. CASE OnRun(m)
        <4>1. did[s] = "none" /\ ~Held(s)'
          BY <1>4, <2>2, <3>4, RunGoesRefused
        <4> QED  BY <3>4, <4>1 DEF OnRun
      <3>5. CASE OnDeploy(m)
        <4>1. m.k = "deploy" /\ m.list \in Lists /\ (req' = Taken(m) \/ req' = Refused(m))
          BY <3>5 DEF OnDeploy, Types, WayTypes, OrderType, CallType, CancelType
        <4>2. ~cut /\ u = m.by /\ req[u] # NoReq /\ req[u].kind = m.list
          BY <1>0, <2>2, <4>1 DEF Taken, Refused, CallsFit, CallFits, Types, CallTypes, NoReq
        <4>3. req'[u] = [req[u] EXCEPT !.st = "refused"]
          BY <1>0, <1>4, <4>1, <4>2 DEF Taken, Refused
        <4> QED  BY <1>4, <4>1, <4>2, <4>3, ReqKinds DEF Lists
      <3> QED  BY <3>3, <3>4, <3>5
    <2> QED  BY <2>1, <2>2
  <1> QED  BY <1>3, <1>4 DEF FailsTrue, RunRefused, Asks

\* What the updater has to tell of deployments.
LEMMA FlushChange ==
  ASSUME Types, [Next]_vars
  PROVE  \/ FlushRests \/ OnEnd \/ OnDeployEnd \/ \E f \in Flushers : FlushStart(f) \/ FlushNext(f)
  <1> USE DEF dbVars, superVars, netVars, agentVars, history
  <1>1. CASE UNCHANGED flush
    BY <1>1 DEF FlushRests
  <1>2. CASE Dial \/ Connected \/ UpdaterNotices \/ UpdaterRestarts \/ StepCheck \/ StepBegin
    <2>1. CASE Connected
      <3>1. PICK g \in Flushers :
              flush' = [f \in Flushers |-> IF f = g THEN [st |-> "start", todo |-> <<>>] ELSE Idle]
        BY <2>1 DEF Connected
      <3> QED  BY <3>1 DEF FlushRests, Idle
    <2>2. CASE UpdaterNotices \/ UpdaterRestarts
      BY <2>2 DEF UpdaterNotices, UpdaterRestarts, FlushRests, Idle
    <2> QED  BY <1>1, <1>2, <2>1, <2>2 DEF Dial, StepCheck, StepBegin
  <1>3. CASE StepFails \/ FinishDeploy \/ \E res \in Ended : JobEnds(res)
    BY <1>3, SpawnRests DEF StepFails, FinishDeploy, JobEnds, Ends
  <1> QED
    BY <1>1, <1>2, <1>3 DEF Next, AgentNext, SupervisorNext, Cut, OnRun, OnDeploy, OnCancel, ServeEnds, SupervisorRestarts,
         TakeDeploy, RefuseRollback, AskDeploy, AskRollback, CancelDeploy, CancelRun, Hello, OnStepStart,
         AskRun, LookRun, SendRun, SendDeploy, SendRollback, CallReturns, vars

LEMMA DendsChange ==
  ASSUME [Next]_vars, dends' # dends
  PROVE  UpdaterRestarts \/ FinishDeploy \/ \E f \in Flushers : FlushNext(f)
  <1> USE DEF dbVars, superVars, netVars, agentVars, history
  <1>1. ~Cut /\ ~UNCHANGED vars
    BY DEF Cut, vars
  <1>2. ~SupervisorNext
    BY DEF SupervisorNext, OnStepStart, OnDeployEnd, OnEnd, AskRun, LookRun, SendRun, RefuseRollback, AskDeploy,
         AskRollback, TakeDeploy, SendDeploy, SendRollback, CallReturns, CancelDeploy, CancelRun, Hello, ServeEnds,
         SupervisorRestarts
  <1>3. AgentNext
    BY <1>1, <1>2 DEF Next
  <1> QED  BY <1>3 DEF AgentNext, Dial, Connected, UpdaterNotices, StepCheck, StepBegin, StepFails, JobEnds, FlushStart,
             OnRun, OnDeploy, OnCancel

LEMMA UpChange ==
  ASSUME [Next]_vars, up' # up
  PROVE  \/ Dial \/ Cut \/ ServeEnds \/ SupervisorRestarts \/ StepCheck \/ OnStepStart \/ OnEnd \/ OnDeployEnd
         \/ \E f \in Flushers : FlushStart(f) \/ FlushNext(f)
  BY DEF Next, AgentNext, SupervisorNext, Connected, UpdaterNotices, UpdaterRestarts, StepBegin,
         StepFails, JobEnds, FinishDeploy, OnRun, OnDeploy, OnCancel,
         AskRun, LookRun, SendRun, RefuseRollback, AskDeploy, AskRollback, TakeDeploy, SendDeploy, SendRollback,
         CallReturns, CancelDeploy, CancelRun, Hello, vars, dbVars, superVars, netVars,
         agentVars, history

\* A flusher sends and keeps only results that were still to be told.
TodoPending(s) == s.st \in {"deps", "depAcked"} => \A e \in Range(s.todo) : Pending(e)

\* A flusher sends only what is still to be told.
LEMMA FlusherPending ==
  ASSUME Types, NEW f \in Flushers, FlushStart(f) \/ FlushNext(f)
  PROVE  /\ Range(dends') \subseteq Range(dends)
         /\ \A e : HasUp(e)' => Pending(e)
         /\ \A g \in Flushers : \A e : HasFlush(g, e)' => Pending(e)
  <1> USE DEF dbVars, superVars, netVars, history
  <1>0. up \in Seq(UpType) /\ flush \in [Flushers -> FlushType]
    BY DEF Types, WayTypes
  <1>1. PICK s \in FlushType : /\ TodoPending(s) /\ Sends(f, s) /\ (s = Idle \/ s.st \in {"ends", "deps"})
                               /\ Range(dends') \subseteq Range(dends)
    <2>0. \A st \in {"ends", "deps"} : \A todo : (st # "deps" \/ \A e \in Range(todo) : Pending(e)) => TodoPending(Settled(st, todo))
      <3> SUFFICES ASSUME NEW st \in {"ends", "deps"}, NEW todo,
                          st # "deps" \/ \A e \in Range(todo) : Pending(e)
                   PROVE  TodoPending(Settled(st, todo))
        OBVIOUS
      <3>1. \A e \in Range(dends) : Pending(e)
        BY DEF Pending
      <3>2. CASE st = "ends" /\ todo = <<>>
        <4>1. Settled(st, todo) = IF dends = <<>> THEN Idle ELSE [st |-> "deps", todo |-> dends]
          BY <3>2 DEF Settled
        <4> QED  BY <3>1, <4>1 DEF TodoPending, Idle
      <3>3. CASE ~(st = "ends" /\ todo = <<>>)
        <4>1. Settled(st, todo) = IF todo = <<>> THEN Idle ELSE [st |-> st, todo |-> todo]
          BY <3>3 DEF Settled
        <4> QED  BY <4>1 DEF TodoPending, Idle
      <3> QED  BY <3>2, <3>3
    <2>1. CASE FlushStart(f)
      <3> DEFINE s == Settled("ends", ends)
      <3>1. s \in FlushType /\ (s = Idle \/ s.st \in {"ends", "deps"})
        BY SettledTyped DEF Types, WayTypes
      <3>2. Sends(f, s) /\ UNCHANGED <<ends, dends>>
        BY <2>1 DEF FlushStart
      <3>3. TodoPending(s)
        BY <2>0
      <3> QED  BY <3>1, <3>2, <3>3
    <2>2. CASE FlushNext(f) /\ FlushOn(f)
      <3> DEFINE e == Head(flush[f].todo)
      <3> DEFINE isEnd == flush[f].st = "endAcked"
      <3> DEFINE s == Settled(IF isEnd THEN "ends" ELSE "deps", Tail(flush[f].todo))
      <3>1. /\ flush[f].st \in {"endAcked", "depAcked"} /\ Sends(f, s)
            /\ dends' = IF isEnd THEN dends ELSE Without(dends, e)
        BY <2>2 DEF FlushNext, FlushOn
      <3>2. Range(dends') \subseteq Range(dends)
        BY <3>1, WithoutFacts DEF Types, WayTypes
      <3>3. (isEnd => flush[f] \in EndsFlush) /\ (~isEnd => flush[f] \in DepsFlush)
        BY <1>0, <3>1 DEF FlushType, EndsFlush, DepsFlush, Idle
      <3>4. isEnd => Tail(flush[f].todo) \in Seq(EndType)
        <4> SUFFICES ASSUME isEnd PROVE Tail(flush[f].todo) \in Seq(EndType)
          OBVIOUS
        <4>1. flush[f].todo \in Seq(EndType) /\ flush[f].todo # <<>>
          BY <3>3 DEF EndsFlush
        <4> QED  BY <4>1, RangeFacts
      <3>5. ~isEnd => Tail(flush[f].todo) \in Seq(DepEndType) /\ \A x \in Range(Tail(flush[f].todo)) : Pending(x)
        <4> SUFFICES ASSUME ~isEnd
                     PROVE  Tail(flush[f].todo) \in Seq(DepEndType) /\ \A x \in Range(Tail(flush[f].todo)) : Pending(x)
          OBVIOUS
        <4>1. flush[f].todo \in Seq(DepEndType) /\ flush[f].todo # <<>>
          BY <3>3 DEF DepsFlush
        <4>2. Range(Tail(flush[f].todo)) \subseteq Range(flush[f].todo) /\ Tail(flush[f].todo) \in Seq(DepEndType)
          BY <4>1, RangeFacts
        <4>3. flush[f].st = "depAcked"
          BY <3>1
        <4> QED  BY <4>2, <4>3 DEF Pending, HasFlush
      <3>6. s \in FlushType /\ (s = Idle \/ s.st \in {"ends", "deps"})
        BY <3>4, <3>5, SettledTyped
      <3>7. TodoPending(s)
        BY <2>0, <3>5
      <3> HIDE DEF s, e, isEnd
      <3> QED  BY <3>1, <3>2, <3>6, <3>7
    <2>3. CASE FlushNext(f) /\ FlushGaveUp(f)
      <3>1. Sends(f, Idle) /\ UNCHANGED <<ends, dends>> /\ Idle \in FlushType /\ TodoPending(Idle)
        BY <2>3 DEF FlushGaveUp, FlushType, TodoPending, Idle
      <3> QED  BY <3>1
    <2> QED  BY <2>1, <2>2, <2>3 DEF FlushNext
  <1>2. ASSUME NEW g \in Flushers, NEW e, HasFlush(g, e)' PROVE Pending(e)
    <2>1. flush'[g] = s \/ flush'[g] = flush[g]
      BY <1>0, <1>1 DEF Sends
    <2>2. CASE flush'[g] = s
      BY <1>1, <1>2, <2>2 DEF HasFlush, TodoPending
    <2>3. CASE flush'[g] = flush[g]
      BY <1>2, <2>3 DEF HasFlush, Pending
    <2> QED  BY <2>1, <2>2, <2>3
  <1>3. ASSUME NEW e, HasUp(e)' PROVE Pending(e)
    <2>1. CASE s = Idle \/ cut
      BY <1>1, <1>3, <2>1 DEF Sends, HasUp, Pending
    <2>2. CASE s # Idle /\ ~cut
      <3>1. (s \in EndsFlush /\ s.st = "ends") \/ (s \in DepsFlush /\ s.st = "deps")
        BY <1>1, <2>2 DEF FlushType, EndsFlush, DepsFlush, Idle
      <3>2. PICK m : m = [k |-> s.st, e |-> Head(s.todo), f |-> f] /\ up' = Append(up, m)
        BY <1>1, <2>2 DEF Sends
      <3>3. m \in UpType /\ m.e \in Range(s.todo) /\ m.k = s.st
        <4>1. CASE s \in EndsFlush /\ s.st = "ends"
          <5>1. s.todo \in Seq(EndType) /\ s.todo # <<>>
            BY <4>1 DEF EndsFlush
          <5>2. Head(s.todo) \in EndType /\ Head(s.todo) \in Range(s.todo)
            BY <5>1, RangeFacts
          <5> QED  BY <3>2, <4>1, <5>2 DEF UpType
        <4>2. CASE s \in DepsFlush /\ s.st = "deps"
          <5>1. s.todo \in Seq(DepEndType) /\ s.todo # <<>>
            BY <4>2 DEF DepsFlush
          <5>2. Head(s.todo) \in DepEndType /\ Head(s.todo) \in Range(s.todo)
            BY <5>1, RangeFacts
          <5> QED  BY <3>2, <4>2, <5>2 DEF UpType
        <4> QED  BY <3>1, <4>1, <4>2
      <3>4. Range(up') = Range(up) \cup {m}
        BY <1>0, <3>2, <3>3, RangeFacts
      <3>5. CASE \E x \in Range(up) : x.k = "deps" /\ x.e = e
        BY <3>5 DEF HasUp, Pending
      <3>6. CASE m.k = "deps" /\ m.e = e
        BY <1>1, <3>3, <3>6 DEF TodoPending
      <3> QED  BY <1>3, <3>4, <3>5, <3>6 DEF HasUp
    <2> QED  BY <2>1, <2>2
  <1> QED  BY <1>1, <1>2, <1>3

\* A result to be told is that of the deployment that has just ended, or was to be told before.
LEMMA PendingGoes ==
  ASSUME Types, Types', [Next]_vars, NEW e, Pending(e)', ~Pending(e)
  PROVE  FinishDeploy /\ e = [dep |-> task.dep, list |-> task.list, res |-> task.res, rb |-> task.rb, inst |-> installed']
  <1> USE DEF dbVars, superVars, netVars, agentVars, history
  <1>0. up \in Seq(UpType) /\ flush \in [Flushers -> FlushType] /\ dends \in Seq(DepEndType)
    BY DEF Types, WayTypes
  <1>1. ~\E f \in Flushers : FlushStart(f) \/ FlushNext(f)
    BY FlusherPending DEF Pending
  <1>2. ASSUME NEW f \in Flushers PROVE ~HasFlush(f, e)'
    <2>1. ~HasFlush(f, e)
      BY DEF Pending
    <2>2. flush'[f] = flush[f] \/ flush'[f].st \in {"idle", "start"} \/ AckedAs(flush[f], flush'[f])
      BY <1>1, FlushChange, AckMoves DEF FlushRests
    <2> QED  BY <2>1, <2>2 DEF HasFlush, AckedAs
  <1>3. ~HasUp(e)'
    <2>1. ~HasUp(e)
      BY DEF Pending
    <2>2. \A m \in Range(up') : m \in Range(up) \/ m.k = "start"
      <3>1. CASE UNCHANGED up \/ up' = <<>>
        BY <3>1, NoRange
      <3>2. CASE Cut
        BY <1>0, <3>2, PrefixRange DEF Cut
      <3>3. CASE OnStepStart \/ OnEnd \/ OnDeployEnd
        BY <1>0, <3>3, RangeFacts DEF OnStepStart, OnEnd, OnDeployEnd, Received
      <3>4. CASE StepCheck /\ up' # up
        <4>1. up' = Append(up, [k |-> "start", dep |-> task.dep, run |-> Head(task.todo)]) /\ task.todo # <<>> /\ task # NoTask
          BY <3>4 DEF StepCheck, Emitted, NoTask
        <4>2. task.dep \in DepIds /\ Head(task.todo) \in RunIds
          BY <4>1, RangeFacts DEF Types, AgentTypes, IsTask, TaskType, StepIds
        <4>3. PICK m \in UpType : m = [k |-> "start", dep |-> task.dep, run |-> Head(task.todo)]
          BY <4>2 DEF UpType
        <4>4. up' = Append(up, m) /\ m.k = "start"
          BY <4>1, <4>3
        <4> QED  BY <1>0, <4>4, RangeFacts
      <3> QED  BY <1>1, <3>1, <3>2, <3>3, <3>4, UpChange DEF Dial, ServeEnds, SupervisorRestarts
    <2> QED  BY <2>1, <2>2 DEF HasUp
  <1>4. e \in Range(dends') /\ e \notin Range(dends)
    BY <1>2, <1>3 DEF Pending
  <1>5. FinishDeploy
    <2>1. UpdaterRestarts \/ FinishDeploy
      BY <1>1, <1>4, DendsChange
    <2>2. ~UpdaterRestarts
      BY <1>4, NoRange DEF UpdaterRestarts
    <2> QED  BY <2>1, <2>2
  <1> DEFINE g == [dep |-> task.dep, list |-> task.list, res |-> task.res, rb |-> task.rb, inst |-> installed']
  <1>6. dends' = Append(dends, g)
    BY <1>5 DEF FinishDeploy
  <1> HIDE DEF g
  <1>7. g \in DepEndType
    <2>1. dends' \in Seq(DepEndType)
      BY DEF Types, WayTypes
    <2>2. g = dends'[Len(dends) + 1] /\ Len(dends) + 1 \in DOMAIN dends'
      BY <1>0, <1>6
    <2> QED  BY <2>1, <2>2
  <1>8. Range(dends') = Range(dends) \cup {g}
    BY <1>0, <1>6, <1>7, RangeFacts
  <1> QED  BY <1>4, <1>5, <1>8 DEF g

\* A deployment that goes on is the one that went on.
LEMMA TaskKept ==
  ASSUME Types, [Next]_vars, task' # NoTask, task # NoTask
  PROVE  task'.dep = task.dep /\ task'.list = task.list
  <1> USE DEF dbVars, superVars, netVars, agentVars, history
  <1>1. IsTask(task) /\ task \in TaskType
    BY DEF Types, AgentTypes, IsTask
  <1>2. \A res : Over(task, res).dep = task.dep /\ Over(task, res).list = task.list
    BY <1>1 DEF Over, TaskType
  <1>3. CASE UNCHANGED task
    BY <1>3
  <1>4. CASE UpdaterRestarts \/ FinishDeploy
    BY <1>4 DEF UpdaterRestarts, FinishDeploy
  <1>5. CASE StepCheck \/ StepBegin \/ StepFails
    BY <1>1, <1>2, <1>5 DEF StepCheck, StepBegin, StepFails, ListEnds, TaskType
  <1>6. CASE \E res \in Ended : JobEnds(res)
    <2>1. PICK res : JobEnds(res)
      BY <1>6
    <2> QED  BY <1>1, <1>2, <1>3, <2>1 DEF JobEnds, ListEnds, TaskType
  <1>7. CASE \E m \in down : OnDeploy(m) \/ OnCancel(m)
    BY <1>1, <1>3, <1>7 DEF OnDeploy, OnCancel, AgentIdle, TaskType
  <1> QED  BY <1>3, <1>4, <1>5, <1>6, <1>7, TaskChange

\* An order the updater gets.
LEMMA OrderKinds ==
  ASSUME Types, NEW m \in down, m.k = "deploy"
  PROVE  m \in OrderType /\ m.dep \in DepIds /\ m.list \in Lists /\ m.by \in Users
  <1>1. m \in OrderType \cup CallType \cup CancelType
    BY DEF Types, WayTypes
  <1>2. m \in OrderType
    BY <1>1 DEF CallType, CancelType
  <1> QED  BY <1>2 DEF OrderType

\* A deployment begins with an order, at its first step.
LEMMA NewTask ==
  ASSUME Types, [Next]_vars, task' # NoTask, task = NoTask
  PROVE  \E m \in down : /\ OnDeploy(m) /\ m.k = "deploy" /\ task'.dep = m.dep /\ task'.list = m.list
                         /\ task'.pc = "check" /\ task'.phase = "list" /\ task'.rb = "none" /\ task'.res = "none"
  <1>1. task.pc = "none"
    BY DEF NoTask
  <1>2. ~\E res \in Ended : JobEnds(res) /\ task' # task
    <2> SUFFICES ASSUME NEW res \in Ended, JobEnds(res), task' # task PROVE FALSE
      OBVIOUS
    <2>1. DepOf(job) # 0 /\ job # NoRun
      BY DEF JobEnds
    <2>2. job \in StepIds
      BY <2>1 DEF Types, AgentTypes, StepIds
    <2> QED  BY <1>1, <2>2 DEF Types, AgentTypes
  <1>3. PICK m \in down : OnDeploy(m) \/ OnCancel(m)
    BY <1>1, <1>2, TaskChange DEF UpdaterRestarts, StepCheck, StepBegin, StepFails, FinishDeploy
  <1>4. ~OnCancel(m)
    BY DEF OnCancel
  <1>5. OnDeploy(m) /\ m.k = "deploy" /\ task' # task
    BY <1>3, <1>4 DEF OnDeploy
  <1>6. task' = [dep |-> m.dep, list |-> m.list, todo |-> m.steps, back |-> m.back, stopped |-> FALSE, pc |-> "check",
                 phase |-> "list", res |-> "none", rb |-> "none"]
    BY <1>5 DEF OnDeploy
  <1>7. /\ task'.dep = m.dep /\ task'.list = m.list
        /\ task'.pc = "check" /\ task'.phase = "list" /\ task'.rb = "none" /\ task'.res = "none"
    BY <1>6
  <1> QED  BY <1>5, <1>7

\* How a request comes to be refused.
LEMMA ReqRefused ==
  ASSUME Types, CallsFit, [Next]_vars, NEW u \in Users, req'[u] # req[u], req'[u] # NoReq, req'[u].st = "refused"
  PROVE  \/ /\ \E m \in down : OnRun(m)
            /\ req'[u].kind = "run"
         \/ \E m \in down :
              /\ OnDeploy(m) /\ ~AgentIdle /\ m.by = u /\ ~cut /\ req[u] # NoReq /\ req[u].kind = m.list
              /\ req[u].id = m.dep /\ req'[u] = [req[u] EXCEPT !.st = "refused"]
         \/ SendRollback(u) /\ cut
  <1> USE DEF dbVars, superVars, netVars, agentVars, history
  <1>0. req \in [Users -> ReqType]
    BY DEF Types, WayTypes
  <1>1. ~SupervisorRestarts
    BY DEF SupervisorRestarts
  <1>2. ASSUME NEW v \in Users,
              \/ AskRun(v) \/ LookRun(v) \/ SendRun(v) \/ TakeDeploy(v) \/ SendDeploy(v)
              \/ RefuseRollback(v) \/ SendRollback(v) \/ CallReturns(v)
              \/ \E d \in DepIds : AskDeploy(v, d) \/ AskRollback(v, d)
        PROVE SendRollback(u) /\ cut
    <2>1. u = v
      BY <1>0, <1>2 DEF AskRun, LookRun, SendRun, TakeDeploy, SendDeploy, RefuseRollback, SendRollback, CallReturns,
             AskDeploy, AskRollback, Asked, Done, RunTaken, Aborted
    <2>2. CASE SendRollback(u)
      <3>1. req[u] \in DepReqType /\ req[u].kind = "rollback"
        BY <1>0, <2>2 DEF SendRollback, NoReq, ReqType, RunReqType
      <3>2. req'[u] = [req[u] EXCEPT !.st = IF cut THEN "refused" ELSE "sent", !.conn = link]
        BY <1>0, <2>2 DEF SendRollback, Asked
      <3>3. req'[u].st = IF cut THEN "refused" ELSE "sent"
        BY <3>1, <3>2 DEF DepReqType
      <3> QED  BY <2>2, <3>3
    <2>3. CASE (\E d \in DepIds : AskDeploy(u, d) \/ AskRollback(u, d)) \/ AskRun(u)
      BY <1>0, <2>3 DEF AskRun, AskDeploy, AskRollback, Asked
    <2>4. CASE LookRun(u) \/ SendRun(u) \/ TakeDeploy(u) \/ SendDeploy(u) \/ RefuseRollback(u) \/ CallReturns(u)
      <3>1. req[u] # NoReq
        BY <2>4 DEF LookRun, SendRun, TakeDeploy, SendDeploy, RefuseRollback, CallReturns, CallFails, NoReq
      <3>2. \E s \in {"looked", "marked", "sent"} : req'[u] = [req[u] EXCEPT !.st = s]
        BY <1>0, <2>4 DEF LookRun, SendRun, TakeDeploy, SendDeploy, RefuseRollback, CallReturns, Asked, Done,
               RunTaken, Aborted
      <3> QED  BY <3>1, <3>2, ReqKinds
    <2> QED  BY <1>2, <2>1, <2>2, <2>3, <2>4
  <1>3. CASE \E m \in down : OnRun(m) \/ OnDeploy(m)
    <2>1. PICK m \in down : OnRun(m) \/ OnDeploy(m)
      BY <1>3
    <2>2. CASE OnRun(m)
      <3>1. m.k = "run" /\ (req' = Taken(m) \/ req' = Refused(m))
        BY <2>2 DEF OnRun
      <3>2. ~cut /\ u = m.by /\ req[u] # NoReq /\ req[u].kind = "run"
        BY <1>0, <3>1 DEF Taken, Refused, CallsFit, CallFits, Types, CallTypes, NoReq
      <3>3. req'[u] = [req[u] EXCEPT !.st = "refused"]
        BY <1>0, <3>1, <3>2 DEF Taken, Refused
      <3>4. req'[u].kind = "run"
        BY <3>2, <3>3, ReqKinds
      <3> QED  BY <2>2, <3>4
    <2>3. CASE OnDeploy(m)
      <3>1. m.k = "deploy" /\ m.list \in Lists
        BY <2>3, OrderKinds DEF OnDeploy
      <3>2. (AgentIdle /\ req' = Taken(m)) \/ (~AgentIdle /\ req' = Refused(m))
        BY <2>3 DEF OnDeploy
      <3>3. ~cut /\ u = m.by /\ req[u] # NoReq /\ req[u].kind = m.list /\ req[u].id = m.dep
        BY <1>0, <3>1, <3>2 DEF Taken, Refused, CallsFit, CallFits, Types, CallTypes, NoReq
      <3>4. ~AgentIdle
        BY <1>0, <3>2, <3>3 DEF Taken
      <3>5. req'[u] = [req[u] EXCEPT !.st = "refused"]
        BY <1>0, <3>2, <3>3, <3>4 DEF Refused
      <3> QED  BY <2>3, <3>3, <3>4, <3>5
    <2> QED  BY <2>1, <2>2, <2>3
  <1> QED  BY <1>1, <1>2, <1>3, ReqChange

\* While nothing else is marked, nothing goes on.
Nothing == task = NoTask /\ \A m \in down : m.k # "deploy"

\* With no deployment marked none is going on, and none is still to be told.
LEMMA Clear ==
  ASSUME Types, Once, LinksKnown, OrdersGo, TaskMarked, PendingOnce, PendingTrue, link # 0, hello = "done",
         mark.dep = 0 \/ (Unsent(mark.dep) /\ mark.dep \in DepIds /\ Going(deps[mark.dep], "deploy"))
  PROVE  /\ Nothing
         /\ ~cut /\ (\A f \in Flushers : flush[f] = Idle) => NonePending
  <1>1. task = NoTask
    <2> SUFFICES ASSUME task # NoTask PROVE FALSE
      OBVIOUS
    <2>1. task.dep \in DepIds /\ task.list \in Lists /\ mark.dep = task.dep /\ Going(deps[task.dep], task.list)
      BY DEF TaskMarked, Types, AgentTypes, IsTask, TaskType
    <2>2. mark.dep # 0
      BY <2>1 DEF DepIds
    <2>3. CASE task.list = "deploy"
      BY <2>1, <2>2, <2>3 DEF Once, ReachedOnce, TaskIsFirst
    <2>4. CASE task.list = "rollback"
      BY <2>1, <2>2, <2>4 DEF Going, Ended
    <2> QED  BY <2>1, <2>3, <2>4 DEF Lists
  <1>2. ASSUME NEW m \in down, m.k = "deploy" PROVE FALSE
    <2>1. m.dep \in DepIds /\ m.list \in Lists /\ mark.dep = m.dep /\ Going(deps[m.dep], m.list)
      BY <1>2, OrderKinds DEF OrdersGo
    <2>2. mark.dep # 0
      BY <2>1 DEF DepIds
    <2>3. CASE m.list = "deploy"
      BY <1>2, <2>1, <2>2, <2>3 DEF Once, ReachedOnce, IsFirst
    <2>4. CASE m.list = "rollback"
      BY <2>1, <2>2, <2>4 DEF Going, Ended
    <2> QED  BY <2>1, <2>3, <2>4 DEF Lists
  <1>3. ASSUME ~cut, \A f \in Flushers : flush[f] = Idle, NEW e \in DepEndType, Pending(e) PROVE FALSE
    <2>1. ~\E f \in Flushers : HasFlush(f, e)
      BY <1>3 DEF HasFlush, Idle
    <2>2. ~HasUp(e)
      <3> SUFFICES ASSUME NEW i \in DOMAIN up, up[i].k = "deps" PROVE FALSE
        BY DEF HasUp, Range
      <3>1. up[i] \in UpType
        BY DEF Types, WayTypes
      <3>2. up[i].f \in Flushers /\ flush[up[i].f].st = "deps"
        BY <1>3, <3>1 DEF UpType, Types, ChanTypes, WaitsFor
      <3> QED  BY <1>3, <3>2 DEF Idle
    <2>3. e \in Range(dends)
      BY <1>3, <2>1, <2>2 DEF Pending
    <2>4. dends # <<>> /\ dends[1] \in DepEndType /\ dends[1] \in Range(dends)
      <3>1. dends \in Seq(DepEndType)
        BY DEF Types, WayTypes
      <3>2. dends # <<>>
        BY <2>3, NoRange
      <3>3. 1 \in DOMAIN dends
        BY <3>1, <3>2
      <3> QED  BY <3>1, <3>2, <3>3 DEF Range
    <2>5. mark.dep = dends[1].dep
      BY <1>3, <2>4 DEF PendingOnce, Idle
    <2>6. dends[1].dep \in DepIds /\ ~Unsent(dends[1].dep)
      BY <2>4 DEF PendingTrue, Pending, DepEndType
    <2> QED  BY <2>5, <2>6 DEF DepIds
  <1> QED  BY <1>1, <1>2, <1>3 DEF NonePending, Nothing

Marks ==
  /\ LinksKnown /\ ReqsLinked /\ ReqsMarked /\ CallsFit /\ OrdersGo /\ TaskMarked /\ PendingOnce /\ PendingTrue
  /\ Refusals /\ UndoneRows /\ NewestGoes /\ FailsTrue

\* What is done to the rows of the deployments and to the mark.
SameBut(d) == \A e \in DepIds : e # d => deps'[e] = deps[e]

\* What the statements leave alone.
LEMMA RowFields ==
  ASSUME NEW t, t \in DepRows, NEW d \in DepIds, NEW res \in DepResults
  PROVE  /\ \A e \in DepIds : e # d => /\ FinishDeployment(t, d, res)[e] = t[e]
                                       /\ SetRollbackResult(t, d, res)[e] = t[e]
         /\ FinishDeployment(t, d, res)[d].back = t[d].back
         /\ FinishDeployment(t, d, res)[d].res = IF t[d].res = "running" THEN res ELSE t[d].res
         /\ SetRollbackResult(t, d, res)[d].res = t[d].res
         /\ SetRollbackResult(t, d, res)[d].back = res
         /\ FinishDeployment(t, d, res) \in DepRows
  BY DEF FinishDeployment, SetRollbackResult, DepRows

\* What releasing a mark does.
LEMMA MarkTyped ==
  ASSUME Types
  PROVE  /\ mark \in [run : RunIds \cup {NoRun}, dep : 0 .. MaxDep]
         /\ \A d : DepUnmarked(d).dep = IF mark.dep = d THEN 0 ELSE mark.dep
         /\ \A r : RunUnmarked(r).dep = mark.dep
  <1>1. mark \in [run : RunIds \cup {NoRun}, dep : 0 .. MaxDep]
    BY DEF Types, LinkTypes
  <1>2. ASSUME NEW d PROVE DepUnmarked(d).dep = IF mark.dep = d THEN 0 ELSE mark.dep
    BY <1>1 DEF DepUnmarked
  <1>3. ASSUME NEW r PROVE RunUnmarked(r).dep = mark.dep
    BY <1>1 DEF RunUnmarked
  <1> QED  BY <1>1, <1>2, <1>3

\* HELLO closes only what the updater has not told.
LEMMA HelloDoes ==
  ASSUME Types, Hello
  PROVE  /\ hello = "added" /\ hello' = "done" /\ UNCHANGED <<link, req, up, down, cut, last, task, dends, flush, uconn, reached>>
         /\ \A d \in Range(told.deps) : d \in DepIds => deps'[d] = deps[d]
         /\ \A d \in DepIds : /\ deps'[d].res = deps[d].res \/ (deps[d].res = "running" /\ deps'[d].res = "cancel")
                              /\ deps'[d].back = deps[d].back \/ (deps[d].back = "running" /\ deps'[d].back = "cancel")
         /\ told.deps # <<>> => mark'.dep = Head(told.deps)
  <1>1. deps' = CancelLostDeployments(deps, Range(told.deps)) /\ deps \in DepRows
    BY DEF Hello, Types, StoreTypes, DepRows
  <1>2. /\ \A d \in Range(told.deps) : d \in DepIds => deps'[d] = deps[d]
        /\ \A d \in DepIds : /\ deps'[d].res = deps[d].res \/ (deps[d].res = "running" /\ deps'[d].res = "cancel")
                             /\ deps'[d].back = deps[d].back \/ (deps[d].back = "running" /\ deps'[d].back = "cancel")
    BY <1>1 DEF CancelLostDeployments, LostDeployments, Cancelled, DepRows
  <1>3. told.deps # <<>> => mark'.dep = Head(told.deps)
    BY DEF Hello
  <1> QED  BY <1>2, <1>3 DEF Hello, netVars, agentVars, history

\* A step that begins concerns the deployment of its row.
LEMMA StartDoes ==
  ASSUME Types, OnStepStart
  PROVE  /\ hello = "done" /\ link # 0 /\ mark'.dep = mark.dep
         /\ UNCHANGED <<link, hello, told, req, down, cut, last, task, dends, flush, uconn, reached>>
         /\ \/ UNCHANGED deps
            \/ \E r \in RunIds :
                 /\ rows[r] = "wait" /\ ListOf(r) = "rollback" /\ DepOf(r) \in DepIds
                 /\ SameBut(DepOf(r)) /\ deps'[DepOf(r)].res = deps[DepOf(r)].res /\ deps'[DepOf(r)].back = "running"
  <1>1. PICK m \in UpType : m = Head(up) /\ m.k = "start"
    BY RangeFacts DEF OnStepStart, Received, Types, WayTypes
  <1>2. PICK r \in RunIds : r = m.run
    BY <1>1 DEF UpType
  <1>3. mark'.dep = mark.dep
    BY MarkTyped DEF OnStepStart
  <1>5. ASSUME deps' # deps
        PROVE  /\ rows[r] = "wait" /\ ListOf(r) = "rollback" /\ DepOf(r) \in DepIds
               /\ SameBut(DepOf(r)) /\ deps'[DepOf(r)].res = deps[DepOf(r)].res /\ deps'[DepOf(r)].back = "running"
    <2>1. rows[r] = "wait" /\ ListOf(r) = "rollback" /\ deps' = SetRollbackResult(deps, DepOf(r), "running")
      BY <1>1, <1>2, <1>5 DEF OnStepStart
    <2>2. deps \in DepRows
      BY DEF Types, StoreTypes, DepRows
    <2>3. DepOf(r) \in DepIds
      <3> SUFFICES ASSUME DepOf(r) \notin DepIds PROVE FALSE
        OBVIOUS
      <3>1. deps' = deps
        BY <2>1, <2>2 DEF SetRollbackResult, DepRows
      <3> QED  BY <1>5, <3>1
    <2> QED  BY <2>1, <2>2, <2>3, RowFields DEF SameBut, DepResults
  <1> QED  BY <1>3, <1>5 DEF OnStepStart, Received, agentVars, history

\* The end of a deployment concerns that deployment.
LEMMA DeployEndDoes ==
  ASSUME Types, OnDeployEnd
  PROVE  /\ hello = "done" /\ link # 0 /\ UNCHANGED <<link, hello, told, req, down, cut, last, task, dends, uconn, reached>>
         /\ \E e \in DepEndType :
              /\ HasUp(e) /\ Pending(e) /\ SameBut(e.dep)
              /\ e.list = "rollback" => deps'[e.dep].res = deps[e.dep].res /\ deps'[e.dep].back = e.res
              /\ e.list = "deploy" =>
                   /\ deps'[e.dep].res = IF deps[e.dep].res = "running" THEN e.res ELSE deps[e.dep].res
                   /\ deps'[e.dep].back = IF e.rb = "none" THEN deps[e.dep].back ELSE e.rb
              /\ e.list = "rollback" \/ e.rb # "none" =>
                   \A r \in RunIds : DepOf(r) = e.dep /\ ListOf(r) = "rollback" => rows'[r] # "wait"
              /\ mark'.dep = IF mark.dep = e.dep THEN 0 ELSE mark.dep
  <1>1. PICK m \in UpType : m = Head(up) /\ m.k = "deps" /\ m \in Range(up)
    BY RangeFacts DEF OnDeployEnd, Received, Types, WayTypes
  <1>2. PICK e \in DepEndType : e = m.e
    BY <1>1 DEF UpType
  <1>3. HasUp(e) /\ Pending(e)
    BY <1>1, <1>2 DEF HasUp, Pending
  <1>4. mark'.dep = IF mark.dep = e.dep THEN 0 ELSE mark.dep
    BY <1>1, <1>2, MarkTyped DEF OnDeployEnd
  <1>5. deps \in DepRows /\ rows \in [RunIds -> RunResults] /\ e.dep \in DepIds /\ e.list \in Lists /\ e.res \in DepResults
        /\ e.rb \in DepResults
    BY DEF Types, StoreTypes, DepRows, DepEndType, DepResults, Maybe
  <1>6. \A t \in [RunIds -> RunResults] : \A r \in RunIds :
          DepOf(r) = e.dep /\ ListOf(r) = "rollback" => SkipWaitRuns(t, e.dep, "rollback")[r] # "wait"
    BY DEF SkipWaitRuns, WaitingOf
  <1>7. CASE e.list = "rollback"
    <2>1. deps' = SetRollbackResult(deps, e.dep, e.res) /\ rows' = SkipWaitRuns(rows, e.dep, "rollback")
      BY <1>1, <1>2, <1>7 DEF OnDeployEnd, Skipped
    <2>2. SameBut(e.dep) /\ deps'[e.dep].res = deps[e.dep].res /\ deps'[e.dep].back = e.res
      BY <1>5, <2>1, RowFields DEF SameBut
    <2>3. \A r \in RunIds : DepOf(r) = e.dep /\ ListOf(r) = "rollback" => rows'[r] # "wait"
      BY <1>5, <1>6, <2>1
    <2> QED  BY <1>3, <1>4, <1>7, <2>2, <2>3 DEF OnDeployEnd, Received, history
  <1>8. CASE e.list = "deploy"
    <2> DEFINE done == FinishDeployment(deps, e.dep, e.res)
    <2> DEFINE left == SkipWaitRuns(rows, e.dep, "deploy")
    <2>1. IF e.rb # "none" THEN deps' = SetRollbackResult(done, e.dep, e.rb) /\ rows' = SkipWaitRuns(left, e.dep, "rollback")
                           ELSE deps' = done
      BY <1>1, <1>2, <1>8 DEF OnDeployEnd, Skipped
    <2>2. /\ done \in DepRows /\ (\A d \in DepIds : d # e.dep => done[d] = deps[d]) /\ done[e.dep].back = deps[e.dep].back
          /\ done[e.dep].res = IF deps[e.dep].res = "running" THEN e.res ELSE deps[e.dep].res
      BY <1>5, RowFields
    <2>3. left \in [RunIds -> RunResults]
      BY <1>5, RowStatements
    <2> HIDE DEF done, left
    <2>4. /\ SameBut(e.dep)
          /\ deps'[e.dep].res = IF deps[e.dep].res = "running" THEN e.res ELSE deps[e.dep].res
          /\ deps'[e.dep].back = IF e.rb = "none" THEN deps[e.dep].back ELSE e.rb
      <3>1. CASE e.rb # "none"
        BY <1>5, <2>1, <2>2, <3>1, RowFields DEF SameBut
      <3>2. CASE e.rb = "none"
        BY <2>1, <2>2, <3>2 DEF SameBut
      <3> QED  BY <3>1, <3>2
    <2>5. e.rb # "none" => \A r \in RunIds : DepOf(r) = e.dep /\ ListOf(r) = "rollback" => rows'[r] # "wait"
      BY <1>6, <2>1, <2>3
    <2> QED  BY <1>3, <1>4, <1>8, <2>4, <2>5 DEF OnDeployEnd, Received, history
  <1> QED  BY <1>5, <1>7, <1>8 DEF Lists

\* startDeploy concerns a deployment that had no row.
LEMMA TakeDoes ==
  ASSUME Types, Once, NEW u \in Users, TakeDeploy(u)
  PROVE  /\ req[u] # NoReq /\ req[u].kind = "deploy" /\ req[u].id \in DepIds /\ Unsent(req[u].id)
         /\ deps[req[u].id].res = "none" /\ SameBut(req[u].id) /\ deps'[req[u].id].back = "none"
         /\ mark'.dep = mark.dep \/ (Alive(u) /\ mark.dep = 0 /\ mark'.dep = req[u].id)
         /\ Alive(u) /\ req'[u] # NoReq => mark'.dep = req[u].id /\ deps'[req[u].id].res = "running"
         /\ UNCHANGED <<link, hello, told, up, down, cut, last, task, dends, flush, uconn, reached, rows>>
         /\ \A v \in Users : v # u => req'[v] = req[v]
         /\ req'[u] = NoReq \/ req'[u] = [req[u] EXCEPT !.st = "marked"]
  <1>1. req[u] # NoReq /\ req[u].kind = "deploy" /\ req[u].st = "asked"
    BY DEF TakeDeploy, NoReq
  <1>2. PICK d \in DepIds : d = req[u].id /\ Unsent(d) /\ deps[d].res = "none"
    BY <1>1, ReqKinds DEF Unsent, Once, ReqsApart
  <1>3. deps \in DepRows /\ req \in [Users -> ReqType]
    BY DEF Types, StoreTypes, DepRows, WayTypes
  <1> DEFINE free == ~Alive(u) \/ mark.dep = 0
  <1>4. /\ deps' = IF free THEN CreateDeployment(deps, d) ELSE FinishDeployment(CreateDeployment(deps, d), d, "cancel")
        /\ mark' = IF Alive(u) /\ free THEN [mark EXCEPT !.dep = d] ELSE mark
        /\ req' = IF free THEN [req EXCEPT ![u] = [req[u] EXCEPT !.st = "marked"]] ELSE [req EXCEPT ![u] = NoReq]
    BY <1>2 DEF TakeDeploy, Asked, Done
  <1>5. /\ CreateDeployment(deps, d) \in DepRows /\ CreateDeployment(deps, d)[d] = [res |-> "running", back |-> "none"]
        /\ \A e \in DepIds : e # d => CreateDeployment(deps, d)[e] = deps[e]
    BY <1>3 DEF CreateDeployment, DepRows, DepResults, Ended
  <1>6. SameBut(d) /\ deps'[d].back = "none" /\ (free => deps'[d].res = "running")
    <2> DEFINE made == CreateDeployment(deps, d)
    <2>1. made[d].res = "running" /\ made[d].back = "none"
      BY <1>5
    <2>2. deps' = IF free THEN made ELSE FinishDeployment(made, d, "cancel")
      BY <1>4
    <2>3. made \in DepRows /\ \A e \in DepIds : e # d => made[e] = deps[e]
      BY <1>5
    <2> HIDE DEF made, free
    <2>4. CASE free
      BY <2>1, <2>2, <2>3, <2>4 DEF SameBut
    <2>5. CASE ~free
      <3>1. "cancel" \in DepResults
        BY DEF DepResults, Ended
      <3> QED  BY <2>1, <2>2, <2>3, <2>5, <3>1, RowFields DEF SameBut
    <2> QED  BY <2>4, <2>5
  <1>7. mark'.dep = IF Alive(u) /\ free THEN d ELSE mark.dep
    BY <1>4, MarkTyped
  <1>8. (free => req'[u] = [req[u] EXCEPT !.st = "marked"]) /\ (~free => req'[u] = NoReq) /\ \A v \in Users : v # u => req'[v] = req[v]
    BY <1>3, <1>4
  <1>9. UNCHANGED <<link, hello, told, up, down, cut, last, task, dends, flush, uconn, reached, rows>>
    BY DEF TakeDeploy, netVars, agentVars, history
  <1> QED  BY <1>1, <1>2, <1>6, <1>7, <1>8, <1>9

\* abortDeploy closes the deployment of its request.
LEMMA AbortDoes ==
  ASSUME Types, NEW u \in Users, NEW list \in Lists, NEW t, Aborted(u, list, t), req[u].id \in DepIds
  PROVE  /\ SameBut(req[u].id)
         /\ list = "deploy" => /\ deps'[req[u].id].back = deps[req[u].id].back
                               /\ deps'[req[u].id].res = IF deps[req[u].id].res = "running" THEN "fail" ELSE deps[req[u].id].res
         /\ list = "rollback" => deps'[req[u].id].res = deps[req[u].id].res /\ deps'[req[u].id].back = "fail"
         /\ mark'.dep = mark.dep \/ (Alive(u) /\ mark.dep = req[u].id /\ mark'.dep = 0)
         /\ req' = [req EXCEPT ![u] = NoReq]
  <1>1. deps \in DepRows /\ "fail" \in DepResults
    BY DEF Types, StoreTypes, DepRows, DepResults, Ended
  <1>2. mark'.dep = mark.dep \/ (Alive(u) /\ mark.dep = req[u].id /\ mark'.dep = 0)
    BY MarkTyped DEF Aborted
  <1>3. deps' = IF list = "deploy" THEN FinishDeployment(deps, req[u].id, "fail") ELSE SetRollbackResult(deps, req[u].id, "fail")
    BY DEF Aborted
  <1> QED  BY <1>1, <1>2, <1>3, RowFields DEF SameBut, Aborted, Done

\* The windows one by one.
LEMMA ShutWindows ==
  ASSUME Marked
  PROVE  \A w \in {"answer", "hello", "dup", "stale", "outlive", "tardy"} : w \notin Windows
  BY DEF Marked

WaitsOf(d) == \A r \in RunIds : rows'[r] = "wait" => rows[r] = "wait" \/ DepOf(r) = d

\* The order of a deployment, or its abort, concerns the deployment asked for.
LEMMA SendDeployDoes ==
  ASSUME Types, Marked, NEW u \in Users, SendDeploy(u)
  PROVE  /\ req[u] # NoReq /\ req[u].kind = "deploy" /\ req[u].st = "marked" /\ req[u].id \in DepIds /\ Unsent(req[u].id)
         /\ \A f \in Flushers : flush[f] = Idle
         /\ SameBut(req[u].id) /\ deps'[req[u].id].back = deps[req[u].id].back
         /\ deps[req[u].id].res # "running" => deps'[req[u].id].res = deps[req[u].id].res
         /\ mark'.dep = mark.dep \/ (Alive(u) /\ mark.dep = req[u].id /\ mark'.dep = 0)
         /\ \/ down' = down /\ req'[u] = NoReq
            \/ /\ Callable(u) /\ UNCHANGED <<deps, mark>> /\ req'[u] = [req[u] EXCEPT !.st = "sent"]
               /\ \E m : /\ m.k = "deploy" /\ m.by = u /\ m.dep = req[u].id /\ m.list = "deploy"
                         /\ down' = down \cup {m}
         /\ \A v \in Users : v # u => req'[v] = req[v]
         /\ WaitsOf(req[u].id)
         /\ UNCHANGED <<link, hello, told, up, cut, last, task, dends, flush, uconn, reached>>
  <1>1. req[u] # NoReq /\ req[u].kind = "deploy" /\ req[u].st = "marked"
    <2>1. req[u] # NoReq /\ req[u].st = "marked"
      BY DEF SendDeploy, NoReq
    <2> QED  BY <2>1, ReqKinds
  <1>2. PICK d \in DepIds : d = req[u].id
    BY <1>1, ReqKinds
  <1>3. Unsent(d)
    BY <1>1, <1>2 DEF Unsent
  <1>4. \A f \in Flushers : flush[f] = Idle
    BY ShutWindows DEF SendDeploy, NoDuplicate
  <1>5. UNCHANGED <<link, hello, told, up, cut, last, task, dends, flush, uconn, reached>>
    BY DEF SendDeploy, agentVars, history
  <1>6. /\ req \in [Users -> ReqType] /\ rows \in [RunIds -> RunResults] /\ "deploy" \in Lists
        /\ deps \in DepRows
    BY DEF Types, WayTypes, StoreTypes, Lists, DepRows
  <1>7. PICK auto \in AutoBuilds :
          LET back == IF auto THEN BackRuns(d, 0) ELSE <<>>
              made == CreateWaitStepRuns(rows, DeployRuns(d) \o back)
          IN \/ Aborted(u, "deploy", rows) /\ down' = down
             \/ Aborted(u, "deploy", made) /\ down' = down
             \/ /\ Callable(u) /\ rows' = made
                /\ down' = down \cup {[k |-> "deploy", by |-> u, dep |-> d, list |-> "deploy", steps |-> DeployRuns(d),
                                       back |-> back]}
                /\ Asked(u, [req[u] EXCEPT !.st = "sent"])
                /\ UNCHANGED <<deps, mark>>
    BY <1>2 DEF SendDeploy
  <1> DEFINE back == IF auto THEN BackRuns(d, 0) ELSE <<>>
  <1> DEFINE made == CreateWaitStepRuns(rows, DeployRuns(d) \o back)
  <1>8. \A r \in RunIds : made[r] = "wait" => rows[r] = "wait" \/ DepOf(r) = d
    <2>1. 0 \in 0 .. MaxTry
      BY StoreAssumption
    <2>2. /\ DeployRuns(d) \in Seq(StepIds) /\ \A i \in DOMAIN DeployRuns(d) : DepOf(DeployRuns(d)[i]) = d
          /\ BackRuns(d, 0) \in Seq(StepIds) /\ \A i \in DOMAIN BackRuns(d, 0) : DepOf(BackRuns(d, 0)[i]) = d
      BY <2>1, DeployRunsFacts, BackRunsFacts DEF ListFor
    <2>3. back \in Seq(StepIds) /\ \A i \in DOMAIN back : DepOf(back[i]) = d
      BY <2>2
    <2> DEFINE s == DeployRuns(d)
    <2>4. s \in Seq(StepIds) /\ \A i \in DOMAIN s : DepOf(s[i]) = d
      BY <2>2
    <2> HIDE DEF s, back
    <2>5. \A i \in DOMAIN (s \o back) : DepOf((s \o back)[i]) = d
      <3> SUFFICES ASSUME NEW i \in DOMAIN (s \o back) PROVE DepOf((s \o back)[i]) = d
        OBVIOUS
      <3>1. i \in 1 .. Len(s) + Len(back) /\ (s \o back)[i] = IF i <= Len(s) THEN s[i] ELSE back[i - Len(s)]
        BY <2>3, <2>4
      <3>2. CASE i <= Len(s)
        BY <2>4, <3>1, <3>2
      <3>3. CASE i > Len(s)
        <4>1. i - Len(s) \in DOMAIN back /\ (s \o back)[i] = back[i - Len(s)]
          BY <2>3, <2>4, <3>1, <3>3
        <4> QED  BY <2>3, <4>1
      <3> QED  BY <2>3, <2>4, <3>1, <3>2, <3>3
    <2>6. made = CreateWaitStepRuns(rows, s \o back)
      BY DEF s
    <2> DEFINE t == s \o back
    <2> HIDE DEF t
    <2> QED  BY <2>5, <2>6 DEF CreateWaitStepRuns, t
  <1>9. \A t : (\A r \in RunIds : t[r] = "wait" => rows[r] = "wait" \/ DepOf(r) = d)
           => \A r \in RunIds : SkipWaitRunsOf(t, {d})[r] = "wait" => rows[r] = "wait" \/ DepOf(r) = d
    BY DEF SkipWaitRunsOf
  <1> HIDE DEF made, back
  <1>10. CASE \E t \in {rows, made} : Aborted(u, "deploy", t) /\ down' = down
    <2>1. PICK t \in {rows, made} : Aborted(u, "deploy", t) /\ down' = down
      BY <1>10
    <2>2. /\ SameBut(d) /\ deps'[d].back = deps[d].back
          /\ deps[d].res # "running" => deps'[d].res = deps[d].res
          /\ mark'.dep = mark.dep \/ (Alive(u) /\ mark.dep = d /\ mark'.dep = 0)
          /\ req' = [req EXCEPT ![u] = NoReq]
      BY <1>2, <1>6, <2>1, AbortDoes
    <2>3. rows' = SkipWaitRunsOf(t, {d})
      BY <1>2, <2>1 DEF Aborted
    <2>4. WaitsOf(d)
      BY <1>8, <1>9, <2>1, <2>3 DEF WaitsOf
    <2>5. req'[u] = NoReq /\ \A v \in Users : v # u => req'[v] = req[v]
      BY <1>6, <2>2
    <2> QED  BY <1>1, <1>2, <1>3, <1>4, <1>5, <2>1, <2>2, <2>4, <2>5
  <1>11. CASE /\ Callable(u) /\ rows' = made
              /\ down' = down \cup {[k |-> "deploy", by |-> u, dep |-> d, list |-> "deploy", steps |-> DeployRuns(d),
                                     back |-> back]}
              /\ Asked(u, [req[u] EXCEPT !.st = "sent"])
              /\ UNCHANGED <<deps, mark>>
    <2>1. \E m : /\ m.k = "deploy" /\ m.by = u /\ m.dep = req[u].id /\ m.list = "deploy" /\ down' = down \cup {m}
      <3> DEFINE m == [k |-> "deploy", by |-> u, dep |-> d, list |-> "deploy", steps |-> DeployRuns(d), back |-> back]
      <3>1. m.k = "deploy" /\ m.by = u /\ m.dep = req[u].id /\ m.list = "deploy" /\ down' = down \cup {m}
        BY <1>2, <1>11
      <3> QED  BY <3>1
    <2>2. WaitsOf(d)
      BY <1>8, <1>11 DEF WaitsOf
    <2>3. req'[u] = [req[u] EXCEPT !.st = "sent"] /\ \A v \in Users : v # u => req'[v] = req[v]
      BY <1>6, <1>11 DEF Asked
    <2>4. SameBut(d)
      BY <1>11 DEF SameBut
    <2> QED  BY <1>1, <1>2, <1>3, <1>4, <1>5, <1>11, <2>1, <2>2, <2>3, <2>4
  <1> QED  BY <1>7, <1>10, <1>11 DEF made, back

\* A rollback is sent while nothing else is going on.
LEMMA RollbackDoes ==
  ASSUME Types, Marked, NEW u \in Users, SendRollback(u)
  PROVE  /\ req[u] # NoReq /\ req[u].kind = "rollback" /\ req[u].st = "asked" /\ req[u].id \in DepIds
         /\ link # 0 /\ hello = "done" /\ mark.dep = 0 /\ MayRollback(req[u].id)
         /\ \A f \in Flushers : flush[f] = Idle
         /\ \A v \in Users : v # u => req'[v] = req[v]
         /\ \A v \in Users : Asks(v, "deploy") => req[v].id # req[u].id
         /\ \A r \in RunIds : ListOf(r) = "deploy" => rows'[r] = rows[r]
         /\ SameBut(req[u].id) /\ deps'[req[u].id].res = deps[req[u].id].res /\ deps'[req[u].id].back = "running"
         /\ mark'.dep = req[u].id
         /\ req'[u].kind = "rollback" /\ req'[u].id = req[u].id /\ req'[u].conn = link
         /\ req'[u].st = IF cut THEN "refused" ELSE "sent"
         /\ cut => down' = down
         /\ ~cut => \E m : /\ m.k = "deploy" /\ m.by = u /\ m.dep = req[u].id /\ m.list = "rollback" /\ down' = down \cup {m}
         /\ WaitsOf(req[u].id)
         /\ UNCHANGED <<link, hello, told, up, cut, last, task, dends, flush, uconn, reached>>
  <1>1. req[u] # NoReq /\ req[u].kind = "rollback" /\ req[u].st = "asked"
    BY DEF SendRollback, NoReq
  <1>2. PICK d \in DepIds : d = req[u].id
    BY <1>1, ReqKinds
  <1>3. link # 0 /\ hello = "done" /\ mark.dep = 0 /\ MayRollback(d) /\ \A f \in Flushers : flush[f] = Idle
    BY <1>2, ShutWindows DEF SendRollback, Online, Busy, NoDuplicate
  <1>4. \A v \in Users : Asks(v, "deploy") => req[v].id # d
    BY <1>2, ShutWindows DEF SendRollback, NoOutlived, Asks
  <1>5. UNCHANGED <<link, hello, told, up, cut, last, task, dends, flush, uconn, reached>>
    BY DEF SendRollback, agentVars, history
  <1>6. /\ req \in [Users -> ReqType] /\ rows \in [RunIds -> RunResults] /\ deps \in DepRows /\ count.try[d] \in 0 .. MaxTry
        /\ mark \in [run : RunIds \cup {NoRun}, dep : 0 .. MaxDep]
    BY DEF Types, WayTypes, StoreTypes, DepRows, LinkTypes
  <1>7. PICK k : k = count.try[d] + 1
    OBVIOUS
  <1>8. k \in 0 .. MaxTry
    <2>1. count.try[d] < MaxTry
      BY <1>2 DEF SendRollback
    <2> QED  BY <1>6, <1>7, <2>1, StoreAssumption
  <1> DEFINE m == [k |-> "deploy", by |-> u, dep |-> d, list |-> "rollback", steps |-> BackRuns(d, k), back |-> <<>>]
  <1>9. /\ deps' = SetRollbackResult(deps, d, "running") /\ mark' = [mark EXCEPT !.dep = d]
        /\ rows' = CreateWaitStepRuns(DeleteWaitRuns(rows, d, "rollback"), BackRuns(d, k))
        /\ req' = [req EXCEPT ![u] = [req[u] EXCEPT !.st = IF cut THEN "refused" ELSE "sent", !.conn = link]]
        /\ down' = IF cut THEN down ELSE down \cup {m}
    BY <1>2, <1>7 DEF SendRollback, Asked
  <1>10. SameBut(d) /\ deps'[d].res = deps[d].res /\ deps'[d].back = "running" /\ mark'.dep = d
    BY <1>6, <1>9, RowFields DEF SameBut, DepResults
  <1>11. /\ req'[u].kind = "rollback" /\ req'[u].id = d /\ req'[u].conn = link
         /\ req'[u].st = IF cut THEN "refused" ELSE "sent"
         /\ \A v \in Users : v # u => req'[v] = req[v]
    <2>1. req[u] \in DepReqType
      BY <1>1, <1>6 DEF ReqType, RunReqType
    <2>2. req'[u] = [req[u] EXCEPT !.st = IF cut THEN "refused" ELSE "sent", !.conn = link]
      BY <1>6, <1>9
    <2>3. \A v \in Users : v # u => req'[v] = req[v]
      BY <1>6, <1>9
    <2> QED  BY <1>1, <1>2, <2>1, <2>2, <2>3 DEF DepReqType
  <1>12. WaitsOf(d)
    <2>1. \A i \in DOMAIN BackRuns(d, k) : DepOf(BackRuns(d, k)[i]) = d
      BY <1>8, BackRunsFacts DEF ListFor
    <2> DEFINE s == BackRuns(d, k)
    <2> HIDE DEF s
    <2>2. \A r \in RunIds : DeleteWaitRuns(rows, d, "rollback")[r] = "wait" => rows[r] = "wait"
      BY DEF DeleteWaitRuns
    <2> QED  BY <1>9, <2>1, <2>2 DEF CreateWaitStepRuns, WaitsOf, s
  <1>13. m.k = "deploy" /\ m.by = u /\ m.dep = d /\ m.list = "rollback"
    OBVIOUS
  <1>16. \A r \in RunIds : ListOf(r) = "deploy" => rows'[r] = rows[r]
    <2>1. \A i \in DOMAIN BackRuns(d, k) : ListOf(BackRuns(d, k)[i]) = "rollback"
      BY <1>8, BackRunsFacts DEF ListFor
    <2> DEFINE s == BackRuns(d, k)
    <2> HIDE DEF s
    <2>2. \A r \in RunIds : ListOf(r) = "deploy" => DeleteWaitRuns(rows, d, "rollback")[r] = rows[r]
      BY DEF DeleteWaitRuns, WaitingOf
    <2> QED  BY <1>9, <2>1, <2>2 DEF CreateWaitStepRuns, s
  <1> HIDE DEF m
  <1>14. ~cut => \E x : x.k = "deploy" /\ x.by = u /\ x.dep = d /\ x.list = "rollback" /\ down' = down \cup {x}
    BY <1>9, <1>13
  <1>15. cut => down' = down
    BY <1>9
  <1> QED  BY <1>1, <1>2, <1>3, <1>4, <1>5, <1>10, <1>11, <1>12, <1>14, <1>15, <1>16

\* A call fails only when it was refused.
LEMMA ReturnDoes ==
  ASSUME Types, ReqsLinked, NEW u \in Users, CallReturns(u)
  PROVE  /\ req[u] # NoReq /\ req[u].st = "refused" /\ req' = [req EXCEPT ![u] = NoReq]
         /\ req[u].kind = "run" => UNCHANGED deps /\ mark'.dep = mark.dep
         /\ req[u].kind # "run" =>
              /\ req[u].id \in DepIds /\ SameBut(req[u].id)
              /\ mark'.dep = mark.dep \/ (Alive(u) /\ mark.dep = req[u].id /\ mark'.dep = 0)
         /\ req[u].kind = "deploy" =>
              /\ deps'[req[u].id].back = deps[req[u].id].back
              /\ deps'[req[u].id].res = IF deps[req[u].id].res = "running" THEN "fail" ELSE deps[req[u].id].res
         /\ req[u].kind = "rollback" => deps'[req[u].id].res = deps[req[u].id].res /\ deps'[req[u].id].back = "fail"
         /\ \A r \in RunIds : rows'[r] = "wait" => rows[r] = "wait"
         /\ UNCHANGED <<link, hello, told, up, down, cut, last, task, dends, flush, uconn, reached>>
  <1>1. req[u] # NoReq /\ req[u].st = "refused"
    BY DEF CallReturns, CallFails, NoReq, Alive, ReqsLinked, ReqLinked
  <1>2. UNCHANGED <<link, hello, told, up, down, cut, last, task, dends, flush, uconn, reached>>
    BY DEF CallReturns, netVars, agentVars, history
  <1>3. rows \in [RunIds -> RunResults]
    BY DEF Types, StoreTypes
  <1>4. CASE req[u].kind = "run"
    <2>1. UNCHANGED deps /\ mark'.dep = mark.dep /\ req' = [req EXCEPT ![u] = NoReq] /\ rows' = Finished(req[u].id, "fail")
      BY <1>4, MarkTyped DEF CallReturns, Done
    <2>2. \A r \in RunIds : rows'[r] = "wait" => rows[r] = "wait"
      BY <1>3, <2>1 DEF Finished, FinishStepRun
    <2> QED  BY <1>1, <1>2, <1>4, <2>1, <2>2
  <1>5. CASE req[u].kind # "run"
    <2>1. req[u].kind \in Lists /\ req[u].id \in DepIds /\ Aborted(u, req[u].kind, rows)
      BY <1>1, <1>5, ReqKinds DEF CallReturns, Lists
    <2>2. \A r \in RunIds : rows'[r] = "wait" => rows[r] = "wait"
      BY <2>1 DEF Aborted, SkipWaitRunsOf
    <2>3. /\ SameBut(req[u].id)
          /\ req[u].kind = "deploy" => /\ deps'[req[u].id].back = deps[req[u].id].back
                             /\ deps'[req[u].id].res = IF deps[req[u].id].res = "running" THEN "fail" ELSE deps[req[u].id].res
          /\ req[u].kind = "rollback" => deps'[req[u].id].res = deps[req[u].id].res /\ deps'[req[u].id].back = "fail"
          /\ mark'.dep = mark.dep \/ (Alive(u) /\ mark.dep = req[u].id /\ mark'.dep = 0)
          /\ req' = [req EXCEPT ![u] = NoReq]
      BY <2>1, AbortDoes
    <2> QED  BY <1>1, <1>2, <1>5, <2>1, <2>2, <2>3
  <1> QED  BY <1>4, <1>5

\* The newest deployment in place is the one that may be undone.
LEMMA NewestMay ==
  ASSUME Types, NEW d \in DepIds, MayRollback(d)
  PROVE  /\ deps[d].res \in Ended /\ deps[d].back \notin {"running", "ok"}
         /\ \A e \in d + 1 .. MaxDep : deps[e].res # "none" => deps[e].back = "ok"
  <1> DEFINE live == {x \in DepIds : deps[x].res # "none" /\ deps[x].back # "ok"}
  <1>1. deps[d].res \in Ended /\ deps[d].back \notin {"running", "ok"}
    BY DEF MayRollback
  <1>2. d \in live
    BY <1>1 DEF Ended
  <1>3. d = CHOOSE x \in live : \A e \in live : e <= x
    BY <1>2 DEF MayRollback, LatestLiveDeploymentID
  <1>4. \E x \in live : \A e \in live : e <= x
    <2> DEFINE T == {MaxDep - x : x \in live}
    <2>1. T \subseteq Nat /\ T # {}
      BY <1>2, StoreAssumption DEF DepIds
    <2> HIDE DEF T
    <2>2. PICK i \in T : \A k \in T : i <= k
      BY <2>1, LeastOf
    <2>3. PICK x \in live : i = MaxDep - x
      BY <2>2 DEF T
    <2>4. ASSUME NEW e \in live PROVE e <= x
      <3>1. MaxDep - e \in T
        BY DEF T
      <3>2. i <= MaxDep - e /\ e \in Int /\ x \in Int
        BY <2>2, <3>1 DEF DepIds
      <3> QED  BY <2>3, <3>2, StoreAssumption
    <2> QED  BY <2>3, <2>4
  <1>5. \A e \in live : e <= d
    <2> HIDE DEF live
    <2> QED  BY <1>3, <1>4
  <1>6. ASSUME NEW e \in d + 1 .. MaxDep, deps[e].res # "none" PROVE deps[e].back = "ok"
    <2>1. e \in DepIds /\ ~(e <= d)
      BY StoreAssumption DEF DepIds
    <2> QED  BY <1>5, <1>6, <2>1
  <1> QED  BY <1>1, <1>6

\* What goes on of a deployment, and has the mark, keeps both.
LEMMA GoesOn ==
  ASSUME Types, Once, Marked, Marks, [Next]_vars, NEW d \in DepIds, NEW l \in Lists, Going(deps[d], l), NonePending,
         hello = "done" => mark.dep = d, hello = "added" => told.deps = <<d>>, l = "deploy" => ~Unsent(d),
         \A u \in Users : req[u] # NoReq /\ req[u].st = "refused" /\ req[u].kind # "run" => req[u].id # d
  PROVE  Going(deps'[d], l) /\ (hello' = "done" => mark'.dep = d)
  <1> USE DEF dbVars, superVars, netVars, agentVars, history
  <1>0. d # 0 /\ deps[d].res # "none" /\ (l = "rollback" => deps[d].res \in Ended)
    BY DEF DepIds, Going, Ended
  <1>1. CASE Hello
    <2>1. told.deps = <<d>>
      BY <1>1, HelloDoes
    <2>2. d \in Range(told.deps) /\ told.deps # <<>> /\ Head(told.deps) = d
      BY <2>1 DEF Range
    <2> QED  BY <1>1, <2>2, HelloDoes
  <1>2. CASE OnStepStart
    <2>1. hello' = hello /\ mark'.dep = mark.dep
      BY <1>2, StartDoes
    <2>2. CASE UNCHANGED deps
      BY <2>1, <2>2
    <2>3. ASSUME NEW r \in RunIds, DepOf(r) \in DepIds, SameBut(DepOf(r)), deps'[DepOf(r)].res = deps[DepOf(r)].res,
                 deps'[DepOf(r)].back = "running"
          PROVE  Going(deps'[d], l)
      BY <2>3 DEF Going, SameBut
    <2> QED  BY <1>2, <2>1, <2>2, <2>3, StartDoes
  <1>3. ~OnDeployEnd
    BY DeployEndDoes DEF NonePending
  <1>4. ASSUME NEW u \in Users, TakeDeploy(u) PROVE Going(deps'[d], l) /\ (hello' = "done" => mark'.dep = d)
    <2>1. req[u].id # d /\ SameBut(req[u].id) /\ hello' = hello
      BY <1>0, <1>4, TakeDoes
    <2>2. mark'.dep = mark.dep \/ mark.dep = 0
      BY <1>4, TakeDoes
    <2> QED  BY <1>0, <2>1, <2>2 DEF SameBut
  <1>5. ASSUME NEW u \in Users, SendDeploy(u) PROVE Going(deps'[d], l) /\ (hello' = "done" => mark'.dep = d)
    <2>1. /\ req[u] # NoReq /\ req[u].kind = "deploy" /\ req[u].st = "marked" /\ Unsent(req[u].id) /\ hello' = hello
          /\ SameBut(req[u].id) /\ deps'[req[u].id].back = deps[req[u].id].back
          /\ deps[req[u].id].res # "running" => deps'[req[u].id].res = deps[req[u].id].res
          /\ mark'.dep = mark.dep \/ (Alive(u) /\ mark.dep = req[u].id)
      BY <1>5, SendDeployDoes
    <2>2. CASE req[u].id # d
      BY <2>1, <2>2 DEF SameBut
    <2>3. CASE req[u].id = d
      <3>1. l = "rollback"
        BY <2>1, <2>3 DEF Lists
      <3>2. deps[d].res \in Ended /\ deps[d].res # "running"
        BY <1>0, <3>1 DEF Ended
      <3>3. Going(deps'[d], l)
        BY <2>1, <2>3, <3>1, <3>2 DEF Going
      <3>4. ASSUME hello = "done", Alive(u) PROVE FALSE
        <4>1. link # 0 /\ req[u].conn = link
          BY <3>4 DEF Marks, LinksKnown, Alive
        <4>2. Going(deps[d], "deploy")
          BY <2>1, <2>3, <4>1 DEF Marks, ReqsMarked, Asks
        <4> QED  BY <3>2, <4>2 DEF Going
      <3> QED  BY <2>1, <3>3, <3>4
    <2> QED  BY <2>2, <2>3
  <1>6. ASSUME NEW u \in Users, SendRollback(u) PROVE FALSE
    BY <1>0, <1>6, RollbackDoes
  <1>7. ASSUME NEW u \in Users, CallReturns(u) PROVE Going(deps'[d], l) /\ (hello' = "done" => mark'.dep = d)
    <2>1. req[u] # NoReq /\ req[u].st = "refused" /\ hello' = hello
      BY <1>7, ReturnDoes DEF Marks
    <2>2. CASE req[u].kind = "run"
      BY <1>7, <2>1, <2>2, ReturnDoes DEF Marks
    <2>3. CASE req[u].kind # "run"
      <3>1. req[u].id # d /\ SameBut(req[u].id) /\ (mark'.dep = mark.dep \/ mark.dep = req[u].id)
        BY <1>7, <2>1, <2>3, ReturnDoes DEF Marks
      <3> QED  BY <2>1, <3>1 DEF SameBut
    <2> QED  BY <2>2, <2>3
  <1>8. CASE deps' # deps
    BY <1>1, <1>2, <1>3, <1>4, <1>5, <1>6, <1>7, <1>8, DepsChange
  <1>9. CASE deps' = deps
    <2>1. ASSUME hello' = "done" PROVE mark'.dep = d
      <3>1. CASE hello # "done"
        <4>1. Hello
          BY <2>1, <3>1, LinkChange DEF Dial, ServeEnds, SupervisorRestarts, Removed
        <4> QED  BY <1>1, <2>1, <4>1
      <3>2. CASE hello = "done" /\ mark'.dep = mark.dep
        BY <3>2
      <3>3. CASE hello = "done" /\ mark'.dep # mark.dep
        <4>1. ~Dial /\ ~ServeEnds /\ ~SupervisorRestarts
          BY <2>1, <3>3 DEF Dial, ServeEnds, SupervisorRestarts, Removed
        <4> QED  BY <1>1, <1>3, <1>4, <1>5, <1>6, <1>7, <2>1, <3>3, <4>1, MarkChange
      <3> QED  BY <3>1, <3>2, <3>3
    <2> QED  BY <1>9, <2>1
  <1> QED  BY <1>8, <1>9

\* A deployment that goes on keeps the mark.
LEMMA TaskMarkedStep ==
  ASSUME Types, Types', Once, Marked, Marks, [Next]_vars
  PROVE  TaskMarked'
  <1> USE DEF dbVars, superVars, netVars, agentVars, history
  <1> SUFFICES ASSUME task' # NoTask PROVE TaskMarked'
    BY DEF TaskMarked
  <1>0. IsTask(task') /\ task'.dep \in DepIds /\ task'.list \in Lists
    BY DEF Types, AgentTypes, IsTask, TaskType
  <1>1. NonePending'
    <2> SUFFICES ASSUME NEW e \in DepEndType, Pending(e)' PROVE FALSE
      BY DEF NonePending
    <2>1. ~FinishDeploy
      BY DEF FinishDeploy
    <2>2. Pending(e)
      BY <2>1, PendingGoes
    <2>3. CASE task # NoTask
      BY <2>2, <2>3 DEF Marks, TaskMarked, NonePending
    <2>4. CASE task = NoTask
      <3>1. PICK m \in down : m.k = "deploy"
        BY <2>4, NewTask
      <3> QED  BY <2>2, <3>1 DEF Marks, OrdersGo, NonePending
    <2> QED  BY <2>3, <2>4
  <1>2. CASE task = NoTask
    <2>1. PICK m \in down : /\ OnDeploy(m) /\ m.k = "deploy" /\ task'.dep = m.dep /\ task'.list = m.list
                         /\ task'.pc = "check" /\ task'.phase = "list" /\ task'.rb = "none" /\ task'.res = "none"
      BY <1>2, NewTask
    <2>2. UNCHANGED <<deps, hello, link, mark>>
      BY <2>1 DEF OnDeploy
    <2>3. Going(deps[m.dep], m.list) /\ (hello = "done" => mark.dep = m.dep) /\ hello # "added"
      BY <2>1 DEF Marks, OrdersGo, LinksKnown
    <2>4. task'.pc # "over"
      BY <2>1
    <2> QED  BY <1>1, <2>1, <2>2, <2>3, <2>4 DEF TaskMarked
  <1>3. CASE task # NoTask
    <2>0. /\ IsTask(task) /\ task \in TaskType /\ task'.dep = task.dep /\ task'.list = task.list
      BY <1>3, TaskKept DEF Types, AgentTypes, IsTask
    <2>1. /\ NonePending /\ Going(deps[task.dep], task.list) /\ (hello = "done" => mark.dep = task.dep)
          /\ hello = "added" => told.deps = <<task.dep>>
          /\ task.pc # "over" => task.rb = "none" /\ (task.phase = "list" => task.res = "none")
          /\ task.pc = "over" /\ Undone(task) => reached[task.dep].rollback = "ok"
      BY <1>3 DEF Marks, TaskMarked
    <2>2. Going(deps'[task.dep], task.list) /\ (hello' = "done" => mark'.dep = task.dep)
      <3>1. task.dep \in DepIds /\ task.list \in Lists
        BY <1>0, <2>0
      <3>2. task.list = "deploy" => ~Unsent(task.dep)
        BY <1>3, <3>1 DEF Once, ReachedOnce, TaskIsFirst
      <3>3. \A u \in Users : req[u] # NoReq /\ req[u].st = "refused" /\ req[u].kind # "run" => req[u].id # task.dep
        BY <1>3 DEF Marks, Refusals
      <3> QED  BY <2>1, <3>1, <3>2, <3>3, GoesOn
    <2>3. hello' = "added" => told'.deps = <<task.dep>>
      <3> SUFFICES ASSUME hello' = "added" PROVE told'.deps = <<task.dep>>
        OBVIOUS
      <3>1. CASE UNCHANGED <<link, hello, told, last>>
        BY <2>1, <3>1
      <3>2. CASE ~UNCHANGED <<link, hello, told, last>>
        <4>1. Dial
          BY <3>2, LinkChange DEF Hello, ServeEnds, SupervisorRestarts, Removed
        <4>2. dends = <<>>
          <5>1. dends \in Seq(DepEndType)
            BY DEF Types, WayTypes
          <5>2. ASSUME dends # <<>> PROVE FALSE
            <6>1. 1 \in DOMAIN dends /\ dends[1] \in DepEndType
              BY <5>1, <5>2
            <6> QED  BY <2>1, <6>1 DEF NonePending, Pending, Range
          <5> QED  BY <5>2
        <4>3. told'.deps = Deploying
          BY <4>1 DEF Dial
        <4>4. Deploying = <<task.dep>> \o <<>>
          BY <1>3, <4>2 DEF Deploying
        <4>5. <<task.dep>> \o <<>> = <<task.dep>>
          OBVIOUS
        <4> QED  BY <4>3, <4>4, <4>5
      <3> QED  BY <3>1, <3>2
    <2>4. /\ task'.pc # "over" => task'.rb = "none" /\ (task'.phase = "list" => task'.res = "none")
          /\ task'.pc = "over" /\ Undone(task') => reached'[task.dep].rollback = "ok"
      <3>0. reached \in [DepIds -> [deploy : Maybe, rollback : Maybe]] /\ task.dep \in DepIds
        BY <1>0, <2>0 DEF Types, AgentTypes
      <3>1. ASSUME NEW res \in Ended, ListEnds(res), task.pc # "over"
            PROVE  /\ task'.pc # "over" => task'.rb = "none" /\ (task'.phase = "list" => task'.res = "none")
                   /\ task'.pc = "over" /\ Undone(task') => reached'[task.dep].rollback = "ok"
        <4>1. task' = Over(task, res) /\ reached' = [reached EXCEPT ![task.dep][ListKind(task)] = res]
          BY <3>1 DEF ListEnds
        <4>2. CASE RollsBack(task, res)
          <5>1. task' = [task EXCEPT !.phase = "back", !.todo = task.back, !.res = res, !.pc = "check"]
            BY <4>1, <4>2 DEF Over, RollsBack
          <5> QED  BY <2>0, <2>1, <3>1, <5>1 DEF TaskType
        <4>3. CASE ~RollsBack(task, res) /\ task.phase = "back"
          <5>1. task' = [task EXCEPT !.rb = res, !.pc = "over"]
            BY <4>1, <4>3 DEF Over
          <5>2. ListKind(task) = "rollback" /\ task.list = "deploy"
            BY <2>0, <4>3 DEF ListKind, IsTask
          <5>3. reached'[task.dep].rollback = res
            BY <3>0, <4>1, <5>2
          <5>4. task'.pc = "over" /\ task'.rb = res
            BY <2>0, <5>1 DEF TaskType
          <5> QED  BY <2>0, <5>2, <5>3, <5>4 DEF Undone
        <4>4. CASE ~RollsBack(task, res) /\ task.phase # "back"
          <5>1. task' = [task EXCEPT !.res = res, !.pc = "over"] /\ task.phase = "list"
            BY <2>0, <4>1, <4>4 DEF Over, TaskType
          <5>2. task'.rb = "none" /\ task'.pc = "over" /\ task'.res = res
            BY <2>0, <2>1, <3>1, <5>1 DEF TaskType
          <5>3. ASSUME Undone(task') PROVE task.list = "rollback" /\ res = "ok"
            BY <2>0, <5>2, <5>3 DEF Undone
          <5>4. task.list = "rollback" => ListKind(task) = "rollback"
            BY DEF ListKind
          <5>5. task.list = "rollback" => reached'[task.dep].rollback = res
            BY <3>0, <4>1, <5>4
          <5> QED  BY <5>2, <5>3, <5>5
        <4> QED  BY <4>2, <4>3, <4>4
      <3>2. CASE UNCHANGED task
        <4>1. reached' = reached \/ task.pc # "over"
          <5>1. ASSUME task.pc = "over", reached' # reached PROVE FALSE
            <6>1. ~\E m \in down : OnDeploy(m)
              <7> SUFFICES ASSUME NEW m \in down, OnDeploy(m) PROVE FALSE
                OBVIOUS
              <7>1. ~AgentIdle
                BY <1>3 DEF AgentIdle
              <7> QED  BY <5>1, <7>1 DEF OnDeploy
            <6>2. \E res \in Ended : JobEnds(res)
              BY <5>1, <6>1, ReachedChange DEF StepCheck, StepFails
            <6>3. DepOf(job) # 0 /\ job # NoRun
              BY <5>1, <6>2 DEF JobEnds
            <6>4. job \in StepIds
              BY <6>3 DEF Types, AgentTypes, StepIds
            <6> QED  BY <5>1, <6>4 DEF Types, AgentTypes
          <5> QED  BY <5>1
        <4> QED  BY <2>1, <3>2, <4>1
      <3>3. CASE StepCheck
        <4>1. task.pc = "check"
          BY <3>3 DEF StepCheck
        <4>2. CASE ListEnds("ok") \/ ListEnds("cancel")
          BY <3>1, <4>1, <4>2 DEF Ended
        <4>3. CASE task' = [task EXCEPT !.pc = "begin"]
          BY <2>0, <2>1, <4>1, <4>3 DEF TaskType
        <4> QED  BY <3>3, <4>2, <4>3 DEF StepCheck
      <3>4. CASE StepBegin
        <4>1. task' = [task EXCEPT !.pc = "run"] /\ task.pc = "begin"
          BY <3>4 DEF StepBegin
        <4> QED  BY <2>0, <2>1, <4>1 DEF TaskType
      <3>5. CASE StepFails
        <4>1. task.pc = "begin" /\ ListEnds("fail")
          BY <3>5 DEF StepFails
        <4> QED  BY <3>1, <4>1 DEF Ended
      <3>6. CASE task' # task /\ \E res \in Ended : JobEnds(res)
        <4>1. PICK res \in Ended : JobEnds(res)
          BY <3>6
        <4>2. DepOf(job) # 0 /\ job # NoRun
          BY <3>6, <4>1 DEF JobEnds
        <4>3. job \in StepIds
          BY <4>2 DEF Types, AgentTypes, StepIds
        <4>4. task.pc = "run"
          BY <4>3 DEF Types, AgentTypes
        <4>5. ListEnds(res) \/ task' = [task EXCEPT !.todo = Tail(task.todo), !.pc = "check"]
          BY <4>1, <4>2 DEF JobEnds
        <4>6. CASE task' = [task EXCEPT !.todo = Tail(task.todo), !.pc = "check"]
          BY <2>0, <2>1, <4>4, <4>6 DEF TaskType
        <4> QED  BY <3>1, <4>4, <4>5, <4>6
      <3>7. CASE \E m \in down : OnCancel(m)
        <4>1. task' = task \/ task' = [task EXCEPT !.stopped = TRUE]
          BY <3>7 DEF OnCancel
        <4>2. UNCHANGED reached
          BY <3>7 DEF OnCancel
        <4>3. CASE task' = [task EXCEPT !.stopped = TRUE]
          <5>1. task'.pc = task.pc /\ task'.rb = task.rb /\ task'.phase = task.phase /\ task'.res = task.res /\ task'.list = task.list
            BY <2>0, <4>3 DEF TaskType
          <5> QED  BY <2>1, <4>2, <5>1 DEF Undone
        <4> QED  BY <3>2, <4>1, <4>3
      <3>8. task' # task => ~\E m \in down : OnDeploy(m)
        BY <1>3 DEF OnDeploy, AgentIdle
      <3>9. ~UpdaterRestarts /\ ~FinishDeploy
        BY DEF UpdaterRestarts, FinishDeploy
      <3> QED  BY <3>2, <3>3, <3>4, <3>5, <3>6, <3>7, <3>8, <3>9, TaskChange
    <2>5. (hello' = "done" => mark'.dep = task'.dep) /\ (hello' = "added" => told'.deps = <<task'.dep>>)
      BY <2>0, <2>2, <2>3
    <2> QED  BY <1>1, <2>0, <2>2, <2>4, <2>5 DEF TaskMarked
  <1> QED  BY <1>2, <1>3

\* A request keeps what it asks for.
LEMMA ReqStays ==
  ASSUME Types, [Next]_vars, NEW u \in Users, req'[u] # req[u], req'[u] # NoReq
  PROVE  \/ req[u] = NoReq /\ (AskRun(u) \/ \E d \in DepIds : AskDeploy(u, d) \/ AskRollback(u, d))
         \/ /\ req[u] # NoReq /\ req'[u].kind = req[u].kind /\ req'[u].id = req[u].id
            /\ req'[u].conn = req[u].conn \/ SendRollback(u)
            /\ req'[u].st = "marked" => TakeDeploy(u)
  <1> USE DEF dbVars, superVars, netVars, agentVars, history
  <1>0. req \in [Users -> ReqType]
    BY DEF Types, WayTypes
  <1>1. ~SupervisorRestarts
    BY DEF SupervisorRestarts
  <1>2. ASSUME NEW v \in Users,
              \/ AskRun(v) \/ LookRun(v) \/ SendRun(v) \/ TakeDeploy(v) \/ SendDeploy(v)
              \/ RefuseRollback(v) \/ SendRollback(v) \/ CallReturns(v)
              \/ \E d \in DepIds : AskDeploy(v, d) \/ AskRollback(v, d)
        PROVE  \/ req[u] = NoReq /\ (AskRun(u) \/ \E d \in DepIds : AskDeploy(u, d) \/ AskRollback(u, d))
               \/ /\ req[u] # NoReq /\ req'[u].kind = req[u].kind /\ req'[u].id = req[u].id
                  /\ req'[u].conn = req[u].conn \/ SendRollback(u)
                  /\ req'[u].st = "marked" => TakeDeploy(u)
    <2>1. u = v
      BY <1>0, <1>2 DEF AskRun, LookRun, SendRun, TakeDeploy, SendDeploy, RefuseRollback, SendRollback, CallReturns,
             AskDeploy, AskRollback, Asked, Done, RunTaken, Aborted
    <2>2. CASE SendRollback(u)
      <3>1. req[u] \in DepReqType /\ req[u].kind = "rollback" /\ req[u] # NoReq
        BY <1>0, <2>2 DEF SendRollback, NoReq, ReqType, RunReqType
      <3>2. req'[u] = [req[u] EXCEPT !.st = IF cut THEN "refused" ELSE "sent", !.conn = link]
        BY <1>0, <2>2 DEF SendRollback, Asked
      <3>3. req'[u].kind = req[u].kind /\ req'[u].id = req[u].id /\ req'[u].st # "marked"
        BY <3>1, <3>2 DEF DepReqType
      <3> QED  BY <2>2, <3>1, <3>3
    <2>3. CASE (\E d \in DepIds : AskDeploy(u, d) \/ AskRollback(u, d)) \/ AskRun(u)
      BY <2>3 DEF AskRun, AskDeploy, AskRollback
    <2>4. CASE LookRun(u) \/ SendRun(u) \/ TakeDeploy(u) \/ SendDeploy(u) \/ RefuseRollback(u) \/ CallReturns(u)
      <3>1. req[u] # NoReq
        BY <2>4 DEF LookRun, SendRun, TakeDeploy, SendDeploy, RefuseRollback, CallReturns, CallFails, NoReq
      <3>2. \/ TakeDeploy(u) /\ req'[u] = [req[u] EXCEPT !.st = "marked"]
            \/ \E s \in {"looked", "sent"} : req'[u] = [req[u] EXCEPT !.st = s]
        BY <1>0, <2>4 DEF LookRun, SendRun, TakeDeploy, SendDeploy, RefuseRollback, CallReturns, Asked, Done,
               RunTaken, Aborted
      <3>3. \A s : /\ [req[u] EXCEPT !.st = s].kind = req[u].kind /\ [req[u] EXCEPT !.st = s].id = req[u].id
                   /\ [req[u] EXCEPT !.st = s].st = s /\ [req[u] EXCEPT !.st = s].conn = req[u].conn
        BY <3>1, ReqKinds
      <3>4. PICK s : req'[u] = [req[u] EXCEPT !.st = s] /\ (s = "marked" => TakeDeploy(u))
        BY <3>2
      <3>5. /\ req'[u].kind = req[u].kind /\ req'[u].id = req[u].id /\ req'[u].conn = req[u].conn
            /\ req'[u].st = s
        BY <3>3, <3>4
      <3> QED  BY <3>1, <3>4, <3>5
    <2> QED  BY <1>2, <2>1, <2>2, <2>3, <2>4
  <1>3. CASE \E m \in down : OnRun(m) \/ OnDeploy(m)
    <2>1. PICK m \in down : OnRun(m) \/ OnDeploy(m)
      BY <1>3
    <2>2. m.k # "cancel" /\ (req' = Taken(m) \/ req' = Refused(m))
      BY <2>1 DEF OnRun, OnDeploy
    <2>3. ~cut /\ u = m.by /\ req[u] # NoReq
      BY <1>0, <2>2 DEF Taken, Refused, Types, CallTypes, NoReq
    <2>4. req'[u] = [req[u] EXCEPT !.st = "refused"]
      BY <1>0, <2>2, <2>3 DEF Taken, Refused
    <2> QED  BY <2>3, <2>4, ReqKinds
  <1> QED  BY <1>1, <1>2, <1>3, ReqChange

\* A deployment that waits to be sent keeps the mark.
LEMMA ReqsMarkedStep ==
  ASSUME Types, Types', Once, Marked, Marks, [Next]_vars
  PROVE  ReqsMarked'
  <1> USE DEF dbVars, superVars, netVars, agentVars, history
  <1>0. req \in [Users -> ReqType]
    BY DEF Types, WayTypes
  <1>1. ASSUME NEW u \in Users, NEW v \in Users, u # v, Asks(u, "rollback")', Asks(v, "rollback")' PROVE FALSE
    <2>1. ASSUME NEW x \in Users, NEW y \in Users, x # y, Asks(x, "rollback")', Asks(y, "rollback")', ~Asks(x, "rollback")
          PROVE  FALSE
      <3>1. req[x] = NoReq /\ \E d \in DepIds : AskRollback(x, d)
        <4>1. req'[x] # NoReq /\ req'[x].kind = "rollback" /\ req'[x] # req[x]
          BY <2>1 DEF Asks
        <4>2. req[x] = NoReq /\ (AskRun(x) \/ \E d \in DepIds : AskDeploy(x, d) \/ AskRollback(x, d))
          BY <2>1, <4>1, ReqStays DEF Asks
        <4>3. ~AskRun(x) /\ ~\E d \in DepIds : AskDeploy(x, d)
          BY <1>0, <4>1 DEF AskRun, AskDeploy, Asked
        <4> QED  BY <4>2, <4>3
      <3>2. req'[y] = req[y] /\ \A w \in Users : req[w] # NoReq => req[w].kind # "rollback"
        BY <1>0, <2>1, <3>1 DEF AskRollback, Asked
      <3> QED  BY <2>1, <3>2 DEF Asks
    <2>2. Asks(u, "rollback") /\ Asks(v, "rollback")
      BY <1>1, <2>1
    <2> QED  BY <1>1, <2>2 DEF Marks, ReqsMarked
  <1>2. ASSUME NEW u \in Users, Asks(u, "deploy")', req'[u].st = "marked", req'[u].conn = link', link' # 0
        PROVE  mark'.dep = req'[u].id /\ Going(deps'[req'[u].id], "deploy")
    <2>0. req'[u] # NoReq /\ req'[u].kind = "deploy"
      BY <1>2 DEF Asks
    <2>1. CASE req'[u] # req[u]
      <3>1. req[u] # NoReq /\ TakeDeploy(u) /\ req'[u].id = req[u].id
        <4>1. ~AskRun(u) /\ ~\E d \in DepIds : AskDeploy(u, d) \/ AskRollback(u, d)
          BY <1>0, <1>2 DEF AskRun, AskDeploy, AskRollback, Asked
        <4> QED  BY <1>2, <2>0, <2>1, <4>1, ReqStays
      <3>2. Alive(u)
        <4>1. req'[u] = [req[u] EXCEPT !.st = "marked"] /\ link' = link
          BY <2>0, <3>1, TakeDoes
        <4>2. req'[u].conn = req[u].conn
          BY <3>1, <4>1, ReqKinds
        <4> QED  BY <1>2, <4>1, <4>2 DEF Alive
      <3> QED  BY <2>0, <3>1, <3>2, TakeDoes DEF Going
    <2>2. CASE req'[u] = req[u]
      <3>0. PICK d \in DepIds : /\ d = req[u].id /\ req[u] # NoReq /\ req[u].kind = "deploy" /\ req[u].st = "marked"
                                /\ Unsent(d) /\ d # 0
        <4>1. req[u] # NoReq /\ req[u].kind = "deploy" /\ req[u].st = "marked"
          BY <1>2, <2>0, <2>2
        <4>2. req[u].id \in DepIds
          BY <4>1, ReqKinds
        <4> QED  BY <4>1, <4>2 DEF Unsent, DepIds
      <3>1. ~SupervisorRestarts /\ ~Dial /\ ~ServeEnds /\ ~Hello
        <4>1. ~SupervisorRestarts
          BY <1>2 DEF SupervisorRestarts
        <4>2. ~Dial
          <5>1. req[u].conn <= last
            BY <3>0 DEF Marks, ReqsLinked, ReqLinked
          <5>2. last \in Nat
            BY StateAssumption DEF Types, LinkTypes
          <5> QED  BY <1>2, <2>2, <5>1, <5>2 DEF Dial
        <4>3. ASSUME ServeEnds PROVE FALSE
          <5>1. hello' = "leaked" /\ hello # "leaked" /\ link' = link /\ hello # "done"
            BY <1>2, <4>3 DEF ServeEnds, Removed
          <5>2. hello = "added"
            <6>1. hello # "no"
              BY <1>2, <5>1 DEF Marks, LinksKnown
            <6> QED  BY <5>1, <6>1 DEF Types, LinkTypes
          <5> QED  BY <1>2, <2>2, <3>0, <5>1, <5>2 DEF Marks, ReqsLinked, ReqLinked
        <4>4. ASSUME Hello PROVE FALSE
          <5>1. hello = "added" /\ link' = link
            BY <4>4, HelloDoes
          <5> QED  BY <1>2, <2>2, <3>0, <5>1 DEF Marks, ReqsLinked, ReqLinked
        <4> QED  BY <4>1, <4>2, <4>3, <4>4
      <3>2. link' = link
        BY <3>1, LinkChange
      <3>3. mark.dep = d /\ Going(deps[d], "deploy")
        BY <1>2, <2>2, <3>0, <3>2 DEF Marks, ReqsMarked, Asks
      <3>4. CASE OnStepStart
        <4>1. mark'.dep = mark.dep
          BY <3>4, StartDoes
        <4>2. CASE UNCHANGED deps
          BY <2>2, <3>0, <3>3, <4>1, <4>2
        <4>3. ASSUME NEW r \in RunIds, DepOf(r) \in DepIds, SameBut(DepOf(r)), deps'[DepOf(r)].res = deps[DepOf(r)].res,
                     deps'[DepOf(r)].back = "running"
              PROVE  Going(deps'[d], "deploy")
          BY <3>3, <4>3 DEF Going, SameBut
        <4> QED  BY <2>2, <3>0, <3>3, <3>4, <4>1, <4>2, <4>3, StartDoes
      <3>5. CASE OnDeployEnd
        <4>1. PICK e \in DepEndType : Pending(e) /\ SameBut(e.dep) /\ mark'.dep = IF mark.dep = e.dep THEN 0 ELSE mark.dep
          BY <3>5, DeployEndDoes
        <4>2. e.dep # d
          BY <3>0, <4>1 DEF Marks, PendingTrue
        <4> QED  BY <2>2, <3>0, <3>3, <4>1, <4>2 DEF SameBut
      <3>6. ASSUME NEW v \in Users, TakeDeploy(v) PROVE mark'.dep = d /\ Going(deps'[d], "deploy")
        <4>1. deps[req[v].id].res = "none" /\ SameBut(req[v].id) /\ (mark'.dep = mark.dep \/ mark.dep = 0)
          BY <3>6, TakeDoes
        <4>2. req[v].id # d
          BY <3>3, <4>1 DEF Going
        <4> QED  BY <3>0, <3>3, <4>1, <4>2 DEF SameBut
      <3>7. ASSUME NEW v \in Users, SendDeploy(v) PROVE mark'.dep = d /\ Going(deps'[d], "deploy")
        <4>1. /\ req[v] # NoReq /\ req[v].kind = "deploy" /\ SameBut(req[v].id)
              /\ mark'.dep = mark.dep \/ mark.dep = req[v].id
              /\ req'[v] # req[v]
          <5>1. req[v] # NoReq /\ req[v].st = "marked"
            BY <3>7, SendDeployDoes
          <5>2. req'[v] # req[v]
            <6>1. [req[v] EXCEPT !.st = "sent"].st = "sent"
              BY <5>1, ReqKinds
            <6>2. req'[v] = NoReq \/ req'[v] = [req[v] EXCEPT !.st = "sent"]
              BY <3>7, SendDeployDoes
            <6>3. req'[v] = NoReq \/ req'[v].st = "sent"
              BY <6>1, <6>2
            <6> QED  BY <5>1, <6>3
          <5> QED  BY <3>7, <5>2, SendDeployDoes
        <4>2. v # u
          BY <2>2, <4>1
        <4>3. req[v].id # d
          BY <3>0, <4>1, <4>2 DEF Once, ReqsApart
        <4> QED  BY <3>3, <4>1, <4>3 DEF SameBut
      <3>8. ASSUME NEW v \in Users, SendRollback(v) PROVE FALSE
        BY <3>0, <3>3, <3>8, RollbackDoes
      <3>9. ASSUME NEW v \in Users, CallReturns(v) PROVE mark'.dep = d /\ Going(deps'[d], "deploy")
        <4>1. req[v] # NoReq /\ req[v].st = "refused"
          BY <3>9, ReturnDoes DEF Marks
        <4>2. CASE req[v].kind = "run"
          BY <3>3, <3>9, <4>2, ReturnDoes DEF Marks
        <4>3. CASE req[v].kind # "run"
          <5>1. SameBut(req[v].id) /\ (mark'.dep = mark.dep \/ mark.dep = req[v].id)
            BY <3>9, <4>3, ReturnDoes DEF Marks
          <5>2. req[v].kind \in {"deploy", "rollback"}
            BY <4>1, <4>3, ReqKinds
          <5>3. req[v].id # d
            <6>1. CASE req[v].kind = "deploy"
              BY <3>0, <4>1, <6>1 DEF Once, ReqsApart
            <6>2. CASE req[v].kind = "rollback"
              BY <3>3, <4>1, <6>2 DEF Marks, ReqsLinked, ReqLinked, Going, Ended
            <6> QED  BY <5>2, <6>1, <6>2
          <5> QED  BY <3>3, <5>1, <5>3 DEF SameBut
        <4> QED  BY <4>2, <4>3
      <3>10. mark'.dep = d /\ Going(deps'[d], "deploy")
        <4>1. CASE mark'.dep = mark.dep /\ deps' = deps
          BY <3>3, <4>1
        <4>2. CASE deps' # deps
          BY <2>2, <3>0, <3>1, <3>4, <3>5, <3>6, <3>7, <3>8, <3>9, <4>2, DepsChange
        <4>3. CASE mark'.dep # mark.dep
          BY <2>2, <3>0, <3>1, <3>4, <3>5, <3>6, <3>7, <3>8, <3>9, <4>3, MarkChange
        <4> QED  BY <4>1, <4>2, <4>3
      <3> QED  BY <2>2, <3>0, <3>10
    <2> QED  BY <2>1, <2>2
  <1> QED  BY <1>1, <1>2 DEF ReqsMarked, Asks

\* An order on its way keeps the mark, and is the only one.
LEMMA OrdersGoStep ==
  ASSUME Types, Types', Once, Marked, Marks, [Next]_vars
  PROVE  OrdersGo'
  <1> USE DEF dbVars, superVars, netVars, agentVars, history
  <1>1. ASSUME NEW m \in down, m \in down', m.k = "deploy"
        PROVE  /\ IF link' = 0 THEN cut' ELSE ~cut' /\ hello' = "done"
               /\ task' = NoTask /\ NonePending' /\ Going(deps'[m.dep], m.list)
               /\ hello' = "done" => mark'.dep = m.dep
    <2>0. m.dep \in DepIds /\ m.list \in Lists
      BY <1>1, OrderKinds
    <2>1. /\ IF link = 0 THEN cut ELSE ~cut /\ hello = "done"
          /\ task = NoTask /\ NonePending /\ Going(deps[m.dep], m.list)
          /\ hello = "done" => mark.dep = m.dep
      BY <1>1 DEF Marks, OrdersGo
    <2>2. hello # "added"
      BY <2>1 DEF Marks, LinksKnown
    <2>3. Going(deps'[m.dep], m.list) /\ (hello' = "done" => mark'.dep = m.dep)
      <3>1. m.list = "deploy" => ~Unsent(m.dep)
        BY <1>1, <2>0 DEF Once, ReachedOnce, IsFirst
      <3>2. \A u \in Users : req[u] # NoReq /\ req[u].st = "refused" /\ req[u].kind # "run" => req[u].id # m.dep
        BY <1>1 DEF Marks, Refusals
      <3> QED  BY <2>0, <2>1, <2>2, <3>1, <3>2, GoesOn
    <2>4. task' = NoTask
      <3> SUFFICES ASSUME task' # NoTask PROVE FALSE
        OBVIOUS
      <3>1. PICK n \in down : OnDeploy(n) /\ n.k = "deploy"
        BY <2>1, NewTask
      <3>2. n = m
        BY <1>1, <3>1 DEF Marks, OrdersGo
      <3> QED  BY <1>1, <3>1, <3>2 DEF OnDeploy
    <2>5. NonePending'
      <3>1. ~FinishDeploy
        BY <2>1 DEF FinishDeploy, NoTask
      <3> QED  BY <2>1, <3>1, PendingGoes DEF NonePending
    <2>6. IF link' = 0 THEN cut' ELSE ~cut' /\ hello' = "done"
      <3>1. ~Dial /\ ~UpdaterRestarts
        BY <1>1 DEF Dial, UpdaterRestarts
      <3>2. ~Hello
        BY <2>2, HelloDoes
      <3>3. ~ServeEnds
        BY <2>1 DEF ServeEnds
      <3>4. CASE SupervisorRestarts
        BY <3>4 DEF SupervisorRestarts
      <3>5. ASSUME Cut PROVE FALSE
        <4>1. ~cut /\ \A u \in Users : req[u].st # "sent"
          BY <3>5, ShutWindows DEF Cut, MayCut
        <4>2. m.by \in Users /\ req[m.by].st = "sent"
          BY <1>1, <4>1, OrderKinds DEF Types, CallTypes
        <4> QED  BY <4>1, <4>2
      <3>6. CASE ~SupervisorRestarts
        <4>1. UNCHANGED <<link, hello>>
          BY <3>1, <3>2, <3>3, <3>6, LinkChange
        <4>2. UNCHANGED cut
          BY <3>1, <3>5, <3>6, CutChange
        <4> QED  BY <2>1, <4>1, <4>2
      <3> QED  BY <3>4, <3>6
    <2> QED  BY <2>3, <2>4, <2>5, <2>6
  <1>2. ASSUME NEW m \in down', m \notin down, m.k = "deploy"
        PROVE  /\ link' # 0 /\ ~cut' /\ hello' = "done"
               /\ task' = NoTask /\ NonePending' /\ Going(deps'[m.dep], m.list)
               /\ mark'.dep = m.dep
               /\ \A n \in down' : n.k = "deploy" => n = m
    <2>0. \E u \in Users : SendDeploy(u) \/ SendRollback(u)
      <3>1. ASSUME NEW u \in Users, SendRun(u) PROVE FALSE
        BY <1>2, <3>1 DEF SendRun
      <3> QED  BY <1>2, <3>1, DownChange
    <2>1. PICK u \in Users : SendDeploy(u) \/ SendRollback(u)
      BY <2>0
    <2>2. ~FinishDeploy
      BY <2>1 DEF SendDeploy, SendRollback, FinishDeploy, Asked, Done, Aborted, NoTask
    <2>3. CASE SendDeploy(u)
      <3>1. /\ req[u] # NoReq /\ req[u].kind = "deploy" /\ req[u].st = "marked" /\ req[u].id \in DepIds /\ Unsent(req[u].id)
            /\ \A f \in Flushers : flush[f] = Idle
            /\ UNCHANGED <<link, hello, told, up, cut, last, task, dends, flush, uconn, reached>>
        BY <2>3, SendDeployDoes
      <3>2. /\ Callable(u) /\ UNCHANGED <<deps, mark>> /\ m.dep = req[u].id /\ m.list = "deploy" /\ down' = down \cup {m}
        <4>1. down' # down
          BY <1>2
        <4>2. PICK x : /\ Callable(u) /\ UNCHANGED <<deps, mark>> /\ x.dep = req[u].id /\ x.list = "deploy"
                       /\ down' = down \cup {x}
          BY <2>3, <4>1, SendDeployDoes
        <4>3. x = m
          BY <1>2, <4>2
        <4> QED  BY <4>2, <4>3
      <3>3. req[u].conn = link /\ ~cut /\ link # 0
        BY <3>1, <3>2 DEF Callable, Alive, Marks, ReqsLinked, ReqLinked
      <3>4. hello = "done"
        <4>1. hello \notin {"added", "leaked"}
          BY <3>1, <3>3 DEF Marks, ReqsLinked, ReqLinked
        <4>2. hello # "no"
          BY <3>3 DEF Marks, LinksKnown
        <4> QED  BY <4>1, <4>2 DEF Types, LinkTypes
      <3>5. mark.dep = req[u].id /\ Going(deps[req[u].id], "deploy")
        BY <3>1, <3>3 DEF Marks, ReqsMarked, Asks
      <3>6. Nothing /\ NonePending
        BY <3>1, <3>3, <3>4, <3>5, Clear DEF Marks
      <3>7. NonePending'
        BY <2>2, <3>6, PendingGoes DEF NonePending
      <3>8. link' # 0 /\ ~cut' /\ hello' = "done" /\ task' = NoTask
        BY <3>1, <3>3, <3>4, <3>6 DEF Nothing
      <3>9. \A n \in down' : n.k = "deploy" => n = m
        BY <3>2, <3>6 DEF Nothing
      <3>10. Going(deps'[m.dep], m.list) /\ mark'.dep = m.dep
        BY <3>2, <3>5
      <3> QED  BY <3>7, <3>8, <3>9, <3>10
    <2>4. CASE SendRollback(u)
      <3>1. /\ link # 0 /\ hello = "done" /\ mark.dep = 0 /\ MayRollback(req[u].id) /\ req[u].id \in DepIds
            /\ \A f \in Flushers : flush[f] = Idle
            /\ deps'[req[u].id].res = deps[req[u].id].res /\ deps'[req[u].id].back = "running"
            /\ mark'.dep = req[u].id
            /\ UNCHANGED <<link, hello, told, up, cut, last, task, dends, flush, uconn, reached>>
        BY <2>4, RollbackDoes
      <3>2. ~cut
        BY <1>2, <2>4, RollbackDoes
      <3>3. m.dep = req[u].id /\ m.list = "rollback" /\ down' = down \cup {m}
        BY <1>2, <2>4, <3>2, RollbackDoes
      <3>4. Nothing /\ NonePending
        BY <3>1, <3>2, Clear DEF Marks
      <3>5. NonePending'
        BY <2>2, <3>4, PendingGoes DEF NonePending
      <3>6. Going(deps'[m.dep], m.list)
        BY <3>1, <3>3 DEF Going, MayRollback
      <3>7. link' # 0 /\ ~cut' /\ hello' = "done" /\ task' = NoTask
        BY <3>1, <3>2, <3>4 DEF Nothing
      <3>8. \A n \in down' : n.k = "deploy" => n = m
        BY <3>3, <3>4 DEF Nothing
      <3> QED  BY <3>1, <3>3, <3>5, <3>6, <3>7, <3>8
    <2> QED  BY <2>1, <2>3, <2>4
  <1>3. ASSUME NEW m \in down', NEW n \in down', m.k = "deploy", n.k = "deploy" PROVE m = n
    <2>1. CASE m \in down /\ n \in down
      BY <1>3, <2>1 DEF Marks, OrdersGo
    <2>2. CASE m \notin down \/ n \notin down
      BY <1>2, <1>3, <2>2
    <2> QED  BY <2>1, <2>2
  <1>4. ASSUME NEW m \in down', m.k = "deploy"
        PROVE  /\ IF link' = 0 THEN cut' ELSE ~cut' /\ hello' = "done"
               /\ task' = NoTask /\ NonePending' /\ Going(deps'[m.dep], m.list)
               /\ hello' = "done" => mark'.dep = m.dep
    <2>1. CASE m \in down
      BY <1>1, <1>4, <2>1
    <2>2. CASE m \notin down
      BY <1>2, <1>4, <2>2
    <2> QED  BY <2>1, <2>2
  <1> QED  BY <1>3, <1>4 DEF OrdersGo

\* Only an answer of the updater records a deployment as undone.
LEMMA BackOk ==
  ASSUME Types, Once, Marked, Marks, [Next]_vars, NEW d \in DepIds, deps'[d].back = "ok", deps[d].back # "ok"
  PROVE  /\ OnDeployEnd
         /\ \E e \in DepEndType : Pending(e) /\ e.dep = d /\ Undone(e)
         /\ \A r \in RunIds : DepOf(r) = d /\ ListOf(r) = "rollback" => rows'[r] # "wait"
  <1>1. CASE Hello
    BY <1>1, HelloDoes
  <1>2. CASE OnStepStart
    <2>1. PICK r \in RunIds : SameBut(DepOf(r)) /\ deps'[DepOf(r)].back = "running"
      BY <1>2, StartDoes
    <2> QED  BY <2>1 DEF SameBut
  <1>3. CASE OnDeployEnd
    <2>1. PICK e \in DepEndType :
              /\ Pending(e) /\ SameBut(e.dep)
              /\ e.list = "rollback" => deps'[e.dep].back = e.res
              /\ e.list = "deploy" => deps'[e.dep].back = IF e.rb = "none" THEN deps[e.dep].back ELSE e.rb
              /\ e.list = "rollback" \/ e.rb # "none" =>
                   \A r \in RunIds : DepOf(r) = e.dep /\ ListOf(r) = "rollback" => rows'[r] # "wait"
      BY <1>3, DeployEndDoes
    <2>2. e.dep = d
      BY <2>1 DEF SameBut
    <2>3. e.list \in Lists
      BY DEF DepEndType
    <2>4. Undone(e) /\ (e.list = "rollback" \/ e.rb # "none")
      BY <2>1, <2>2, <2>3 DEF Lists, Undone
    <2> QED  BY <1>3, <2>1, <2>2, <2>4
  <1>4. ASSUME NEW u \in Users, TakeDeploy(u) PROVE FALSE
    BY <1>4, TakeDoes DEF SameBut
  <1>5. ASSUME NEW u \in Users, SendDeploy(u) PROVE FALSE
    BY <1>5, SendDeployDoes DEF SameBut
  <1>6. ASSUME NEW u \in Users, SendRollback(u) PROVE FALSE
    BY <1>6, RollbackDoes DEF SameBut
  <1>7. ASSUME NEW u \in Users, CallReturns(u) PROVE FALSE
    <2>1. req[u] # NoReq
      BY <1>7, ReturnDoes DEF Marks
    <2>2. req[u].kind \in {"run", "deploy", "rollback"}
      BY <2>1, ReqKinds
    <2> QED  BY <1>7, <2>2, ReturnDoes DEF Marks, SameBut
  <1> QED  BY <1>1, <1>2, <1>3, <1>4, <1>5, <1>6, <1>7, DepsChange

\* What has been undone is not made undone again.
LEMMA BackStays ==
  ASSUME Types, Once, Marked, Marks, [Next]_vars, NEW d \in DepIds, deps[d].back = "ok"
  PROVE  deps'[d].back = "ok"
  <1>1. CASE Hello
    BY <1>1, HelloDoes
  <1>2. CASE OnStepStart
    <2>1. CASE UNCHANGED deps
      BY <2>1
    <2>2. ASSUME NEW r \in RunIds, rows[r] = "wait", ListOf(r) = "rollback", DepOf(r) \in DepIds, SameBut(DepOf(r))
          PROVE  deps'[d].back = "ok"
      <3>1. DepOf(r) # d
        BY <2>2 DEF Marks, UndoneRows
      <3> QED  BY <2>2, <3>1 DEF SameBut
    <2> QED  BY <1>2, <2>1, <2>2, StartDoes
  <1>3. CASE OnDeployEnd
    <2>1. PICK e \in DepEndType :
              /\ Pending(e) /\ SameBut(e.dep)
              /\ e.list = "rollback" => deps'[e.dep].back = e.res
              /\ e.list = "deploy" => deps'[e.dep].back = IF e.rb = "none" THEN deps[e.dep].back ELSE e.rb
      BY <1>3, DeployEndDoes
    <2>2. CASE e.dep # d
      BY <2>1, <2>2 DEF SameBut
    <2>3. CASE e.dep = d
      <3>1. e.list \in Lists
        BY DEF DepEndType
      <3>2. Going(deps[d], e.list) \/ Told(deps[d], e)
        BY <2>1, <2>3 DEF Marks, PendingTrue
      <3>3. ~Going(deps[d], e.list)
        BY <3>1 DEF Lists, Going
      <3>4. Undone(e) \/ (e.list # "rollback" /\ e.rb = "none")
        BY <3>2, <3>3 DEF Told
      <3> QED  BY <2>1, <2>3, <3>1, <3>4 DEF Lists, Undone
    <2> QED  BY <2>2, <2>3
  <1>4. ASSUME NEW u \in Users, TakeDeploy(u) PROVE deps'[d].back = "ok"
    <2>1. Unsent(req[u].id) /\ req[u].id \in DepIds /\ SameBut(req[u].id)
      BY <1>4, TakeDoes
    <2>2. req[u].id # d
      BY <2>1 DEF Marks, UndoneRows
    <2> QED  BY <2>1, <2>2 DEF SameBut
  <1>5. ASSUME NEW u \in Users, SendDeploy(u) PROVE deps'[d].back = "ok"
    BY <1>5, SendDeployDoes DEF SameBut
  <1>6. ASSUME NEW u \in Users, SendRollback(u) PROVE deps'[d].back = "ok"
    <2>1. MayRollback(req[u].id) /\ SameBut(req[u].id)
      BY <1>6, RollbackDoes
    <2> QED  BY <2>1 DEF SameBut, MayRollback
  <1>7. ASSUME NEW u \in Users, CallReturns(u) PROVE deps'[d].back = "ok"
    <2>1. req[u] # NoReq /\ req[u].st = "refused"
      BY <1>7, ReturnDoes DEF Marks
    <2>2. req[u].kind \in {"run", "deploy", "rollback"}
      BY <2>1, ReqKinds
    <2>3. CASE req[u].kind = "run"
      BY <1>7, <2>3, ReturnDoes DEF Marks
    <2>4. CASE req[u].kind = "deploy"
      BY <1>7, <2>4, ReturnDoes DEF Marks, SameBut
    <2>5. CASE req[u].kind = "rollback"
      <3>1. deps[req[u].id].back # "ok"
        BY <2>1, <2>5 DEF Marks, Refusals
      <3> QED  BY <1>7, <2>5, <3>1, ReturnDoes DEF Marks, SameBut
    <2> QED  BY <2>2, <2>3, <2>4, <2>5
  <1> QED  BY <1>1, <1>2, <1>3, <1>4, <1>5, <1>6, <1>7, DepsChange

\* Only a list that runs, or an order that starts one, changes what became of a deployment.
LEMMA ReachedGoes ==
  ASSUME Types, [Next]_vars, NEW d \in DepIds, reached'[d] # reached[d]
  PROVE  (task # NoTask /\ task.dep = d) \/ \E m \in down : m.k = "deploy" /\ m.dep = d
  <1>0. reached \in [DepIds -> [deploy : Maybe, rollback : Maybe]]
    BY DEF Types, AgentTypes
  <1>1. CASE \E m \in down : OnDeploy(m)
    <2>1. PICK m \in down : OnDeploy(m)
      BY <1>1
    <2>2. m.k = "deploy" /\ reached' = [reached EXCEPT ![m.dep][m.list] = "none"]
      BY <2>1 DEF OnDeploy
    <2>3. m.dep = d
      BY <1>0, <2>2
    <2> QED  BY <2>2, <2>3
  <1>2. CASE StepCheck \/ StepFails \/ \E res \in Ended : JobEnds(res)
    <2>1. PICK res : ListEnds(res)
      BY <1>2 DEF StepCheck, StepFails, JobEnds
    <2>2. task.dep = d
      BY <1>0, <2>1 DEF ListEnds
    <2>3. task # NoTask
      BY <2>2 DEF NoTask, DepIds
    <2> QED  BY <2>2, <2>3
  <1> QED  BY <1>1, <1>2, ReachedChange

\* Only an order that is sent makes steps wait.
LEMMA WaitsCome ==
  ASSUME Types, Once, Real, Marked, Marks, [Next]_vars, NEW r \in RunIds, rows'[r] = "wait", rows[r] # "wait"
  PROVE  \E u \in Users : (SendDeploy(u) \/ SendRollback(u)) /\ DepOf(r) = req[u].id
  <1>0. rows \in [RunIds -> RunResults]
    BY DEF Types, StoreTypes
  <1>1. CASE Hello \/ OnStepStart \/ OnEnd \/ OnDeployEnd
    <2>1. RowsHeard
      BY <1>1, HelloHeard, StartHeard, EndHeard
    <2> QED  BY <2>1 DEF RowsHeard, Ended
  <1>2. ASSUME NEW u \in Users, AskRun(u) \/ LookRun(u) \/ SendRun(u) PROVE FALSE
    BY <1>0, <1>2 DEF AskRun, LookRun, SendRun, RunTaken, Finished, FinishStepRun, CreateStepRun
  <1>3. ASSUME NEW u \in Users, CallReturns(u) PROVE FALSE
    BY <1>3, ReturnDoes DEF Marks
  <1>4. ASSUME NEW u \in Users, SendDeploy(u) \/ SendRollback(u) PROVE DepOf(r) = req[u].id
    <2>1. WaitsOf(req[u].id)
      BY <1>4, SendDeployDoes, RollbackDoes
    <2> QED  BY <2>1 DEF WaitsOf
  <1> QED  BY <1>1, <1>2, <1>3, <1>4, RowsChange

\* What is recorded as undone was undone, and no step of it waits.
LEMMA UndoneRowsStep ==
  ASSUME Types, Types', Once, Real, Marked, Marks, [Next]_vars
  PROVE  UndoneRows'
  <1>1. ASSUME NEW d \in DepIds, deps'[d].back = "ok"
        PROVE  /\ reached'[d].rollback = "ok"
               /\ \A r \in RunIds : DepOf(r) = d /\ ListOf(r) = "rollback" => rows'[r] # "wait"
    <2>1. CASE deps[d].back = "ok"
      <3>0. reached[d].rollback = "ok" /\ \A r \in RunIds : DepOf(r) = d /\ ListOf(r) = "rollback" => rows[r] # "wait"
        BY <2>1 DEF Marks, UndoneRows
      <3>1. \A l \in Lists : ~Going(deps[d], l)
        BY <2>1 DEF Going, Lists
      <3>2. task # NoTask => task.dep # d
        <4>1. task # NoTask => task.list \in Lists
          BY DEF Types, AgentTypes, IsTask, TaskType
        <4> QED  BY <3>1, <4>1 DEF Marks, TaskMarked
      <3>3. \A m \in down : m.k = "deploy" => m.dep # d
        <4>1. \A m \in down : m.k = "deploy" => m.list \in Lists
          BY OrderKinds
        <4> QED  BY <3>1, <4>1 DEF Marks, OrdersGo
      <3>4. reached'[d] = reached[d]
        BY <3>2, <3>3, ReachedGoes
      <3>5. ASSUME NEW r \in RunIds, DepOf(r) = d, ListOf(r) = "rollback", rows'[r] = "wait" PROVE FALSE
        <4>1. PICK u \in Users : (SendDeploy(u) \/ SendRollback(u)) /\ req[u].id = d
          BY <3>0, <3>5, WaitsCome
        <4>2. ~SendDeploy(u)
          BY <2>1, <4>1, SendDeployDoes DEF Marks, UndoneRows
        <4>3. ~SendRollback(u)
          BY <2>1, <4>1, RollbackDoes DEF MayRollback
        <4> QED  BY <4>1, <4>2, <4>3
      <3> QED  BY <3>0, <3>4, <3>5
    <2>2. CASE deps[d].back # "ok"
      <3>1. OnDeployEnd /\ \A r \in RunIds : DepOf(r) = d /\ ListOf(r) = "rollback" => rows'[r] # "wait"
        BY <1>1, <2>2, BackOk
      <3>2. PICK e \in DepEndType : Pending(e) /\ e.dep = d /\ Undone(e)
        BY <1>1, <2>2, BackOk
      <3>3. reached[d].rollback = "ok"
        BY <3>2 DEF Marks, PendingTrue
      <3>4. reached' = reached
        BY <3>1, DeployEndDoes
      <3> QED  BY <3>1, <3>3, <3>4
    <2> QED  BY <2>1, <2>2
  <1>2. ASSUME NEW d \in DepIds, Unsent(d)' PROVE deps'[d].back # "ok"
    <2>1. Unsent(d)
      BY <1>2, OnceStep DEF OnceGoes, UnsentShrinks
    <2>2. deps[d].back # "ok"
      BY <2>1 DEF Marks, UndoneRows
    <2>3. \A e \in DepEndType : Pending(e) => e.dep # d
      BY <2>1 DEF Marks, PendingTrue
    <2> QED  BY <2>2, <2>3, BackOk
  <1> QED  BY <1>1, <1>2 DEF UndoneRows

\* A deployment is created only when its request takes the mark.
LEMMA ResNew ==
  ASSUME Types, Once, Marked, Marks, [Next]_vars, NEW d \in DepIds, deps[d].res = "none", deps'[d].res # "none"
  PROVE  \E u \in Users : TakeDeploy(u) /\ req[u].id = d
  <1>1. ~Hello
    BY HelloDoes
  <1>2. ~OnStepStart
    BY StartDoes DEF SameBut
  <1>3. ~OnDeployEnd
    <2> SUFFICES ASSUME OnDeployEnd PROVE FALSE
      OBVIOUS
    <2>1. PICK e \in DepEndType :
              /\ SameBut(e.dep)
              /\ e.list = "rollback" => deps'[e.dep].res = deps[e.dep].res
              /\ e.list = "deploy" => deps'[e.dep].res = IF deps[e.dep].res = "running" THEN e.res ELSE deps[e.dep].res
      BY DeployEndDoes
    <2>2. e.list \in Lists
      BY DEF DepEndType
    <2> QED  BY <2>1, <2>2 DEF SameBut, Lists
  <1>4. ASSUME NEW u \in Users, SendDeploy(u) PROVE FALSE
    BY <1>4, SendDeployDoes DEF SameBut
  <1>5. ASSUME NEW u \in Users, SendRollback(u) PROVE FALSE
    BY <1>5, RollbackDoes DEF SameBut
  <1>6. ASSUME NEW u \in Users, CallReturns(u) PROVE FALSE
    <2>1. req[u] # NoReq
      BY <1>6, ReturnDoes DEF Marks
    <2>2. req[u].kind \in {"run", "deploy", "rollback"}
      BY <2>1, ReqKinds
    <2> QED  BY <1>6, <2>2, ReturnDoes DEF Marks, SameBut
  <1>7. ASSUME NEW u \in Users, TakeDeploy(u) PROVE req[u].id = d
    BY <1>7, TakeDoes DEF SameBut
  <1> QED  BY <1>1, <1>2, <1>3, <1>4, <1>5, <1>6, <1>7, DepsChange

\* While a deployment is undone it has the mark.
LEMMA UndoingMarked ==
  ASSUME Types, Marks, NEW d \in DepIds, Undoing(d), hello = "done"
  PROVE  mark.dep = d /\ mark.dep # 0
  <1>1. mark.dep = d
    BY DEF Undoing, Marks, OrdersGo, TaskMarked
  <1> QED  BY <1>1 DEF DepIds

LEMMA StepRunFacts ==
  ASSUME NEW e \in DepIds, NEW n \in 1 .. Steps
  PROVE  \E r \in RunIds : r = StepRun(e, n) /\ DepOf(r) = e /\ DepOf(r) # 0 /\ ListOf(r) = "deploy"
  <1>1. StepRun(e, n) \in RunIds
    BY DEF RunIds
  <1>2. DepOf(StepRun(e, n)) = e /\ ListOf(StepRun(e, n)) = "deploy" /\ e # 0
    BY DEF StepRun, DepOf, ListOf, DepIds
  <1> QED  BY <1>1, <1>2

\* Only an order that is sent brings a step of a deployment into the rows, unless to be skipped.
LEMMA RowBegins ==
  ASSUME Types, Types', Once, Real, Marked, Marks, [Next]_vars, NEW r \in RunIds, DepOf(r) # 0, ListOf(r) = "deploy",
         rows[r] \in {"none", "skip"}, rows'[r] \notin {"none", "skip"}
  PROVE  \E u \in Users : SendDeploy(u) /\ Callable(u) /\ req[u].id = DepOf(r)
  <1>0. rows \in [RunIds -> RunResults] /\ rows'[r] # rows[r] /\ rows' # rows
    BY DEF Types, StoreTypes
  <1>1. rows[r] = "none"
    BY <1>0, Recorded DEF RowsRecorded
  <1>2. CASE Hello \/ OnStepStart \/ OnEnd \/ OnDeployEnd
    <2>1. RowsHeard
      BY <1>2, HelloHeard, StartHeard, EndHeard
    <2> QED  BY <1>0, <1>1, <2>1 DEF RowsHeard
  <1>3. ASSUME NEW u \in Users, AskRun(u) PROVE FALSE
    BY <1>0, <1>3 DEF AskRun, CreateStepRun, SingleRun, DepOf
  <1>4. ASSUME NEW u \in Users, LookRun(u) \/ SendRun(u) PROVE FALSE
    <2>1. req[u] # NoReq /\ req[u].st \in {"made", "looked"}
      BY <1>4 DEF LookRun, SendRun, NoReq
    <2>2. req[u].id # r
      BY <2>1, ReqKinds
    <2> QED  BY <1>0, <1>4, <2>2 DEF LookRun, SendRun, RunTaken, Finished, FinishStepRun
  <1>5. ASSUME NEW u \in Users, CallReturns(u) PROVE FALSE
    <2>1. req[u] # NoReq
      BY <1>5, ReturnDoes DEF Marks
    <2>2. CASE req[u].kind = "run"
      <3>1. req[u].id # r
        BY <2>1, <2>2, ReqKinds
      <3> QED  BY <1>0, <1>5, <2>2, <3>1 DEF CallReturns, Finished, FinishStepRun
    <2>3. CASE req[u].kind # "run"
      <3>1. rows' = SkipWaitRunsOf(rows, {req[u].id})
        BY <1>5, <2>3 DEF CallReturns, Aborted
      <3> QED  BY <1>0, <3>1 DEF SkipWaitRunsOf
    <2> QED  BY <2>2, <2>3
  <1>6. ASSUME NEW u \in Users, SendRollback(u) PROVE FALSE
    BY <1>0, <1>6, RollbackDoes
  <1>7. ASSUME NEW u \in Users, SendDeploy(u)
        PROVE  Callable(u) /\ req[u].id = DepOf(r)
    <2>1. PICK runs, t : /\ t \in {rows, CreateWaitStepRuns(rows, runs)}
                         /\ \/ rows' = SkipWaitRunsOf(t, {req[u].id})
                            \/ Callable(u) /\ rows' = t
      BY <1>7 DEF SendDeploy, Aborted
    <2>2. t[r] \in {rows[r], "wait"}
      BY <2>1 DEF CreateWaitStepRuns
    <2>3. rows'[r] = "wait"
      BY <1>0, <1>1, <2>1, <2>2 DEF SkipWaitRunsOf
    <2>4. req[u].id = DepOf(r)
      BY <1>1, <1>7, <2>3, SendDeployDoes DEF WaitsOf
    <2> QED  BY <2>1, <2>3, <2>4 DEF SkipWaitRunsOf
  <1> QED  BY <1>0, <1>2, <1>3, <1>4, <1>5, <1>6, <1>7, RowsChange

\* While a deployment is undone no newer one is put in place.
LEMMA PlacedStays ==
  ASSUME Types, Types', Once, Real, Marked, Marks, [Next]_vars, NEW d \in DepIds, Undoing(d),
         NEW e \in DepIds, e # d, Placed(e)'
  PROVE  Placed(e)
  <1> SUFFICES ASSUME ~Placed(e) PROVE FALSE
    OBVIOUS
  <1>1. PICK n \in 1 .. Steps : rows'[StepRun(e, n)] \notin {"none", "skip"}
    BY DEF Placed
  <1>2. PICK r \in RunIds : r = StepRun(e, n) /\ DepOf(r) = e /\ DepOf(r) # 0 /\ ListOf(r) = "deploy"
    BY StepRunFacts
  <1>3. rows[r] \in {"none", "skip"}
    BY <1>2 DEF Placed
  <1>4. PICK u \in Users : SendDeploy(u) /\ Callable(u) /\ req[u].id = e
    BY <1>1, <1>2, <1>3, RowBegins
  <1>5. /\ req[u] # NoReq /\ req[u].kind = "deploy" /\ req[u].st = "marked" /\ req[u].conn = link /\ link # 0
        /\ hello \notin {"added", "leaked"}
    BY <1>4, SendDeployDoes DEF Callable, Alive, Marks, ReqsLinked, ReqLinked
  <1>6. hello = "done"
    BY <1>5 DEF Types, LinkTypes, Marks, LinksKnown
  <1>7. mark.dep = e
    BY <1>4, <1>5 DEF Marks, ReqsMarked, Asks
  <1> QED  BY <1>6, <1>7, UndoingMarked

\* While a deployment is undone nothing newer comes into place.
LEMMA NewestGoesStep ==
  ASSUME Types, Types', Once, Real, Marked, Marks, [Next]_vars
  PROVE  NewestGoes'
  <1>0. req \in [Users -> ReqType]
    BY DEF Types, WayTypes
  <1>1. ASSUME NEW d \in DepIds, Undoing(d)', Undoing(d)
        PROVE  /\ \A e \in d + 1 .. MaxDep : Placed(e)' => deps'[e].back = "ok"
               /\ \A u \in Users : req'[u] # NoReq =>
                    /\ req'[u].kind = "deploy" => req'[u].id # d
                    /\ req'[u].kind = "rollback" => req'[u].st # "refused"
    <2>1. ASSUME NEW e \in d + 1 .. MaxDep, Placed(e)' PROVE deps'[e].back = "ok"
      <3>1. e \in DepIds /\ e # d
        BY StoreAssumption DEF DepIds
      <3>2. Placed(e)
        BY <1>1, <2>1, <3>1, PlacedStays
      <3>3. deps[e].back = "ok"
        BY <1>1, <3>2 DEF Marks, NewestGoes
      <3> QED  BY <3>1, <3>3, BackStays
    <2>2. ASSUME NEW u \in Users, req'[u] # NoReq,
                 (req'[u].kind = "deploy" /\ req'[u].id = d) \/ (req'[u].kind = "rollback" /\ req'[u].st = "refused")
          PROVE  FALSE
      <3>0. hello = "done" => mark.dep # 0
        BY <1>1, UndoingMarked
      <3>1. req[u] # NoReq => /\ req[u].kind = "deploy" => req[u].id # d
                              /\ req[u].kind = "rollback" => req[u].st # "refused"
        BY <1>1 DEF Marks, NewestGoes
      <3>2. req'[u] # req[u]
        BY <2>2, <3>1
      <3>3. ~AskRun(u) /\ ~\E x \in DepIds : AskDeploy(u, x) \/ AskRollback(u, x)
        <4>1. ~AskRun(u)
          BY <1>0, <2>2 DEF AskRun, Asked
        <4>2. ASSUME NEW x \in DepIds, AskDeploy(u, x) PROVE FALSE
          BY <3>0, <4>2, ShutWindows DEF AskDeploy, Online, LooksFree, Busy
        <4>3. ASSUME NEW x \in DepIds, AskRollback(u, x) PROVE FALSE
          BY <1>0, <2>2, <4>3 DEF AskRollback, Asked
        <4> QED  BY <4>1, <4>2, <4>3
      <3>4. req[u] # NoReq /\ req'[u].kind = req[u].kind /\ req'[u].id = req[u].id
        BY <2>2, <3>2, <3>3, ReqStays
      <3>5. req'[u].kind = "rollback" /\ req'[u].st = "refused"
        BY <2>2, <3>1, <3>4
      <3>6. CASE \E m \in down : OnDeploy(m) /\ ~AgentIdle
        <4>1. PICK m \in down : OnDeploy(m) /\ ~AgentIdle
          BY <3>6
        <4>2. m.k = "deploy" /\ down' = down \ {m} /\ task' = task
          BY <4>1 DEF OnDeploy
        <4>3. task = NoTask /\ \A n \in down : n.k = "deploy" => n = m
          BY <4>2 DEF Marks, OrdersGo
        <4> QED  BY <1>1, <4>2, <4>3 DEF Undoing
      <3>7. CASE SendRollback(u)
        BY <3>0, <3>7, RollbackDoes
      <3>8. CASE req'[u].kind = "run"
        BY <3>5, <3>8
      <3> QED  BY <2>2, <3>2, <3>5, <3>6, <3>7, <3>8, ReqRefused DEF Marks
    <2> QED  BY <2>1, <2>2
  <1>2. ASSUME NEW d \in DepIds, Undoing(d)', ~Undoing(d)
        PROVE  /\ \A e \in d + 1 .. MaxDep : Placed(e)' => deps'[e].back = "ok"
               /\ \A u \in Users : req'[u] # NoReq =>
                    /\ req'[u].kind = "deploy" => req'[u].id # d
                    /\ req'[u].kind = "rollback" => req'[u].st # "refused"
    <2>1. ~(task' # NoTask /\ task'.list = "rollback" /\ task'.dep = d)
      <3> SUFFICES ASSUME task' # NoTask, task'.list = "rollback", task'.dep = d PROVE FALSE
        OBVIOUS
      <3>1. CASE task # NoTask
        BY <1>2, <3>1, TaskKept DEF Undoing
      <3>2. CASE task = NoTask
        BY <1>2, <3>2, NewTask DEF Undoing
      <3> QED  BY <3>1, <3>2
    <2>2. PICK m \in down' : m.k = "deploy" /\ m.list = "rollback" /\ m.dep = d
      BY <1>2, <2>1 DEF Undoing
    <2>3. m \notin down
      BY <1>2, <2>2 DEF Undoing
    <2>4. PICK u \in Users : SendRollback(u)
      <3>1. PICK u \in Users : SendRun(u) \/ SendDeploy(u) \/ SendRollback(u)
        BY <2>2, <2>3, DownChange
      <3>2. ~SendRun(u)
        BY <2>2, <2>3 DEF SendRun
      <3>3. ~SendDeploy(u)
        <4> SUFFICES ASSUME SendDeploy(u) PROVE FALSE
          OBVIOUS
        <4>1. down' # down
          BY <2>3
        <4>2. PICK x : x.list = "deploy" /\ down' = down \cup {x}
          BY <4>1, SendDeployDoes
        <4>3. x = m
          BY <2>3, <4>2
        <4> QED  BY <2>2, <4>2, <4>3
      <3> QED  BY <3>1, <3>2, <3>3
    <2>5. ~cut
      BY <2>3, <2>4, RollbackDoes
    <2>6. req[u].id = d /\ MayRollback(d) /\ SameBut(d)
      BY <2>2, <2>3, <2>4, <2>5, RollbackDoes
    <2>7. ASSUME NEW e \in d + 1 .. MaxDep, Placed(e)' PROVE deps'[e].back = "ok"
      <3>1. e \in DepIds /\ e # d
        BY StoreAssumption DEF DepIds
      <3>2. deps'[e] = deps[e]
        BY <2>6, <3>1 DEF SameBut
      <3>3. PICK n \in 1 .. Steps : rows'[StepRun(e, n)] \notin {"none", "skip"}
        BY <2>7 DEF Placed
      <3>4. PICK r \in RunIds : r = StepRun(e, n) /\ DepOf(r) = e /\ DepOf(r) # 0 /\ ListOf(r) = "deploy"
        BY <3>1, StepRunFacts
      <3>5. rows[r] # "none"
        BY <2>4, <3>3, <3>4, RollbackDoes
      <3>6. ~Unused(r)
        BY <3>5 DEF Once, UnusedIsNew
      <3>7. deps[e].res # "none"
        BY <3>4, <3>6 DEF Unused, Attempt, Unsent
      <3> QED  BY <2>6, <3>2, <3>7, NewestMay
    <2>8. ASSUME NEW v \in Users, req'[v] # NoReq
          PROVE  /\ req'[v].kind = "deploy" => req'[v].id # d
                 /\ req'[v].kind = "rollback" => req'[v].st # "refused"
      <3>1. CASE v = u
        BY <2>4, <2>5, <3>1, RollbackDoes
      <3>2. CASE v # u
        <4>1. req'[v] = req[v] /\ req[u] # NoReq /\ req[u].kind = "rollback"
          BY <2>4, <3>2, RollbackDoes
        <4>2. req[v].kind # "rollback"
          BY <2>8, <3>2, <4>1 DEF Marks, ReqsMarked, Asks
        <4>3. req[v].kind = "deploy" => req[v].id # d
          BY <2>4, <2>6, <2>8, <4>1, RollbackDoes DEF Asks
        <4> QED  BY <4>1, <4>2, <4>3
      <3> QED  BY <3>1, <3>2
    <2> QED  BY <2>7, <2>8
  <1> QED  BY <1>1, <1>2 DEF NewestGoes, Placed

\* What an order is about, when it has just been sent.
LEMMA NewOrderIs ==
  ASSUME Types, Once, Marked, Marks, [Next]_vars, NEW m \in down', m \notin down, m.k = "deploy"
  PROVE  \E v \in Users :
           /\ req[v] # NoReq /\ m.dep = req[v].id /\ req[v].st # "refused"
           /\ \/ req[v].kind = "deploy" /\ Going(deps[m.dep], "deploy")
              \/ SendRollback(v)
  <1>1. PICK v \in Users : SendDeploy(v) \/ SendRollback(v)
    <2>1. ASSUME NEW v \in Users, SendRun(v) PROVE FALSE
      BY <2>1 DEF SendRun
    <2> QED  BY <2>1, DownChange
  <1>2. CASE SendDeploy(v)
    <2>1. req[v] # NoReq /\ req[v].kind = "deploy" /\ req[v].st = "marked"
      BY <1>2, SendDeployDoes
    <2>2. down' # down
      OBVIOUS
    <2>3. PICK x : Callable(v) /\ x.dep = req[v].id /\ down' = down \cup {x}
      BY <1>2, <2>2, SendDeployDoes
    <2>4. x = m
      BY <2>3
    <2>5. req[v].conn = link /\ link # 0
      BY <2>1, <2>3 DEF Callable, Alive, Marks, ReqsLinked, ReqLinked
    <2>6. Going(deps[req[v].id], "deploy")
      BY <2>1, <2>5 DEF Marks, ReqsMarked, Asks
    <2> QED  BY <2>1, <2>3, <2>4, <2>6
  <1>3. CASE SendRollback(v)
    <2>1. req[v] # NoReq /\ req[v].st = "asked" /\ ~cut
      BY <1>3, RollbackDoes
    <2>2. PICK x : x.dep = req[v].id /\ down' = down \cup {x}
      BY <1>3, <2>1, RollbackDoes
    <2>3. x = m
      BY <2>2
    <2> QED  BY <1>3, <2>1, <2>2, <2>3
  <1> QED  BY <1>1, <1>2, <1>3

Refusal(u) ==
  /\ task # NoTask => task.dep # req[u].id
  /\ \A m \in down : m.k = "deploy" => m.dep # req[u].id
  /\ \A e \in DepEndType : Pending(e) /\ e.dep = req[u].id =>
       req[u].kind = "rollback" /\ (req[u].conn = link => cut) /\ ~Undone(e)
  /\ req[u].kind = "rollback" => deps[req[u].id].back # "ok"

\* A request that was refused stays so until its call returns.
LEMMA RefusedStays ==
  ASSUME Types, Types', Once, Marked, Marks, [Next]_vars, NEW u \in Users, req[u] # NoReq, req[u].st = "refused",
         req[u].kind # "run", req'[u] = req[u], Refusal(u)
  PROVE  Refusal(u)'
  <1>0. PICK d \in DepIds : d = req[u].id /\ req[u].kind \in {"deploy", "rollback"}
    BY ReqKinds
  <1>1. task' # NoTask => task'.dep # d
    <2>1. CASE task # NoTask
      BY <1>0, <2>1, TaskKept DEF Refusal
    <2>2. CASE task = NoTask
      BY <1>0, <2>2, NewTask DEF Refusal
    <2> QED  BY <2>1, <2>2
  <1>2. ASSUME NEW m \in down', m.k = "deploy", m.dep = d PROVE FALSE
    <2>1. m \notin down
      BY <1>0, <1>2 DEF Refusal
    <2>2. PICK v \in Users :
           /\ req[v] # NoReq /\ m.dep = req[v].id /\ req[v].st # "refused"
           /\ \/ req[v].kind = "deploy" /\ Going(deps[m.dep], "deploy")
              \/ SendRollback(v)
      BY <1>2, <2>1, NewOrderIs
    <2>3. v # u
      BY <2>2
    <2>4. ~SendRollback(v)
      <3> SUFFICES ASSUME SendRollback(v) PROVE FALSE
        OBVIOUS
      <3>1. CASE req[u].kind = "deploy"
        <4>1. req[u].id # req[v].id
          BY <3>1, RollbackDoes DEF Asks
        <4> QED  BY <1>0, <1>2, <2>2, <4>1
      <3>2. CASE req[u].kind = "rollback"
        BY <2>3, <3>2, RollbackDoes DEF Marks, ReqsMarked, Asks
      <3> QED  BY <1>0, <3>1, <3>2
    <2>5. CASE req[u].kind = "deploy"
      BY <1>0, <1>2, <2>2, <2>3, <2>4, <2>5 DEF Once, ReqsApart
    <2>6. CASE req[u].kind = "rollback"
      BY <1>0, <1>2, <2>2, <2>4, <2>6 DEF Marks, ReqsLinked, ReqLinked, Going, Ended
    <2> QED  BY <1>0, <2>5, <2>6
  <1>3. ASSUME NEW e \in DepEndType, Pending(e)', e.dep = d
        PROVE  req[u].kind = "rollback" /\ (req[u].conn = link' => cut') /\ ~Undone(e)
    <2>1. Pending(e)
      <3> SUFFICES ASSUME ~Pending(e) PROVE FALSE
        OBVIOUS
      <3>1. FinishDeploy /\ e = [dep |-> task.dep, list |-> task.list, res |-> task.res, rb |-> task.rb, inst |-> installed']
        BY <1>3, PendingGoes
      <3>2. task # NoTask /\ e.dep = task.dep
        BY <3>1 DEF FinishDeploy, NoTask
      <3> QED  BY <1>0, <1>3, <3>2 DEF Refusal
    <2>2. req[u].kind = "rollback" /\ (req[u].conn = link => cut) /\ ~Undone(e)
      BY <1>0, <1>3, <2>1 DEF Refusal
    <2>3. req[u].conn = link' => cut'
      <3>1. CASE Dial
        <4>1. req[u].conn <= last
          BY DEF Marks, ReqsLinked, ReqLinked
        <4>2. last \in Nat
          BY StateAssumption DEF Types, LinkTypes
        <4>3. link' = last + 1
          BY <3>1 DEF Dial
        <4>4. ~(req[u].conn = last + 1)
          BY <4>1, <4>2
        <4> QED  BY <4>3, <4>4
      <3>2. CASE SupervisorRestarts
        BY <3>2 DEF SupervisorRestarts
      <3>3. CASE ServeEnds
        BY <3>3 DEF ServeEnds
      <3>4. CASE ~Dial /\ ~SupervisorRestarts /\ ~ServeEnds
        <4>1. link' = link
          BY <3>4, LinkChange, HelloDoes
        <4>2. cut => cut'
          <5>1. CASE UpdaterRestarts \/ Cut
            BY <5>1 DEF UpdaterRestarts, Cut
          <5> QED  BY <3>4, <5>1, CutChange
        <4> QED  BY <2>2, <4>1, <4>2
      <3> QED  BY <3>1, <3>2, <3>3, <3>4
    <2> QED  BY <2>2, <2>3
  <1>4. req[u].kind = "rollback" => deps'[d].back # "ok"
    <2>1. \A e \in DepEndType : Pending(e) /\ e.dep = d => ~Undone(e)
      BY <1>0 DEF Refusal
    <2>2. req[u].kind = "rollback" => deps[d].back # "ok"
      BY <1>0 DEF Refusal
    <2> QED  BY <2>1, <2>2, BackOk
  <1> QED  BY <1>0, <1>1, <1>2, <1>3, <1>4 DEF Refusal, Undone

\* A refused request has nothing going on in its name.
LEMMA RefusalsStep ==
  ASSUME Types, Types', Once, Marked, Marks, [Next]_vars
  PROVE  Refusals'
  <1> SUFFICES ASSUME NEW u \in Users, req'[u] # NoReq, req'[u].st = "refused", req'[u].kind # "run"
               PROVE  Refusal(u)'
    BY DEF Refusals, Refusal
  <1>1. CASE req'[u] = req[u]
    <2>1. req[u] # NoReq /\ req[u].st = "refused" /\ req[u].kind # "run"
      BY <1>1
    <2>2. Refusal(u)
      BY <2>1 DEF Marks, Refusals, Refusal
    <2> QED  BY <1>1, <2>1, <2>2, RefusedStays
  <1>2. CASE req'[u] # req[u]
    <2>1. ASSUME NEW m \in down, OnDeploy(m), ~AgentIdle, m.by = u, req[u] # NoReq, req[u].kind = m.list,
                 req[u].id = m.dep, req'[u] = [req[u] EXCEPT !.st = "refused"]
          PROVE  Refusal(u)'
      <3>1. m.k = "deploy" /\ down' = down \ {m} /\ UNCHANGED <<task, deps>>
        BY <2>1 DEF OnDeploy, dbVars
      <3>2. task = NoTask /\ NonePending /\ Going(deps[m.dep], m.list) /\ \A n \in down : n.k = "deploy" => n = m
        BY <3>1 DEF Marks, OrdersGo
      <3>3. ~FinishDeploy
        BY <3>2 DEF FinishDeploy, NoTask
      <3>4. NonePending'
        BY <3>2, <3>3, PendingGoes DEF NonePending
      <3>5. req'[u].id = m.dep
        <4>1. [req[u] EXCEPT !.st = "refused"].id = req[u].id
          BY <2>1, ReqKinds
        <4> QED  BY <2>1, <4>1
      <3>6. m.list \in Lists
        BY <3>1, OrderKinds
      <3>7. deps'[m.dep].back # "ok"
        BY <3>1, <3>2, <3>6 DEF Going, Lists
      <3> QED  BY <3>1, <3>2, <3>4, <3>5, <3>7 DEF Refusal, NonePending
    <2>2. CASE SendRollback(u) /\ cut
      <3>1. PICK d \in DepIds : d = req[u].id
        BY <2>2, RollbackDoes
      <3>2. /\ link # 0 /\ hello = "done" /\ mark.dep = 0 /\ MayRollback(d) /\ deps'[d].back = "running"
            /\ req'[u].kind = "rollback" /\ req'[u].id = d
            /\ down' = down /\ UNCHANGED <<task, cut, link>>
        BY <2>2, <3>1, RollbackDoes
      <3>3. Nothing
        BY <3>2, Clear DEF Marks
      <3>4. ~FinishDeploy
        BY <3>3 DEF FinishDeploy, NoTask, Nothing
      <3>5. ASSUME NEW e \in DepEndType, Pending(e)', e.dep = d PROVE ~Undone(e)
        <4>1. Pending(e)
          BY <3>4, <3>5, PendingGoes
        <4>2. Going(deps[d], e.list) \/ Told(deps[d], e)
          BY <3>5, <4>1 DEF Marks, PendingTrue
        <4>3. deps[d].res \in Ended /\ deps[d].back \notin {"running", "ok"}
          BY <3>2 DEF MayRollback
        <4>4. ~Going(deps[d], e.list)
          BY <4>3 DEF Going, Ended
        <4> QED  BY <4>2, <4>3, <4>4 DEF Told
      <3> QED  BY <2>2, <3>2, <3>3, <3>5 DEF Refusal, Nothing, Undone
    <2> QED  BY <1>2, <2>1, <2>2, ReqRefused DEF Marks
  <1> QED  BY <1>1, <1>2

\* While nothing is connected the only result still to be told is one that was kept.
LEMMA KeptPending ==
  ASSUME Types, Marks, hello = "added", NEW e \in DepEndType, Pending(e)
  PROVE  dends # <<>> /\ e = dends[1] /\ told.deps = <<e.dep>>
  <1>1. uconn = 0 /\ up = <<>>
    BY DEF Marks, LinksKnown
  <1>2. \A f \in Flushers : flush[f] = Idle
    BY <1>1 DEF Types, ChanTypes
  <1>3. ~HasUp(e)
    BY <1>1, NoRange DEF HasUp
  <1>4. \A f \in Flushers : ~HasFlush(f, e)
    BY <1>2 DEF HasFlush, Idle
  <1>5. e \in Range(dends)
    BY <1>3, <1>4 DEF Pending
  <1>6. PICK i \in DOMAIN dends : dends[i] = e
    BY <1>5, RangeIs
  <1>7. dends \in Seq(DepEndType) /\ Len(dends) <= 1
    BY DEF Types, WayTypes, Marks, PendingOnce
  <1>8. i = 1 /\ dends # <<>>
    BY <1>6, <1>7
  <1>9. told.deps = <<dends[1].dep>>
    BY <1>8 DEF Marks, PendingOnce
  <1> QED  BY <1>6, <1>8, <1>9

\* What the supervisor does to the row of a deployment whose end is still to be told.
LEMMA EndToTell ==
  ASSUME Types, Once, Marked, Marks, [Next]_vars, NEW e \in DepEndType, Pending(e)
  PROVE  Going(deps'[e.dep], e.list) \/ Told(deps'[e.dep], e)
  <1>d. PICK d \in DepIds : d = e.dep
    BY DEF DepEndType
  <1> SUFFICES Going(deps'[d], e.list) \/ Told(deps'[d], e)
    BY <1>d
  <1>0. d \in DepIds /\ e.list \in Lists /\ e.res \in Ended /\ e.rb \in Maybe
    BY DEF DepEndType
  <1>1. Going(deps[d], e.list) \/ Told(deps[d], e)
    BY <1>d DEF Marks, PendingTrue
  <1>2. ~Unsent(d)
    BY <1>d DEF Marks, PendingTrue
  <1>u. deps'[d] = deps[d] => (Going(deps'[d], e.list) \/ Told(deps'[d], e))
    BY <1>1 DEF Going, Told, Undone
  <1>3. CASE Hello
    <2>1. told.deps = <<d>>
      BY <1>3, <1>d, HelloDoes, KeptPending
    <2>2. d \in Range(told.deps)
      BY <2>1 DEF Range
    <2> QED  BY <1>0, <1>3, <1>u, <2>2, HelloDoes
  <1>4. CASE OnStepStart
    <2>1. CASE UNCHANGED deps
      BY <1>u, <2>1
    <2>2. ASSUME NEW r \in RunIds, rows[r] = "wait", ListOf(r) = "rollback", DepOf(r) \in DepIds, SameBut(DepOf(r)),
                 deps'[DepOf(r)].res = deps[DepOf(r)].res, deps'[DepOf(r)].back = "running"
          PROVE  Going(deps'[d], e.list) \/ Told(deps'[d], e)
      <3>1. CASE DepOf(r) # d
        BY <1>0, <1>u, <2>2, <3>1 DEF SameBut
      <3>2. CASE DepOf(r) = d
        <4>1. deps[d].back # "ok"
          BY <1>0, <2>2, <3>2 DEF Marks, UndoneRows
        <4>2. CASE Going(deps[d], e.list)
          BY <2>2, <3>2, <4>2 DEF Going
        <4>3. CASE Told(deps[d], e)
          BY <2>2, <3>2, <4>1, <4>3 DEF Told, Undone
        <4> QED  BY <1>1, <4>2, <4>3
      <3> QED  BY <3>1, <3>2
    <2> QED  BY <1>4, <2>1, <2>2, StartDoes
  <1>5. CASE OnDeployEnd
    <2>1. PICK g \in DepEndType :
              /\ Pending(g)
              /\ g.list = "rollback" => deps'[g.dep].res = deps[g.dep].res /\ deps'[g.dep].back = g.res
              /\ g.list = "deploy" =>
                   /\ deps'[g.dep].res = IF deps[g.dep].res = "running" THEN g.res ELSE deps[g.dep].res
                   /\ deps'[g.dep].back = IF g.rb = "none" THEN deps[g.dep].back ELSE g.rb
      BY <1>5, DeployEndDoes
    <2>2. g = e
      BY <2>1 DEF Marks, PendingOnce
    <2>3. CASE e.list = "rollback"
      BY <1>d, <2>1, <2>2, <2>3 DEF Told, Undone
    <2>4. CASE e.list = "deploy"
      <3>1. deps[d].res \in Ended \cup {"running"}
        BY <1>1, <2>4 DEF Going, Told
      <3>2. deps'[d].res \in Ended
        BY <1>0, <1>d, <2>1, <2>2, <2>4, <3>1 DEF Ended
      <3>3. e.rb # "none" => deps'[d].back = e.rb
        BY <1>d, <2>1, <2>2, <2>4
      <3> QED  BY <2>4, <3>2, <3>3 DEF Told, Undone
    <2> QED  BY <1>0, <2>3, <2>4 DEF Lists
  <1>6. ASSUME NEW v \in Users, TakeDeploy(v) PROVE Going(deps'[d], e.list) \/ Told(deps'[d], e)
    BY <1>0, <1>2, <1>6, <1>u, TakeDoes DEF SameBut
  <1>7. ASSUME NEW v \in Users, SendDeploy(v) PROVE Going(deps'[d], e.list) \/ Told(deps'[d], e)
    BY <1>0, <1>2, <1>7, <1>u, SendDeployDoes DEF SameBut
  <1>8. ASSUME NEW v \in Users, SendRollback(v) PROVE Going(deps'[d], e.list) \/ Told(deps'[d], e)
    <2>1. CASE req[v].id # d
      BY <1>0, <1>8, <1>u, <2>1, RollbackDoes DEF SameBut
    <2>2. CASE req[v].id = d
      <3>1. /\ link # 0 /\ hello = "done" /\ mark.dep = 0 /\ MayRollback(d) /\ \A f \in Flushers : flush[f] = Idle
            /\ deps'[d].res = deps[d].res /\ deps'[d].back = "running"
        BY <1>8, <2>2, RollbackDoes
      <3>2. deps[d].res \in Ended /\ deps[d].back \notin {"running", "ok"}
        BY <3>1 DEF MayRollback
      <3>3. ~Going(deps[d], e.list)
        BY <3>2 DEF Going, Ended
      <3>4. Told(deps[d], e) /\ ~Undone(e)
        BY <1>1, <3>2, <3>3 DEF Told
      <3> QED  BY <3>1, <3>2, <3>4 DEF Told
    <2> QED  BY <2>1, <2>2
  <1>9. ASSUME NEW v \in Users, CallReturns(v) PROVE Going(deps'[d], e.list) \/ Told(deps'[d], e)
    <2>1. req[v] # NoReq /\ req[v].st = "refused"
      BY <1>9, ReturnDoes DEF Marks
    <2>2. CASE req[v].kind = "run"
      BY <1>9, <1>u, <2>2, ReturnDoes DEF Marks
    <2>3. CASE req[v].kind # "run" /\ req[v].id # d
      BY <1>0, <1>9, <1>u, <2>3, ReturnDoes DEF Marks, SameBut
    <2>4. CASE req[v].kind # "run" /\ req[v].id = d
      <3>1. req[v].kind = "rollback" /\ ~Undone(e)
        BY <1>d, <2>1, <2>4 DEF Marks, Refusals
      <3>2. deps'[d].res = deps[d].res /\ deps'[d].back = "fail"
        BY <1>9, <2>4, <3>1, ReturnDoes DEF Marks
      <3>3. deps[d].res \in Ended
        BY <2>1, <2>4, <3>1 DEF Marks, ReqsLinked, ReqLinked
      <3> QED  BY <3>1, <3>2, <3>3 DEF Told
    <2> QED  BY <2>2, <2>3, <2>4
  <1> QED  BY <1>3, <1>4, <1>5, <1>6, <1>7, <1>8, <1>9, <1>u, DepsChange

\* What is still to be told is what the records wait for, or already say.
LEMMA PendingTrueStep ==
  ASSUME Types, Types', Once, Real, Marked, Marks, [Next]_vars
  PROVE  PendingTrue'
  <1> USE DEF dbVars, superVars, netVars, agentVars, history
  <1>1. ASSUME NEW e \in DepEndType, Pending(e)', Pending(e)
        PROVE  /\ ~Unsent(e.dep)' /\ (Undone(e) => reached'[e.dep].rollback = "ok")
               /\ Going(deps'[e.dep], e.list) \/ Told(deps'[e.dep], e)
    <2>0. e.dep \in DepIds
      BY DEF DepEndType
    <2>1. ~Unsent(e.dep) /\ (Undone(e) => reached[e.dep].rollback = "ok")
      BY <1>1 DEF Marks, PendingTrue
    <2>2. ~Unsent(e.dep)'
      BY <2>0, <2>1, OnceStep DEF OnceGoes, UnsentShrinks
    <2>3. task = NoTask /\ \A m \in down : m.k # "deploy"
      BY <1>1 DEF Marks, TaskMarked, OrdersGo, NonePending
    <2>4. reached'[e.dep] = reached[e.dep]
      BY <2>0, <2>3, ReachedGoes
    <2> QED  BY <1>1, <2>1, <2>2, <2>4, EndToTell
  <1>2. ASSUME NEW e \in DepEndType, Pending(e)', ~Pending(e)
        PROVE  /\ ~Unsent(e.dep)' /\ (Undone(e) => reached'[e.dep].rollback = "ok")
               /\ Going(deps'[e.dep], e.list) \/ Told(deps'[e.dep], e)
    <2>1. FinishDeploy /\ e = [dep |-> task.dep, list |-> task.list, res |-> task.res, rb |-> task.rb, inst |-> installed']
      BY <1>2, PendingGoes
    <2>2. e.dep = task.dep /\ e.list = task.list /\ e.res = task.res /\ e.rb = task.rb
      BY <2>1
    <2>3. task # NoTask /\ task.pc = "over" /\ UNCHANGED <<deps, req, reached>>
      BY <2>1 DEF FinishDeploy, NoTask
    <2>4. Going(deps[e.dep], e.list) /\ (Undone(task) => reached[e.dep].rollback = "ok")
      BY <2>2, <2>3 DEF Marks, TaskMarked
    <2>5. Undone(task) <=> Undone(e)
      BY <2>2 DEF Undone
    <2>6. e.dep \in DepIds /\ e.list \in Lists
      BY DEF DepEndType
    <2>7. ~Unsent(e.dep)
      <3>1. CASE e.list = "deploy"
        BY <2>2, <2>3, <2>6, <3>1 DEF Once, ReachedOnce, TaskIsFirst
      <3>2. CASE e.list = "rollback"
        <4>1. Undoing(e.dep)
          BY <2>2, <2>3, <3>2 DEF Undoing
        <4>2. \A u \in Users : req[u] # NoReq /\ req[u].kind = "deploy" => req[u].id # e.dep
          BY <2>6, <4>1 DEF Marks, NewestGoes
        <4>3. deps[e.dep].res # "none"
          BY <2>4, <3>2 DEF Going, Ended
        <4> QED  BY <4>2, <4>3 DEF Unsent
      <3> QED  BY <2>6, <3>1, <3>2 DEF Lists
    <2>8. ~Unsent(e.dep)'
      BY <2>3, <2>7 DEF Unsent
    <2> QED  BY <2>3, <2>4, <2>5, <2>8
  <1>3. ASSUME NEW e \in DepEndType, Pending(e)'
        PROVE  /\ ~Unsent(e.dep)' /\ (Undone(e) => reached'[e.dep].rollback = "ok")
               /\ Going(deps'[e.dep], e.list) \/ Told(deps'[e.dep], e)
    BY <1>1, <1>2, <1>3
  <1> QED  BY <1>3 DEF PendingTrue, Undone, Told

\* Taking a result out of a list of at most one.
LEMMA WithoutOne ==
  ASSUME NEW S, NEW q \in Seq(S), Len(q) <= 1, NEW e
  PROVE  /\ Without(q, e) = q \/ Without(q, e) = <<>>
         /\ q # <<>> /\ q[1] = e => Without(q, e) = <<>>
  <1> DEFINE hit == {i \in DOMAIN q : q[i] = e}
  <1>1. CASE hit = {}
    <2>1. Without(q, e) = q
      BY <1>1 DEF Without
    <2>2. q # <<>> => 1 \in DOMAIN q
      OBVIOUS
    <2> QED  BY <1>1, <2>1, <2>2
  <1>2. CASE hit # {}
    <2>1. hit = {1} /\ Len(q) = 1
      <3>1. PICK j \in DOMAIN q : q[j] = e
        BY <1>2
      <3>2. DOMAIN q = 1 .. Len(q) /\ Len(q) \in Nat
        OBVIOUS
      <3>3. Len(q) = 1 /\ DOMAIN q = {1}
        BY <3>1, <3>2
      <3> QED  BY <3>1, <3>3
    <2> DEFINE i == CHOOSE i \in hit : \A k \in hit : i <= k
    <2>2. i = 1
      <3>1. \E j \in hit : \A k \in hit : j <= k
        BY <2>1
      <3>2. i \in hit
        BY <3>1
      <3> QED  BY <2>1, <3>2
    <2>3. Without(q, e) = SubSeq(q, 1, i - 1) \o SubSeq(q, i + 1, Len(q))
      BY <1>2 DEF Without
    <2> HIDE DEF i, hit
    <2>4. Without(q, e) = SubSeq(q, 1, 0) \o SubSeq(q, 2, 1)
      BY <2>1, <2>2, <2>3
    <2>5. SubSeq(q, 1, 0) = <<>> /\ SubSeq(q, 2, 1) = <<>>
      OBVIOUS
    <2> QED  BY <2>4, <2>5
  <1> QED  BY <1>1, <1>2

\* Which steps change the flushers.
LEMMA FlushAt ==
  ASSUME [Next]_vars, flush' # flush
  PROVE  \/ Connected \/ UpdaterNotices \/ UpdaterRestarts \/ SpawnFlush \/ OnEnd \/ OnDeployEnd
         \/ \E f \in Flushers : FlushStart(f) \/ FlushNext(f)
  <1> USE DEF dbVars, superVars, netVars, agentVars, history
  <1>1. ~Cut
    BY DEF Cut
  <1>2. ASSUME SupervisorNext PROVE OnEnd \/ OnDeployEnd
    BY <1>2 DEF SupervisorNext, Hello, ServeEnds, SupervisorRestarts, OnStepStart, AskRun, LookRun, SendRun, TakeDeploy,
           SendDeploy, RefuseRollback, SendRollback, CallReturns, AskDeploy, AskRollback, CancelDeploy, CancelRun
  <1>3. ASSUME AgentNext
        PROVE  \/ Connected \/ UpdaterNotices \/ UpdaterRestarts \/ SpawnFlush
               \/ \E f \in Flushers : FlushStart(f) \/ FlushNext(f)
    BY <1>3 DEF AgentNext, Dial, StepCheck, StepBegin, StepFails, FinishDeploy, JobEnds, Ends, OnRun, OnDeploy, OnCancel
  <1> QED  BY <1>1, <1>2, <1>3 DEF Next, vars

\* A flusher that was answered stays so until it goes on.
LEMMA AnsweredStays ==
  ASSUME Types, [Next]_vars, NEW f \in Flushers, flush[f].st = "depAcked", ~cut'
  PROVE  flush'[f] = flush[f] \/ FlushNext(f)
  <1>0. flush \in [Flushers -> FlushType] /\ flush[f] # Idle
    BY DEF Types, WayTypes, Idle
  <1>1. ~Connected
    BY <1>0 DEF Connected, Types, ChanTypes
  <1>2. ~UpdaterNotices /\ ~UpdaterRestarts
    BY DEF UpdaterNotices, UpdaterRestarts
  <1>3. CASE SpawnFlush
    BY <1>0, <1>3 DEF SpawnFlush
  <1>4. CASE OnEnd \/ OnDeployEnd
    BY <1>4, AckMoves DEF AckedAs
  <1>5. ASSUME NEW g \in Flushers, FlushStart(g) \/ FlushNext(g) PROVE flush'[f] = flush[f] \/ FlushNext(f)
    <2>1. CASE g = f
      BY <1>5, <2>1 DEF FlushStart
    <2>2. CASE g # f
      BY <1>0, <1>5, <2>2 DEF FlushStart, FlushNext, FlushOn, FlushGaveUp, Sends
    <2> QED  BY <2>1, <2>2
  <1> QED  BY <1>1, <1>2, <1>3, <1>4, <1>5, FlushAt

\* The list of results to tell, with what a step adds or takes.
LEMMA DendsGo ==
  ASSUME Types, Types', Once, Marked, Marks, [Next]_vars
  PROVE  \/ dends' = dends \/ dends' = <<>>
         \/ /\ FinishDeploy /\ task # NoTask /\ Len(dends') = 1 /\ dends'[1].dep = task.dep
            /\ UNCHANGED <<link, hello, told, mark, cut>>
  <1> USE DEF dbVars, superVars, netVars, agentVars, history
  <1>0. dends \in Seq(DepEndType) /\ Len(dends) <= 1
    BY DEF Types, WayTypes, Marks, PendingOnce
  <1>1. CASE UpdaterRestarts
    BY <1>1 DEF UpdaterRestarts
  <1>2. CASE FinishDeploy
    <2>1. task # NoTask /\ UNCHANGED <<link, hello, told, mark, cut>>
      BY <1>2 DEF FinishDeploy, NoTask
    <2>2. dends = <<>>
      <3> SUFFICES ASSUME dends # <<>> PROVE FALSE
        OBVIOUS
      <3>1. Head(dends) \in Range(dends) /\ Head(dends) \in DepEndType
        BY <1>0, RangeFacts
      <3> QED  BY <2>1, <3>1 DEF Marks, TaskMarked, NonePending, Pending
    <2>3. PICK e : dends' = Append(dends, e) /\ e.dep = task.dep
      BY <1>2 DEF FinishDeploy
    <2>4. dends' = <<e>>
      BY <2>2, <2>3
    <2>5. Len(dends') = 1 /\ dends'[1].dep = task.dep
      BY <2>3, <2>4
    <2> QED  BY <1>2, <2>1, <2>5
  <1>3. ASSUME NEW f \in Flushers, FlushNext(f) PROVE dends' = dends \/ dends' = <<>>
    <2>1. dends' = dends \/ dends' = Without(dends, Head(flush[f].todo))
      BY <1>3 DEF FlushNext, FlushOn, FlushGaveUp
    <2> QED  BY <1>0, <2>1, WithoutOne
  <1> QED  BY <1>1, <1>2, <1>3, DendsChange

\* At most one deployment has an end still to be told.
LEMMA PendingOnceStep ==
  ASSUME Types, Types', Once, Real, Marked, Marks, [Next]_vars
  PROVE  PendingOnce'
  <1> USE DEF dbVars, superVars, netVars, agentVars, history
  <1>0. dends \in Seq(DepEndType) /\ Len(dends) <= 1
    BY DEF Types, WayTypes, Marks, PendingOnce
  <1>p. dends # <<>> => dends[1] \in DepEndType /\ Pending(dends[1])
    <2> SUFFICES ASSUME dends # <<>> PROVE dends[1] \in DepEndType /\ Pending(dends[1])
      OBVIOUS
    <2>1. Head(dends) \in Range(dends) /\ Head(dends) = dends[1] /\ dends[1] \in DepEndType
      BY <1>0, RangeFacts
    <2> QED  BY <2>1 DEF Pending
  <1>1. ASSUME NEW e \in DepEndType, NEW g \in DepEndType, Pending(e)', Pending(g)' PROVE e = g
    <2>1. CASE Pending(e) /\ Pending(g)
      BY <2>1 DEF Marks, PendingOnce
    <2>2. CASE ~Pending(e) \/ ~Pending(g)
      <3>1. FinishDeploy
        BY <1>1, <2>2, PendingGoes
      <3>2. task # NoTask
        BY <3>1 DEF FinishDeploy, NoTask
      <3>3. ~Pending(e) /\ ~Pending(g)
        BY <3>2 DEF Marks, TaskMarked, NonePending
      <3> QED  BY <1>1, <3>3, PendingGoes
    <2> QED  BY <2>1, <2>2
  <1>2. Len(dends') <= 1
    <2>1. dends' = <<>> => Len(dends') <= 1
      OBVIOUS
    <2>2. Len(dends') = 1 => Len(dends') <= 1
      OBVIOUS
    <2> QED  BY <1>0, <2>1, <2>2, DendsGo
  <1>3. ASSUME hello' = "done", ~cut', dends' # <<>>
        PROVE  mark'.dep = dends'[1].dep \/ \E f \in Flushers : flush'[f].st = "depAcked"
    <2>1. CASE FinishDeploy /\ task # NoTask /\ dends'[1].dep = task.dep /\ UNCHANGED <<hello, mark>>
      BY <1>3, <2>1 DEF Marks, TaskMarked
    <2>2. CASE dends' = dends
      <3>1. CASE Hello
        <4>1. hello = "added"
          BY <3>1, HelloDoes
        <4>2. told.deps = <<dends[1].dep>>
          BY <1>3, <2>2, <4>1 DEF Marks, PendingOnce
        <4>3. Head(told.deps) = dends[1].dep /\ told.deps # <<>>
          BY <4>2
        <4> QED  BY <2>2, <3>1, <4>3, HelloDoes
      <3>2. CASE ~Hello
        <4>1. ~Dial /\ ~ServeEnds /\ ~SupervisorRestarts /\ ~UpdaterRestarts /\ ~Cut
          BY <1>3 DEF Dial, ServeEnds, SupervisorRestarts, UpdaterRestarts, Cut
        <4>2. hello = "done" /\ ~cut
          BY <1>3, <3>2, <4>1, LinkChange, CutChange
        <4>3. CASE mark.dep = dends[1].dep
          <5>1. CASE mark'.dep = mark.dep
            BY <2>2, <4>3, <5>1
          <5>2. CASE OnDeployEnd
            BY <4>2, <5>2, AckMoves
          <5>3. mark.dep \in DepIds /\ ~Unsent(mark.dep)
            BY <1>3, <1>p, <2>2, <4>3 DEF DepEndType, Marks, PendingTrue
          <5>4. mark.dep # 0
            BY <5>3 DEF DepIds
          <5>5. ASSUME NEW v \in Users, TakeDeploy(v) PROVE mark'.dep = mark.dep
            BY <5>4, <5>5, TakeDoes
          <5>6. ASSUME NEW v \in Users, SendDeploy(v) PROVE mark'.dep = mark.dep
            BY <5>3, <5>6, SendDeployDoes
          <5>7. ASSUME NEW v \in Users, SendRollback(v) PROVE FALSE
            BY <5>4, <5>7, RollbackDoes
          <5>8. ASSUME NEW v \in Users, CallReturns(v) PROVE mark'.dep = mark.dep
            <6>1. req[v] # NoReq /\ req[v].st = "refused"
              BY <5>8, ReturnDoes DEF Marks
            <6>2. CASE req[v].kind = "run"
              BY <5>8, <6>2, ReturnDoes DEF Marks
            <6>3. CASE req[v].kind # "run"
              <7> SUFFICES ASSUME mark'.dep # mark.dep PROVE FALSE
                OBVIOUS
              <7>1. Alive(v) /\ mark.dep = req[v].id
                BY <5>8, <6>3, ReturnDoes DEF Marks
              <7>2. Pending(dends[1]) /\ dends[1] \in DepEndType /\ dends[1].dep = req[v].id
                BY <1>3, <1>p, <2>2, <4>3, <7>1
              <7> QED  BY <4>2, <6>1, <6>3, <7>1, <7>2 DEF Marks, Refusals, Alive
            <6> QED  BY <6>2, <6>3
          <5> QED  BY <3>2, <4>1, <5>1, <5>2, <5>5, <5>6, <5>7, <5>8, MarkChange
        <4>4. ASSUME NEW f \in Flushers, flush[f].st = "depAcked" PROVE \E g \in Flushers : flush'[g].st = "depAcked"
          <5>1. CASE flush'[f] = flush[f]
            BY <4>4, <5>1
          <5>2. ASSUME FlushNext(f) PROVE FALSE
            <6>1. flush[f] \in FlushType /\ flush[f] # Idle
              BY <4>4 DEF Types, WayTypes, Idle
            <6>2. flush[f] \in DepsFlush
              BY <4>4, <6>1 DEF FlushType, EndsFlush
            <6>3. flush[f].todo \in Seq(DepEndType) /\ flush[f].todo # <<>>
              BY <6>2 DEF DepsFlush
            <6>4. Head(flush[f].todo) \in Range(flush[f].todo) /\ Head(flush[f].todo) \in DepEndType
              BY <6>3, RangeFacts
            <6>5. Pending(Head(flush[f].todo))
              BY <4>4, <6>4 DEF Pending, HasFlush
            <6>6. dends[1] = Head(flush[f].todo)
              BY <1>3, <1>p, <2>2, <6>4, <6>5 DEF Marks, PendingOnce
            <6>7. dends' = Without(dends, Head(flush[f].todo))
              BY <4>4, <5>2 DEF FlushNext, FlushOn, FlushGaveUp, Marked
            <6> QED  BY <1>0, <1>3, <2>2, <6>6, <6>7, WithoutOne
          <5> QED  BY <1>3, <4>4, <5>1, <5>2, AnsweredStays
        <4> QED  BY <1>3, <2>2, <4>2, <4>3, <4>4 DEF Marks, PendingOnce
      <3> QED  BY <3>1, <3>2
    <2> QED  BY <1>3, <2>1, <2>2, DendsGo
  <1>4. ASSUME hello' = "added", dends' # <<>> PROVE told'.deps = <<dends'[1].dep>>
    <2>1. CASE FinishDeploy /\ task # NoTask /\ dends'[1].dep = task.dep /\ UNCHANGED <<hello, told>>
      BY <1>4, <2>1 DEF Marks, TaskMarked
    <2>2. CASE dends' = dends
      <3>1. CASE Dial
        <4>1. task = NoTask
          BY <1>4, <1>p, <2>2 DEF Marks, TaskMarked, NonePending
        <4>2. told'.deps = <<>> \o [i \in DOMAIN dends |-> dends[i].dep]
          BY <3>1, <4>1 DEF Dial, Deploying
        <4>3. Len(dends) = 1
          <5>1. dends # <<>>
            BY <1>4, <2>2
          <5>2. Len(dends) \in Nat /\ (Len(dends) = 0 => dends = <<>>)
            BY <1>0
          <5>3. \A n \in Nat : n <= 1 /\ n # 0 => n = 1
            OBVIOUS
          <5> QED  BY <1>0, <5>1, <5>2, <5>3
        <4>4. told'.deps = <<dends[1].dep>>
          BY <1>0, <4>2, <4>3
        <4> QED  BY <2>2, <4>4
      <3>2. CASE ~Dial
        <4>1. ~Hello /\ ~ServeEnds /\ ~SupervisorRestarts
          BY <1>4 DEF Hello, ServeEnds, SupervisorRestarts
        <4>2. UNCHANGED <<hello, told>>
          BY <3>2, <4>1, LinkChange
        <4> QED  BY <1>4, <2>2, <4>2 DEF Marks, PendingOnce
      <3> QED  BY <3>1, <3>2
    <2> QED  BY <1>4, <2>1, <2>2, DendsGo
  <1> QED  BY <1>1, <1>2, <1>3, <1>4 DEF PendingOnce

\* The marks as one inductive invariant.
LEMMA InitMarks == Init => Marks
  <1> SUFFICES ASSUME Init PROVE Marks
    OBVIOUS
  <1>1. /\ deps = [d \in DepIds |-> NoDep] /\ rows = [r \in RunIds |-> "none"] /\ req = [u \in Users |-> NoReq] /\ down = {}
        /\ task = NoTask /\ did = [r \in RunIds |-> "none"] /\ link = 0 /\ hello = "no" /\ last = 0 /\ up = <<>>
        /\ dends = <<>> /\ flush = [f \in Flushers |-> Idle]
    BY DEF Init
  <1>2. NonePending
    <2>1. dends = <<>> /\ up = <<>> /\ \A f \in Flushers : flush[f] = Idle
      BY <1>1
    <2> QED  BY <2>1, NoRange DEF NonePending, Pending, HasUp, HasFlush, Idle
  <1>3. LinksKnown /\ ReqsLinked /\ ReqsMarked /\ CallsFit /\ OrdersGo /\ TaskMarked /\ Refusals
    BY <1>1 DEF LinksKnown, ReqsLinked, ReqLinked, ReqsMarked, Asks, CallsFit, OrdersGo, TaskMarked, Refusals
  <1>4. PendingOnce /\ PendingTrue
    BY <1>1, <1>2 DEF PendingOnce, PendingTrue, NonePending
  <1>5. UndoneRows /\ NewestGoes
    BY <1>1 DEF UndoneRows, NewestGoes, Undoing, NoDep
  <1>6. FailsTrue
    BY <1>1 DEF FailsTrue, RunRefused, Asks
  <1> QED  BY <1>3, <1>4, <1>5, <1>6 DEF Marks

LEMMA MarksStep ==
  ASSUME Marked, Types, Types', Once, Real, Marks, [Next]_vars
  PROVE  Marks'
  <1>1. LinksKnown /\ ReqsLinked /\ CallsFit /\ FailsTrue
    BY DEF Marks
  <1>2. LinksKnown' /\ ReqsLinked' /\ CallsFit' /\ FailsTrue'
    BY <1>1, LinksStep, ReqsLinkedStep, CallsFitStep, FailsTrueStep
  <1>3. ReqsMarked' /\ OrdersGo' /\ TaskMarked' /\ PendingOnce' /\ PendingTrue' /\ Refusals' /\ UndoneRows' /\ NewestGoes'
    BY ReqsMarkedStep, OrdersGoStep, TaskMarkedStep, PendingOnceStep, PendingTrueStep, RefusalsStep, UndoneRowsStep,
       NewestGoesStep
  <1> QED  BY <1>2, <1>3 DEF Marks

LEMMA MarksHold ==
  ASSUME Marked
  PROVE  Spec => [](Types /\ Once /\ Real /\ Marks)
  <1> DEFINE I == Types /\ Once /\ Real /\ Marks
  <1>1. Init => I
    BY InitTypes, InitOnce, InitReal, InitMarks
  <1>2. I /\ [Next]_vars => I'
    <2> SUFFICES ASSUME Types, Once, Real, Marks, [Next]_vars PROVE Types' /\ Once' /\ Real' /\ Marks'
      OBVIOUS
    <2>1. Types'
      BY TypesStep
    <2> QED  BY <2>1, OnceStep, RealStep, MarksStep DEF OnceGoes
  <1> HIDE DEF I
  <1>3. Spec => []I
    BY <1>1, <1>2, PTL DEF Spec
  <1> QED  BY <1>3 DEF I

(* "Only once", in full: a run recorded as ok or failed ended so on the    *)
(* machine or never ran there, and a deployment recorded as done, or as    *)
(* undone, was, whatever is lost with a connection, repeated or restarted. *)
THEOREM RecordsAreReal ==
  ASSUME Marked
  PROVE  Spec => []OkIsReal
  <1>1. Types /\ Real /\ Marks => OkIsReal
    BY DEF Real, RecordsAreTrue, Marks, FailsTrue, UndoneRows, OkIsReal
  <1> QED  BY <1>1, MarksHold, PTL

(* The updater undoes only the newest deployment still in place.           *)
THEOREM OnlyNewestUndone ==
  ASSUME Marked
  PROVE  Spec => []UndoesNewest
  <1>1. Marks => UndoesNewest
    BY DEF Marks, NewestGoes, Undoing, UndoesNewest
  <1> QED  BY <1>1, MarksHold, PTL

(* No result is written anew: not of a run, not of a deployment, and a     *)
(* rollback that was done stays done, one that failed needs another try.   *)
THEOREM NothingRewritten ==
  ASSUME Marked
  PROVE  Spec => ResultsAreFinal
  <1>1. ASSUME Types, Types', Once, Real, Marks, [Next]_vars
        PROVE  /\ \A r \in RunIds : rows[r] \in Ended \cup {"skip"} => rows'[r] = rows[r]
               /\ \A d \in DepIds : deps[d].res \in Ended => deps'[d].res = deps[d].res
               /\ \A d \in DepIds : deps[d].back = "ok" => deps'[d].back = "ok"
               /\ \A d \in DepIds : deps[d].back \in {"fail", "cancel"} => deps'[d].back # "ok"
    <2>1. RowsRecorded /\ DepsRecorded
      BY <1>1, Recorded
    <2>2. /\ \A r \in RunIds : rows[r] \in Ended \cup {"skip"} => rows'[r] = rows[r]
          /\ \A d \in DepIds : deps[d].res \in Ended => deps'[d].res = deps[d].res
      BY <2>1 DEF RowsRecorded, DepsRecorded, Ended
    <2>3. \A d \in DepIds : deps[d].back = "ok" => deps'[d].back = "ok"
      BY <1>1, BackStays
    <2>4. ASSUME NEW d \in DepIds, deps[d].back \in {"fail", "cancel"}, deps'[d].back = "ok" PROVE FALSE
      <3>1. PICK e \in DepEndType : Pending(e) /\ e.dep = d /\ Undone(e)
        BY <1>1, <2>4, BackOk
      <3>2. Going(deps[d], e.list) \/ Told(deps[d], e)
        BY <1>1, <3>1 DEF Marks, PendingTrue
      <3> QED  BY <2>4, <3>1, <3>2 DEF Going, Told
    <2> QED  BY <2>2, <2>3, <2>4
  <1>2. Types /\ Types' /\ Once /\ Real /\ Marks /\ [Next]_vars =>
          [/\ \A r \in RunIds : rows[r] \in Ended \cup {"skip"} => rows'[r] = rows[r]
           /\ \A d \in DepIds : deps[d].res \in Ended => deps'[d].res = deps[d].res
           /\ \A d \in DepIds : deps[d].back = "ok" => deps'[d].back = "ok"
           /\ \A d \in DepIds : deps[d].back \in {"fail", "cancel"} => deps'[d].back # "ok"]_vars
    BY <1>1
  <1> QED  BY <1>2, MarksHold, PTL DEF Spec, ResultsAreFinal
=============================================================================
