-------------------------- MODULE TileBoardsProofs --------------------------
(***************************************************************************)
(* What holds of the boards of an account, the terminals on them and the   *)
(* edits of a tab, for any number of processes, tiles, boards, edits and   *)
(* requests.  First what the functions on a document make of it, then what *)
(* a commit does to boards, processes and to all that is on its way, then  *)
(* one lemma for each action, and last the theorems.  B and H, bound by    *)
(* the invariant, are histories: B[k] says what tile the id k is or was,   *)
(* H[<<g, v>>] is the document the board g had at version v.               *)
(***************************************************************************)
EXTENDS TileBoards, WellFoundedInduction, SequenceTheorems, FiniteSetTheorems, TLAPS

\* What a uid may be: a process, a video, the id or row of a folder, or -1.
UIDs == Procs \union Videos \union Int
TileSet == [type : Kinds, parent : Nat, node : Nodes \union {None}, uid : UIDs, at : Nat, bound : BOOLEAN]
DocSet == [root : Nat, order : Seq(Nat), tiles : UNION {[S -> TileSet] : S \in SUBSET (Nat \ {0})}]

\* What stays of a tile for good: its type and, unless it is a folder, whose it is.
What(t) == <<t.type, IF t.type \in {"terminal", "viewer"} THEN t.uid ELSE None>>

\* The document has ids given out before n, and under each the tile B says it is.
Fit(d, B, n) == d \in DocSet /\ \A k \in Ids(d) : k < n /\ B[k] = What(d.tiles[k])

\* Every set that has the root, and what its members opened, has all tiles.
Reach(d) == \A S \in SUBSET Ids(d) : d.root \in S /\ HasOpened(d, S) => Ids(d) \subseteq S
\* A tree: every tile but the root has an opener that may open, and all are reached.
Rooted(d) ==
  /\ d.root \in Ids(d) /\ d.tiles[d.root].parent = None /\ CanRoot(d.tiles[d.root])
  /\ \A id \in Ids(d) \ {d.root} : d.tiles[id].parent \in Ids(d) /\ CanParent(d.tiles[d.tiles[id].parent])
  /\ Reach(d)

\* The order has every tile once, the root first.
Once(s) == \A i, j \in 1 .. Len(s) : s[i] = s[j] => i = j
Listed(d) == /\ \A k : k \in Ids(d) <=> Contains(d.order, k)
             /\ Once(d.order)
             /\ Len(d.order) > 0 /\ d.order[1] = d.root

\* The tile is the same but for the one that opened it.
Alike(t, u) == /\ t \in TileSet /\ t.type = u.type /\ t.node = u.node /\ t.uid = u.uid
               /\ t.bound = u.bound /\ What(t) = What(u)
SameShape(d, e) == /\ e.root = d.root /\ e.order = d.order /\ Ids(e) = Ids(d)
                   /\ \A k \in Ids(d) : /\ e.tiles[k].type = d.tiles[k].type
                                         /\ e.tiles[k].parent = d.tiles[k].parent

\* A set of numbers has a least one.
LEMMA Least ==
  ASSUME NEW T, T \subseteq Nat, T # {}
  PROVE  \E n \in T : \A m \in 0 .. n - 1 : m \notin T
<1> DEFINE R == {ss \in Nat \X Nat : ss[1] < ss[2]}
<1>1. IsWellFoundedOn(R, Nat)
  BY NatLessThanWellFounded DEF OpToRel
<1> HIDE DEF R
<1>2. PICK n \in T : \A m \in T : <<m, n>> \notin R
  BY <1>1, WFMin
<1>3. \A m \in Nat : m < n => <<m, n>> \in R
  BY <1>2 DEF R
<1>4. n \in Nat
  BY <1>2
<1>5. \A m \in 0 .. n - 1 : m \in Nat /\ m < n
  BY <1>4
<1> QED
  BY <1>2, <1>3, <1>5

LEMMA Induction ==
  ASSUME NEW T, 0 \in T, \A n \in Nat : n \in T => n + 1 \in T
  PROVE  Nat \subseteq T
<1> SUFFICES ASSUME NEW k \in Nat \ T PROVE FALSE
  OBVIOUS
<1>1. PICK n \in Nat \ T : \A m \in 0 .. n - 1 : m \notin Nat \ T
  BY Least
<1>2. n # 0 /\ n - 1 \in Nat /\ n - 1 \in 0 .. n - 1 /\ (n - 1) + 1 = n
  BY <1>1
<1> QED
  BY <1>1, <1>2

----------
(* Sequences without some of their elements.                               *)
Rest(f, s, gone, n) ==
  f = [i \in 0 .. n |-> IF i = 0 THEN <<>> ELSE IF s[i] \in gone THEN f[i - 1] ELSE Append(f[i - 1], s[i])]

LEMMA RestExists == ASSUME NEW s, NEW gone PROVE \A n \in Nat : \E f : Rest(f, s, gone, n)
<1> DEFINE T == {n \in Nat : \E f : Rest(f, s, gone, n)}
<1>1. 0 \in T
  <2> DEFINE f == [i \in 0 .. 0 |-> <<>>]
  <2>1. Rest(f, s, gone, 0)
    BY DEF Rest
  <2> QED BY <2>1
<1>2. ASSUME NEW n \in Nat, n \in T PROVE n + 1 \in T
  <2>1. PICK f : Rest(f, s, gone, n)
    BY <1>2
  <2> DEFINE g == [i \in 0 .. n + 1 |-> IF i = n + 1 THEN IF s[i] \in gone THEN f[n] ELSE Append(f[n], s[i]) ELSE f[i]]
  <2>2. ASSUME NEW i \in 0 .. n + 1
        PROVE g[i] = IF i = 0 THEN <<>> ELSE IF s[i] \in gone THEN g[i - 1] ELSE Append(g[i - 1], s[i])
    <3>1. CASE i = n + 1
      <4>1. i # 0 /\ i - 1 = n /\ n \in 0 .. n + 1 /\ n # n + 1
        BY <3>1
      <4> QED BY <3>1, <4>1
    <3>2. CASE i # n + 1
      <4>1. i \in 0 .. n /\ (i # 0 => i - 1 \in 0 .. n /\ i - 1 # n + 1 /\ i - 1 \in 0 .. n + 1)
        BY <3>2
      <4>2. f[i] = IF i = 0 THEN <<>> ELSE IF s[i] \in gone THEN f[i - 1] ELSE Append(f[i - 1], s[i])
        BY <2>1, <4>1 DEF Rest
      <4> QED BY <3>2, <4>1, <4>2
    <3> QED BY <3>1, <3>2
  <2>3. Rest(g, s, gone, n + 1)
    <3> HIDE DEF g
    <3>1. g = [i \in 0 .. n + 1 |-> g[i]]
      BY DEF g
    <3> QED BY <2>2, <3>1 DEF Rest
  <2> QED BY <2>3
<1> HIDE DEF T
<1>3. Nat \subseteq T
  BY <1>1, <1>2, Induction
<1> QED BY <1>3 DEF T

\* What Drop leaves: the elements that are not dropped, in their order.
LEMMA DropRest ==
  ASSUME NEW S, NEW s \in Seq(S), NEW gone
  PROVE  /\ Drop(s, gone) \in Seq(S)
         /\ \A m \in 1 .. Len(Drop(s, gone)) : \E i \in 1 .. Len(s) : Drop(s, gone)[m] = s[i] /\ s[i] \notin gone
         /\ \A i \in 1 .. Len(s) : s[i] \notin gone => \E m \in 1 .. Len(Drop(s, gone)) : Drop(s, gone)[m] = s[i]
         /\ \A l, m \in 1 .. Len(Drop(s, gone)) : l < m =>
              \E i, j \in 1 .. Len(s) : i < j /\ Drop(s, gone)[l] = s[i] /\ Drop(s, gone)[m] = s[j]
         /\ Len(s) > 0 /\ s[1] \notin gone => Len(Drop(s, gone)) > 0 /\ Drop(s, gone)[1] = s[1]
<1> DEFINE f == CHOOSE f : Rest(f, s, gone, Len(s))
<1>1. Rest(f, s, gone, Len(s))
  BY RestExists
<1>2. Drop(s, gone) = f[Len(s)]
  BY DEF Drop, Rest
<1> HIDE DEF f
<1> DEFINE P(n, q) ==
      /\ q \in Seq(S)
      /\ \A m \in 1 .. Len(q) : \E i \in 1 .. n : q[m] = s[i] /\ s[i] \notin gone
      /\ \A i \in 1 .. n : s[i] \notin gone => \E m \in 1 .. Len(q) : q[m] = s[i]
      /\ \A l, m \in 1 .. Len(q) : l < m => \E i, j \in 1 .. n : i < j /\ q[l] = s[i] /\ q[m] = s[j]
      /\ n > 0 /\ s[1] \notin gone => Len(q) > 0 /\ q[1] = s[1]
<1> DEFINE T == {n \in Nat : n <= Len(s) => P(n, f[n])}
<1>3. 0 \in T
  <2>1. f[0] = <<>>
    BY <1>1 DEF Rest
  <2>2. P(0, <<>>)
    OBVIOUS
  <2>3. P(0, f[0])
    BY <2>1, <2>2
  <2> QED BY <2>3
<1>4. ASSUME NEW n \in Nat, n \in T PROVE n + 1 \in T
  <2> SUFFICES ASSUME n + 1 <= Len(s) PROVE P(n + 1, f[n + 1])
    OBVIOUS
  <2>1. n <= Len(s) /\ n + 1 \in 1 .. Len(s) /\ s[n + 1] \in S
    OBVIOUS
  <2>2. P(n, f[n])
    BY <2>1, <1>4
  <2>3. f[n + 1] = IF s[n + 1] \in gone THEN f[n] ELSE Append(f[n], s[n + 1])
    <3>1. n + 1 \in 0 .. Len(s) /\ n + 1 # 0 /\ (n + 1) - 1 = n
      BY <2>1
    <3> QED BY <1>1, <3>1 DEF Rest
  <2> DEFINE q == f[n]
  <2> HIDE DEF q
  <2>q. P(n, q)
    BY <2>2 DEF q
  <2>4. CASE s[n + 1] \in gone
    <3>1. f[n + 1] = q
      BY <2>3, <2>4 DEF q
    <3>2. \A i \in 1 .. n : i \in 1 .. n + 1
      OBVIOUS
    <3>3. \A i \in 1 .. n + 1 : s[i] \notin gone => i \in 1 .. n
      BY <2>4
    <3>4. P(n + 1, q)
      <4>1. q \in Seq(S) /\ \A m \in 1 .. Len(q) : \E i \in 1 .. n + 1 : q[m] = s[i] /\ s[i] \notin gone
        BY <2>q, <3>2
      <4>2. \A i \in 1 .. n + 1 : s[i] \notin gone => \E m \in 1 .. Len(q) : q[m] = s[i]
        BY <2>q, <3>3
      <4>3. \A l, m \in 1 .. Len(q) : l < m => \E i, j \in 1 .. n + 1 : i < j /\ q[l] = s[i] /\ q[m] = s[j]
        BY <2>q, <3>2
      <4>4. s[1] \notin gone => n > 0
        BY <2>4
      <4> QED BY <2>q, <4>1, <4>2, <4>3, <4>4
    <3> QED BY <3>1, <3>4
  <2>5. CASE s[n + 1] \notin gone
    <3> DEFINE r == Append(q, s[n + 1])
    <3>1. f[n + 1] = r
      BY <2>3, <2>5 DEF q
    <3>2. /\ r \in Seq(S) /\ Len(r) = Len(q) + 1 /\ Len(q) \in Nat /\ r[Len(q) + 1] = s[n + 1]
          /\ \A m \in 1 .. Len(q) : r[m] = q[m]
      BY <2>q, <2>1
    <3> HIDE DEF r
    <3>3. \A m \in 1 .. Len(r) : m = Len(q) + 1 \/ m \in 1 .. Len(q)
      BY <3>2
    <3>4. \A i \in 1 .. n + 1 : i = n + 1 \/ i \in 1 .. n
      OBVIOUS
    <3>5. /\ \A i \in 1 .. n : i \in 1 .. n + 1 /\ i < n + 1
          /\ n + 1 \in 1 .. n + 1
          /\ \A m \in 1 .. Len(q) : m \in 1 .. Len(r)
          /\ Len(q) + 1 \in 1 .. Len(r)
      BY <3>2
    <3>6. ASSUME NEW m \in 1 .. Len(r) PROVE \E i \in 1 .. n + 1 : r[m] = s[i] /\ s[i] \notin gone
      <4>1. CASE m \in 1 .. Len(q)
        <5>1. PICK i \in 1 .. n : q[m] = s[i] /\ s[i] \notin gone
          BY <2>q, <4>1
        <5> QED BY <5>1, <4>1, <3>2, <3>5
      <4>2. CASE m = Len(q) + 1
        BY <2>5, <3>2, <3>5, <4>2
      <4> QED BY <3>3, <4>1, <4>2
    <3>7. \A i \in 1 .. n + 1 : s[i] \notin gone => \E m \in 1 .. Len(r) : r[m] = s[i]
      BY <2>q, <3>2, <3>4, <3>5
    <3>8. ASSUME NEW l \in 1 .. Len(r), NEW m \in 1 .. Len(r), l < m
          PROVE \E i, j \in 1 .. n + 1 : i < j /\ r[l] = s[i] /\ r[m] = s[j]
      <4>1. l \in 1 .. Len(q)
        BY <3>8, <3>2
      <4>2. CASE m \in 1 .. Len(q)
        <5>1. PICK i \in 1 .. n, j \in 1 .. n : i < j /\ q[l] = s[i] /\ q[m] = s[j]
          BY <2>q, <3>8, <4>1, <4>2
        <5> QED BY <5>1, <4>1, <4>2, <3>2, <3>5
      <4>3. CASE m = Len(q) + 1
        <5>1. PICK i \in 1 .. n : q[l] = s[i]
          BY <2>q, <4>1
        <5> QED BY <5>1, <4>1, <4>3, <3>2, <3>5
      <4> QED BY <4>2, <4>3, <3>3
    <3>9. s[1] \notin gone => Len(r) > 0 /\ r[1] = s[1]
      <4>1. CASE n > 0
        <5> HAVE s[1] \notin gone
        <5>1. Len(q) > 0 /\ q[1] = s[1] /\ 1 \in 1 .. Len(q)
          BY <4>1, <2>q, <3>2
        <5> QED BY <5>1, <3>2
      <4>2. CASE n = 0
        <5>1. Len(q) = 0
          <6> SUFFICES ASSUME Len(q) # 0 PROVE FALSE
            OBVIOUS
          <6>1. 1 \in 1 .. Len(q)
            BY <3>2
          <6> QED BY <6>1, <2>q, <4>2
        <5> QED BY <5>1, <3>2, <4>2
      <4> QED BY <4>1, <4>2
    <3>10. P(n + 1, r)
      BY <3>2, <3>6, <3>7, <3>8, <3>9
    <3> QED BY <3>1, <3>10
  <2> QED BY <2>4, <2>5
<1>5. Len(s) \in T
  <2> HIDE DEF T
  <2> QED BY <1>3, <1>4, Induction
<1>6. P(Len(s), f[Len(s)])
  <2>1. Len(s) \in Nat /\ Len(s) <= Len(s)
    OBVIOUS
  <2> HIDE DEF P
  <2> QED BY <1>5, <2>1
<1> QED BY <1>6, <1>2

\* The same of a sequence q that is what Drop leaves.
DropsTo(S, s, gone, q) ==
  /\ q \in Seq(S)
  /\ \A m \in 1 .. Len(q) : \E i \in 1 .. Len(s) : q[m] = s[i] /\ s[i] \notin gone
  /\ \A i \in 1 .. Len(s) : s[i] \notin gone => \E m \in 1 .. Len(q) : q[m] = s[i]
  /\ \A l, m \in 1 .. Len(q) : l < m => \E i, j \in 1 .. Len(s) : i < j /\ q[l] = s[i] /\ q[m] = s[j]

LEMMA DropTo == ASSUME NEW S, NEW s \in Seq(S), NEW gone PROVE DropsTo(S, s, gone, Drop(s, gone))
<1> QED BY DropRest DEF DropsTo

\* Drop keeps a sequence free of repetitions.
LEMMA DropOnce ==
  ASSUME NEW S, NEW s \in Seq(S), NEW gone, Once(s)
  PROVE  Once(Drop(s, gone))
<1> DEFINE D == Drop(s, gone)
<1>1. /\ D \in Seq(S)
      /\ \A l, m \in 1 .. Len(D) : l < m => \E i, j \in 1 .. Len(s) : i < j /\ D[l] = s[i] /\ D[m] = s[j]
  BY DropRest
<1> HIDE DEF D
<1>3. \A l, m \in 1 .. Len(D) : l < m => D[l] # D[m]
  BY <1>1 DEF Once
<1>4. \A l, m \in 1 .. Len(D) : D[l] = D[m] => l = m
  BY <1>1, <1>3
<1> QED BY <1>4 DEF Once, D

\* The order with a group of ids put in after the first i.
Splice(o, i, q) == SubSeq(o, 1, i) \o q \o SubSeq(o, i + 1, Len(o))

\* Splice element by element.
LEMMA SpliceIs ==
  ASSUME NEW o \in Seq(Nat), NEW q \in Seq(Nat), NEW i \in 0 .. Len(o)
  PROVE  /\ Splice(o, i, q) \in Seq(Nat)
         /\ Len(Splice(o, i, q)) = Len(o) + Len(q)
         /\ \A m \in 1 .. Len(o) + Len(q) :
              Splice(o, i, q)[m] = IF m <= i THEN o[m] ELSE IF m <= i + Len(q) THEN q[m - i] ELSE o[m - Len(q)]
<1> DEFINE a == SubSeq(o, 1, i)
           b == SubSeq(o, i + 1, Len(o))
<1>1. Len(o) \in Nat /\ Len(q) \in Nat /\ i \in Nat /\ i <= Len(o)
  OBVIOUS
<1>2. a \in Seq(Nat) /\ Len(a) = i /\ \A m \in 1 .. i : a[m] = o[m]
  <2>1. \A m \in 1 .. i : o[m] \in Nat
    BY <1>1
  <2>2. 1 \in Int /\ i \in Int
    BY <1>1
  <2> QED BY <1>1, <2>1, <2>2, SubSeqProperties
<1>3. b \in Seq(Nat) /\ Len(b) = Len(o) - i /\ \A m \in 1 .. Len(o) - i : b[m] = o[i + m]
  <2>1. \A m \in i + 1 .. Len(o) : o[m] \in Nat
    BY <1>1
  <2>2. i + 1 \in Int /\ Len(o) \in Int
    BY <1>1
  <2> QED BY <1>1, <2>1, <2>2, SubSeqProperties
<1> HIDE DEF a, b
<1>4. /\ a \o q \in Seq(Nat) /\ Len(a \o q) = i + Len(q)
      /\ \A m \in 1 .. i + Len(q) : (a \o q)[m] = IF m <= i THEN a[m] ELSE q[m - i]
  BY <1>2, ConcatProperties
<1> DEFINE c == a \o q
<1> HIDE DEF c
<1>5. c \o b \in Seq(Nat) /\ Len(c \o b) = Len(o) + Len(q)
      /\ \A m \in 1 .. Len(o) + Len(q) : (c \o b)[m] = IF m <= i + Len(q) THEN c[m] ELSE b[m - (i + Len(q))]
  <2>1. c \in Seq(Nat) /\ Len(c) = i + Len(q)
    BY <1>4 DEF c
  <2>2. /\ c \o b \in Seq(Nat) /\ Len(c \o b) = Len(c) + Len(b)
        /\ \A m \in 1 .. Len(c) + Len(b) : (c \o b)[m] = IF m <= Len(c) THEN c[m] ELSE b[m - Len(c)]
    BY <1>3, <2>1, ConcatProperties
  <2>3. Len(c) + Len(b) = Len(o) + Len(q)
    BY <1>1, <1>3, <2>1
  <2> QED BY <2>1, <2>2, <2>3
<1>6. Splice(o, i, q) = c \o b
  BY DEF Splice, a, b, c
<1>7. ASSUME NEW m \in 1 .. Len(o) + Len(q)
      PROVE (c \o b)[m] = IF m <= i THEN o[m] ELSE IF m <= i + Len(q) THEN q[m - i] ELSE o[m - Len(q)]
  <2>1. CASE m <= i
    BY <1>1, <1>2, <1>4, <1>5, <2>1 DEF c
  <2>2. CASE ~(m <= i) /\ m <= i + Len(q)
    BY <1>1, <1>4, <1>5, <2>2 DEF c
  <2>3. CASE ~(m <= i + Len(q))
    <3>1. m - (i + Len(q)) \in 1 .. Len(o) - i /\ i + (m - (i + Len(q))) = m - Len(q) /\ ~(m <= i)
      BY <1>1, <2>3
    <3>2. (c \o b)[m] = b[m - (i + Len(q))]
      BY <1>5, <2>3
    <3>3. b[m - (i + Len(q))] = o[m - Len(q)]
      BY <1>3, <3>1
    <3> QED BY <2>3, <3>1, <3>2, <3>3
  <2> QED BY <2>1, <2>2, <2>3
<1> QED BY <1>5, <1>6, <1>7

\* Splice has the elements of both, and each once when they are apart.
LEMMA SpliceHas ==
  ASSUME NEW o \in Seq(Nat), NEW q \in Seq(Nat), NEW i \in 0 .. Len(o)
  PROVE  /\ \A k : Contains(Splice(o, i, q), k) <=> Contains(o, k) \/ Contains(q, k)
         /\ Once(o) /\ Once(q) /\ (\A k : ~(Contains(o, k) /\ Contains(q, k))) => Once(Splice(o, i, q))
         /\ i > 0 => Len(Splice(o, i, q)) > 0 /\ Splice(o, i, q)[1] = o[1]
<1> DEFINE r == Splice(o, i, q)
<1>1. /\ r \in Seq(Nat) /\ Len(r) = Len(o) + Len(q)
      /\ \A m \in 1 .. Len(o) + Len(q) :
           r[m] = IF m <= i THEN o[m] ELSE IF m <= i + Len(q) THEN q[m - i] ELSE o[m - Len(q)]
  BY SpliceIs
<1> HIDE DEF r
<1>2. Len(o) \in Nat /\ Len(q) \in Nat /\ i \in Nat /\ i <= Len(o)
  OBVIOUS
<1>3. ASSUME NEW m \in 1 .. Len(r)
      PROVE \/ m \in 1 .. i /\ m \in 1 .. Len(o) /\ r[m] = o[m]
            \/ m > i /\ m <= i + Len(q) /\ m - i \in 1 .. Len(q) /\ r[m] = q[m - i]
            \/ m > i + Len(q) /\ m - Len(q) \in 1 .. Len(o) /\ m - Len(q) > i /\ r[m] = o[m - Len(q)]
  <2>1. r[m] = IF m <= i THEN o[m] ELSE IF m <= i + Len(q) THEN q[m - i] ELSE o[m - Len(q)]
    BY <1>1
  <2>2. CASE m <= i
    BY <1>1, <1>2, <2>1, <2>2
  <2>3. CASE ~(m <= i) /\ m <= i + Len(q)
    BY <1>1, <1>2, <2>1, <2>3
  <2>4. CASE ~(m <= i) /\ ~(m <= i + Len(q))
    <3>1. r[m] = o[m - Len(q)]
      BY <2>1, <2>4
    <3>2. m \in Nat /\ m <= Len(o) + Len(q)
      BY <1>1, <1>2
    <3>3. m > i + Len(q) /\ m - Len(q) \in 1 .. Len(o) /\ m - Len(q) > i
      BY <1>2, <2>4, <3>2
    <3> QED BY <3>1, <3>3
  <2> QED BY <2>2, <2>3, <2>4
<1>4. ASSUME NEW k PROVE Contains(r, k) <=> Contains(o, k) \/ Contains(q, k)
  <2>1. ASSUME Contains(r, k) PROVE Contains(o, k) \/ Contains(q, k)
    BY <1>3, <2>1 DEF Contains
  <2>2. ASSUME Contains(o, k) PROVE Contains(r, k)
    <3>1. PICK j \in 1 .. Len(o) : o[j] = k
      BY <2>2 DEF Contains
    <3>2. CASE j <= i
      <4>1. j \in 1 .. Len(r) /\ r[j] = o[j]
        BY <1>1, <1>2, <3>2
      <4> QED BY <3>1, <4>1 DEF Contains
    <3>3. CASE ~(j <= i)
      <4>1. j + Len(q) \in 1 .. Len(r) /\ (j + Len(q)) - Len(q) = j /\ ~(j + Len(q) <= i) /\ ~(j + Len(q) <= i + Len(q))
        BY <1>1, <1>2, <3>3
      <4>2. r[j + Len(q)] = o[j]
        BY <1>1, <4>1
      <4> QED BY <3>1, <4>1, <4>2 DEF Contains
    <3> QED BY <3>2, <3>3
  <2>3. ASSUME Contains(q, k) PROVE Contains(r, k)
    <3>1. PICK j \in 1 .. Len(q) : q[j] = k
      BY <2>3 DEF Contains
    <3>2. j + i \in 1 .. Len(r) /\ (j + i) - i = j /\ ~(j + i <= i) /\ j + i <= i + Len(q)
      BY <1>1, <1>2
    <3>3. r[j + i] = q[j]
      BY <1>1, <3>2
    <3> QED BY <3>1, <3>2, <3>3 DEF Contains
  <2> QED BY <2>1, <2>2, <2>3
<1>5. ASSUME Once(o), Once(q), \A k : ~(Contains(o, k) /\ Contains(q, k)) PROVE Once(r)
  <2> SUFFICES ASSUME NEW l \in 1 .. Len(r), NEW m \in 1 .. Len(r), r[l] = r[m] PROVE l = m
    BY DEF Once
  <2>1. \A x \in 1 .. Len(o), y \in 1 .. Len(q) : o[x] # q[y]
    BY <1>5 DEF Contains
  <2>2. \A x, y \in 1 .. Len(o) : o[x] = o[y] => x = y
    BY <1>5 DEF Once
  <2>3. \A x, y \in 1 .. Len(q) : q[x] = q[y] => x = y
    BY <1>5 DEF Once
  <2>4. CASE l > i /\ l <= i + Len(q)
    <3>1. l - i \in 1 .. Len(q) /\ r[l] = q[l - i]
      BY <1>1, <1>2, <2>4
    <3>2. m > i /\ m <= i + Len(q) /\ m - i \in 1 .. Len(q) /\ r[m] = q[m - i]
      BY <1>3, <2>1, <3>1
    <3>3. l - i = m - i
      BY <2>3, <3>1, <3>2
    <3> QED BY <1>1, <1>2, <3>3
  <2>5. CASE ~(l > i /\ l <= i + Len(q))
    <3>1. PICK x \in 1 .. Len(o) : r[l] = o[x] /\ ((x <= i /\ x = l) \/ (x > i /\ x = l - Len(q)))
      <4>1. \/ l \in 1 .. i /\ l \in 1 .. Len(o) /\ r[l] = o[l]
            \/ l > i + Len(q) /\ l - Len(q) \in 1 .. Len(o) /\ l - Len(q) > i /\ r[l] = o[l - Len(q)]
        BY <1>3, <2>5
      <4>2. CASE l \in 1 .. i /\ l \in 1 .. Len(o) /\ r[l] = o[l]
        <5>1. l <= i
          BY <4>2
        <5> QED BY <4>2, <5>1
      <4>3. CASE l > i + Len(q) /\ l - Len(q) \in 1 .. Len(o) /\ l - Len(q) > i /\ r[l] = o[l - Len(q)]
        BY <4>3
      <4> QED BY <4>1, <4>2, <4>3
    <3>2. PICK y \in 1 .. Len(o) : r[m] = o[y] /\ ((y <= i /\ y = m) \/ (y > i /\ y = m - Len(q)))
      <4>1. \/ m \in 1 .. i /\ m \in 1 .. Len(o) /\ r[m] = o[m]
            \/ m > i + Len(q) /\ m - Len(q) \in 1 .. Len(o) /\ m - Len(q) > i /\ r[m] = o[m - Len(q)]
        BY <1>3, <2>1, <2>5, <3>1
      <4>2. CASE m \in 1 .. i /\ m \in 1 .. Len(o) /\ r[m] = o[m]
        <5>1. m <= i
          BY <4>2
        <5> QED BY <4>2, <5>1
      <4>3. CASE m > i + Len(q) /\ m - Len(q) \in 1 .. Len(o) /\ m - Len(q) > i /\ r[m] = o[m - Len(q)]
        BY <4>3
      <4> QED BY <4>1, <4>2, <4>3
    <3>3. x = y
      BY <2>2, <3>1, <3>2
    <3>4. l \in Nat /\ m \in Nat /\ x \in Nat
      BY <1>1, <1>2
    <3>5. (x <= i /\ x = l) \/ (x > i /\ x = l - Len(q))
      BY <3>1
    <3>6. (x <= i /\ x = m) \/ (x > i /\ x = m - Len(q))
      BY <3>2, <3>3
    <3>7. CASE x <= i
      BY <3>5, <3>6, <3>7
    <3>8. CASE ~(x <= i)
      <4>1. x = l - Len(q) /\ x = m - Len(q)
        BY <3>5, <3>6, <3>8
      <4> QED BY <1>2, <3>4, <4>1
    <3> QED BY <3>7, <3>8
  <2> QED BY <2>4, <2>5
<1>6. i > 0 => Len(r) > 0 /\ r[1] = o[1]
  BY <1>1, <1>2
<1> QED BY <1>4, <1>5, <1>6 DEF r

\* What the position after a tile may be.
LEMMA AfterIs ==
  ASSUME NEW o \in Seq(Nat), NEW id
  PROVE  After(o, id) - 1 \in 0 .. Len(o) /\ After(o, id) \in Nat /\ (Len(o) > 0 => After(o, id) - 1 > 0)
<1>1. Len(o) \in Nat
  OBVIOUS
<1>2. CASE Contains(o, id)
  <2>1. PICK i \in 1 .. Len(o) : o[i] = id
    BY <1>2 DEF Contains
  <2>2. i + 1 \in 1 .. Len(o) + 1 /\ i + 1 > 1 /\ (i + 1) - 1 = i
    BY <1>1
  <2>3. \E j \in 1 .. Len(o) + 1 : j > 1 /\ o[j - 1] = id
    BY <2>1, <2>2
  <2>4. After(o, id) = CHOOSE j \in 1 .. Len(o) + 1 : j > 1 /\ o[j - 1] = id
    BY <1>2 DEF After
  <2>5. After(o, id) \in 1 .. Len(o) + 1 /\ After(o, id) > 1
    BY <2>3, <2>4
  <2> QED BY <1>1, <2>5
<1>3. CASE ~Contains(o, id)
  BY <1>1, <1>3 DEF After
<1> QED BY <1>2, <1>3

----------
(* What the functions on a document make of it.                            *)
LEMMA DocIs ==
  ASSUME NEW d \in DocSet
  PROVE  /\ d = [root |-> d.root, order |-> d.order, tiles |-> d.tiles]
         /\ d.root \in Nat /\ d.order \in Seq(Nat)
         /\ d.tiles \in [Ids(d) -> TileSet] /\ Ids(d) \subseteq Nat \ {0}
<1>1. /\ d = [root |-> d.root, order |-> d.order, tiles |-> d.tiles]
      /\ d.root \in Nat /\ d.order \in Seq(Nat) /\ d.tiles \in UNION {[S -> TileSet] : S \in SUBSET (Nat \ {0})}
  BY DEF DocSet
<1>2. PICK S \in SUBSET (Nat \ {0}) : d.tiles \in [S -> TileSet]
  BY <1>1
<1> QED BY <1>1, <1>2 DEF Ids

LEMMA DocMake ==
  ASSUME NEW root \in Nat, NEW order \in Seq(Nat), NEW S \in SUBSET (Nat \ {0}), NEW tiles \in [S -> TileSet]
  PROVE  [root |-> root, order |-> order, tiles |-> tiles] \in DocSet
BY DEF DocSet

LEMMA TileIs ==
  ASSUME NEW t \in TileSet
  PROVE  /\ t.type \in Kinds /\ t.parent \in Nat /\ t.node \in Nodes \union {None} /\ t.uid \in UIDs
         /\ t.at \in Nat /\ t.bound \in BOOLEAN
         /\ t = [type |-> t.type, parent |-> t.parent, node |-> t.node, uid |-> t.uid, at |-> t.at, bound |-> t.bound]
BY DEF TileSet

LEMMA UnderIs ==
  ASSUME NEW t \in TileSet, NEW p \in Nat
  PROVE  /\ [t EXCEPT !.parent = p] \in TileSet /\ [t EXCEPT !.parent = p].parent = p
         /\ [t EXCEPT !.parent = p].type = t.type /\ [t EXCEPT !.parent = p].node = t.node
         /\ [t EXCEPT !.parent = p].uid = t.uid /\ [t EXCEPT !.parent = p].at = t.at
         /\ [t EXCEPT !.parent = p].bound = t.bound
         /\ What([t EXCEPT !.parent = p]) = What(t)
BY DEF TileSet, What

\* That all tiles are in the root's subtree, said without the least set.
LEMMA ReachIs ==
  ASSUME NEW d, d.root \in Ids(d)
  PROVE  Subtree(d, d.root) = Ids(d) <=> Reach(d)
BY DEF Subtree, Reach

\* The order validate accepts has every tile once.
LEMMA ListedIs ==
  ASSUME NEW d \in DocSet, d.root \in Ids(d)
  PROVE  /\ Len(d.order) = Cardinality(Ids(d)) /\ ToSet(d.order) = Ids(d) /\ Head(d.order) = d.root
           <=> Listed(d)
<1> DEFINE o == d.order
           n == Len(o)
<1>1. o \in Seq(Nat) /\ n \in Nat /\ DOMAIN o = 1 .. n /\ o = [i \in 1 .. n |-> o[i]]
  <2>1. o \in Seq(Nat)
    BY DocIs
  <2> HIDE DEF o
  <2> QED BY <2>1
<1>2. ToSet(o) = Ids(d) <=> \A k : k \in Ids(d) <=> Contains(o, k)
  BY <1>1 DEF ToSet, Contains
<1>3. n > 0 => Head(o) = o[1]
  BY <1>1
<1>4. (\A k : k \in Ids(d) <=> Contains(o, k)) => n > 0
  BY <1>1 DEF Contains
<1>5. ASSUME \A k : k \in Ids(d) <=> Contains(o, k) PROVE n = Cardinality(Ids(d)) <=> Once(o)
  <2>1. \A i \in 1 .. n : o[i] \in Ids(d)
    BY <1>5 DEF Contains
  <2>2. o \in [1 .. n -> Ids(d)]
    BY <1>1, <2>1
  <2>3. \A k \in Ids(d) : \E i \in 1 .. n : o[i] = k
    BY <1>5 DEF Contains
  <2> HIDE DEF o, n
  <2>4. o \in Surjection(1 .. n, Ids(d))
    BY <2>2, <2>3 DEF Surjection
  <2>5. ASSUME Once(o) PROVE n = Cardinality(Ids(d))
    <3>1. o \in Injection(1 .. n, Ids(d))
      BY <2>2, <2>5 DEF Injection, Once, IsInjective, n
    <3>2. o \in Bijection(1 .. n, Ids(d))
      BY <2>4, <3>1 DEF Bijection
    <3>3. ExistsBijection(1 .. n, Ids(d))
      BY <3>2 DEF ExistsBijection
    <3> QED BY <1>1, <3>3, FS_CountingElements
  <2>6. ASSUME n = Cardinality(Ids(d)) PROVE Once(o)
    <3>1. IsFiniteSet(1 .. n) /\ Cardinality(1 .. n) = n
      <4>1. 1 \in Int /\ n \in Int
        BY <1>1
      <4>2. IsFiniteSet(1 .. n) /\ Cardinality(1 .. n) = IF 1 > n THEN 0 ELSE n - 1 + 1
        BY <4>1, FS_Interval
      <4> QED BY <1>1, <4>2
    <3>2. o \in Injection(1 .. n, Ids(d))
      BY <2>4, <2>6, <3>1, FS_SurjSameCardinalityImpliesInj
    <3> QED BY <3>2, <2>2 DEF Injection, IsInjective, Once, n
  <2> QED BY <2>5, <2>6
<1> QED BY <1>2, <1>3, <1>4, <1>5 DEF Listed

\* What validate accepts, in two parts.
LEMMA ValidIs ==
  ASSUME NEW d \in DocSet
  PROVE  IsValid(d) <=> Rooted(d) /\ Listed(d)
BY ListedIs, ReachIs DEF IsValid, Rooted

\* The tile a new one is opened by: the one asked for, or else the root.
Opener(d, opener) == IF opener \in Ids(d) /\ CanParent(d.tiles[opener]) THEN opener ELSE d.root

\* The document e is d with the tile t, opened by o, as id.
OpenedTo(d, o, id, t, e) ==
  /\ e \in DocSet /\ e.root = d.root /\ Ids(e) = Ids(d) \union {id}
  /\ \A k \in Ids(d) \ {id} : e.tiles[k] = d.tiles[k]
  /\ e.tiles[id] = [t EXCEPT !.parent = o]
  /\ o \in Nat
  /\ \E i \in 0 .. Len(d.order) : e.order = Splice(d.order, i, <<id>>) /\ (Len(d.order) > 0 => i > 0)

\* openTile adds one tile and changes no other.
LEMMA OpenTileIs ==
  ASSUME NEW d \in DocSet, NEW opener, NEW id \in Nat \ {0}, NEW t \in TileSet
  PROVE  OpenedTo(d, Opener(d, opener), id, t, OpenTile(d, opener, id, t))
<1> DEFINE o == Opener(d, opener)
           S == Ids(d) \union {id}
           f == [k \in S |-> IF k \in {id} THEN [t EXCEPT !.parent = o] ELSE d.tiles[k]]
           i == After(d.order, o) - 1
           s == Splice(d.order, i, <<id>>)
<1>1. /\ d = [root |-> d.root, order |-> d.order, tiles |-> d.tiles]
      /\ d.root \in Nat /\ d.order \in Seq(Nat) /\ d.tiles \in [Ids(d) -> TileSet] /\ Ids(d) \subseteq Nat \ {0}
  BY DocIs
<1>2. o \in Nat
  BY <1>1 DEF Opener
<1> HIDE DEF o
<1>3. i \in 0 .. Len(d.order) /\ (Len(d.order) > 0 => i > 0) /\ After(d.order, o) \in Nat
  BY <1>1, AfterIs
<1>4. [t EXCEPT !.parent = o] \in TileSet
  BY <1>2, UnderIs
<1>5. f \in [S -> TileSet] /\ S \in SUBSET (Nat \ {0})
  BY <1>1, <1>4
<1>6. InsertAt(d.order, After(d.order, o), id) = s
  <2>1. (After(d.order, o) - 1) + 1 = After(d.order, o)
    BY <1>3
  <2> QED BY <2>1 DEF InsertAt, Splice
<1>7. s \in Seq(Nat)
  <2> HIDE DEF i
  <2>1. <<id>> \in Seq(Nat)
    OBVIOUS
  <2> QED BY <1>1, <1>3, <2>1, SpliceIs
<1>8. OpenTile(d, opener, id, t) = [root |-> d.root, order |-> s, tiles |-> f]
  <2>1. OpenTile(d, opener, id, t) = [d EXCEPT !.order = InsertAt(d.order, After(d.order, o), id), !.tiles = f]
    BY DEF OpenTile, Add, o, Opener
  <2> HIDE DEF s, f
  <2> QED BY <1>1, <1>6, <2>1
<1> DEFINE e == OpenTile(d, opener, id, t)
<1>9. e.root = d.root /\ e.order = s /\ e.tiles = f
  <2> HIDE DEF s, f
  <2> QED BY <1>8
<1>10. e \in DocSet
  <2> HIDE DEF s, f, S, e
  <2>1. [root |-> d.root, order |-> s, tiles |-> f] \in DocSet
    BY <1>1, <1>5, <1>7, DocMake
  <2>2. e = [root |-> d.root, order |-> s, tiles |-> f]
    BY <1>8 DEF e
  <2> QED BY <2>1, <2>2
<1>11. Ids(e) = S
  BY <1>9 DEF Ids
<1>12. (\A k \in Ids(d) \ {id} : e.tiles[k] = d.tiles[k]) /\ e.tiles[id] = [t EXCEPT !.parent = o]
  <2> HIDE DEF e
  <2> QED BY <1>9
<1>13. \E j \in 0 .. Len(d.order) : e.order = Splice(d.order, j, <<id>>) /\ (Len(d.order) > 0 => j > 0)
  <2> HIDE DEF i, e
  <2> QED BY <1>3, <1>9
<1> HIDE DEF e, S, f, s, i
<1>14. \A k : k \in S <=> k \in Ids(d) \union {id}
  BY DEF S
<1> QED BY <1>2, <1>9, <1>10, <1>11, <1>12, <1>13, <1>14 DEF e, o, OpenedTo

\* What its callers need of openTile.
OpensTo(d, id, t, e) ==
  /\ e \in DocSet /\ Ids(e) = Ids(d) \union {id}
  /\ \A k \in Ids(d) \ {id} : e.tiles[k] = d.tiles[k]
  /\ Alike(e.tiles[id], t)

LEMMA OpenTileTyped ==
  ASSUME NEW d \in DocSet, NEW opener, NEW id \in Nat \ {0}, NEW t \in TileSet
  PROVE  OpensTo(d, id, t, OpenTile(d, opener, id, t))
<1> DEFINE e == OpenTile(d, opener, id, t)
           o == Opener(d, opener)
           u == [t EXCEPT !.parent = o]
<1>1. OpenedTo(d, o, id, t, e)
  BY OpenTileIs
<1> HIDE DEF e, o
<1>2. o \in Nat
  BY <1>1 DEF OpenedTo
<1>3. u \in TileSet /\ u.type = t.type /\ u.node = t.node /\ u.uid = t.uid /\ u.bound = t.bound /\ What(u) = What(t)
  BY <1>2, UnderIs
<1>4. e.tiles[id] = u
  BY <1>1 DEF OpenedTo
<1> HIDE DEF u
<1> QED BY <1>1, <1>3, <1>4 DEF Alike, OpenedTo, OpensTo, e

\* A document stays valid when a tile is opened.
LEMMA OpenTileValid ==
  ASSUME NEW d \in DocSet, IsValid(d), NEW opener, NEW id \in Nat \ {0}, id \notin Ids(d), NEW t \in TileSet
  PROVE  IsValid(OpenTile(d, opener, id, t))
<1> DEFINE e == OpenTile(d, opener, id, t)
           o == Opener(d, opener)
<1>1. /\ e \in DocSet /\ e.root = d.root /\ Ids(e) = Ids(d) \union {id}
      /\ \A k \in Ids(d) : e.tiles[k] = d.tiles[k]
      /\ e.tiles[id] = [t EXCEPT !.parent = o]
      /\ \E i \in 0 .. Len(d.order) : e.order = Splice(d.order, i, <<id>>) /\ (Len(d.order) > 0 => i > 0)
      /\ o \in Nat
  BY OpenTileIs DEF OpenedTo
<1> HIDE DEF e
<1>2. Rooted(d) /\ Listed(d) /\ d.order \in Seq(Nat)
  BY ValidIs, DocIs
<1>3. o \in Ids(d) /\ CanParent(d.tiles[o])
  BY <1>2 DEF Rooted, Opener, CanRoot, CanParent
<1> HIDE DEF o
<1>4. e.tiles[id].parent = o
  BY <1>1, UnderIs
<1>5. Rooted(e)
  <2>1. e.root \in Ids(e) /\ e.tiles[e.root].parent = None /\ CanRoot(e.tiles[e.root])
    BY <1>1, <1>2 DEF Rooted
  <2>2. ASSUME NEW k \in Ids(e) \ {e.root}
        PROVE e.tiles[k].parent \in Ids(e) /\ CanParent(e.tiles[e.tiles[k].parent])
    <3>1. CASE k = id
      BY <1>1, <1>3, <1>4, <3>1
    <3>2. CASE k \in Ids(d)
      <4>1. d.tiles[k].parent \in Ids(d) /\ CanParent(d.tiles[d.tiles[k].parent])
        BY <1>1, <1>2, <2>2, <3>2 DEF Rooted
      <4> QED BY <1>1, <3>2, <4>1
    <3> QED BY <1>1, <3>1, <3>2
  <2>3. ASSUME NEW S \in SUBSET Ids(e), e.root \in S, HasOpened(e, S) PROVE Ids(e) \subseteq S
    <3> DEFINE R == S \intersect Ids(d)
    <3>1. R \in SUBSET Ids(d) /\ d.root \in R
      BY <1>1, <1>2, <2>3 DEF Rooted
    <3>2. HasOpened(d, R)
      BY <1>1, <2>3 DEF HasOpened
    <3>3. Ids(d) \subseteq R
      BY <1>2, <3>1, <3>2 DEF Rooted, Reach
    <3>4. id \in S
      BY <1>1, <1>3, <1>4, <2>3, <3>3 DEF HasOpened
    <3> QED BY <1>1, <3>3, <3>4
  <2> QED BY <2>1, <2>2, <2>3 DEF Rooted, Reach
<1>6. Listed(e)
  <2>1. PICK i \in 0 .. Len(d.order) : e.order = Splice(d.order, i, <<id>>) /\ (Len(d.order) > 0 => i > 0)
    BY <1>1
  <2> DEFINE q == <<id>>
  <2>2. q \in Seq(Nat) /\ Once(q) /\ \A k : Contains(q, k) <=> k = id
    BY DEF Once, Contains
  <2>3. \A k : ~(Contains(d.order, k) /\ Contains(q, k))
    BY <1>2, <2>2 DEF Listed
  <2>4. e.order = Splice(d.order, i, q)
    BY <2>1
  <2> HIDE DEF q
  <2>5. Once(d.order) /\ Len(d.order) > 0 /\ d.order[1] = d.root /\ \A k : k \in Ids(d) <=> Contains(d.order, k)
    BY <1>2 DEF Listed
  <2>6. /\ \A k : Contains(e.order, k) <=> Contains(d.order, k) \/ Contains(q, k)
        /\ Once(e.order) /\ Len(e.order) > 0 /\ e.order[1] = d.order[1]
    BY <1>2, <2>1, <2>2, <2>3, <2>4, <2>5, SpliceHas
  <2> QED BY <1>1, <2>2, <2>5, <2>6 DEF Listed
<1> QED BY <1>1, <1>5, <1>6, ValidIs DEF e

----------
(* Tiles that go, or go elsewhere.                                         *)
LEMMA DropHas ==
  ASSUME NEW s \in Seq(Nat), NEW gone
  PROVE  /\ Drop(s, gone) \in Seq(Nat)
         /\ \A k : Contains(Drop(s, gone), k) <=> Contains(s, k) /\ k \notin gone
         /\ Once(s) => Once(Drop(s, gone))
         /\ Len(s) > 0 /\ s[1] \notin gone => Len(Drop(s, gone)) > 0 /\ Drop(s, gone)[1] = s[1]
<1>1. Once(s) => Once(Drop(s, gone))
  BY DropOnce
<1>2. \A k : Contains(Drop(s, gone), k) <=> Contains(s, k) /\ k \notin gone
  <2> SUFFICES ASSUME NEW k PROVE Contains(Drop(s, gone), k) <=> Contains(s, k) /\ k \notin gone
    OBVIOUS
  <2> DEFINE D == Drop(s, gone)
  <2>3. DropsTo(Nat, s, gone, D)
    BY DropTo
  <2> HIDE DEF D
  <2>1. /\ \A m \in 1 .. Len(D) : \E i \in 1 .. Len(s) : D[m] = s[i] /\ s[i] \notin gone
        /\ \A i \in 1 .. Len(s) : s[i] \notin gone => \E m \in 1 .. Len(D) : D[m] = s[i]
    BY <2>3 DEF DropsTo
  <2>2. Contains(D, k) <=> Contains(s, k) /\ k \notin gone
    BY <2>1 DEF Contains
  <2> QED BY <2>2 DEF D
<1> QED BY <1>1, <1>2, DropRest

\* What is left when tiles are dropped.
LEMMA KeepIs ==
  ASSUME NEW d \in DocSet, NEW ids \in SUBSET Ids(d)
  PROVE  LET e == Keep(d, ids) IN
         /\ e \in DocSet /\ e.root = d.root /\ Ids(e) = ids
         /\ \A k \in ids : e.tiles[k] = d.tiles[k]
         /\ Listed(d) /\ d.root \in ids => Listed(e)
<1> DEFINE s == Drop(d.order, Ids(d) \ ids)
           f == [k \in ids |-> d.tiles[k]]
           e == Keep(d, ids)
<1>1. /\ d = [root |-> d.root, order |-> d.order, tiles |-> d.tiles]
      /\ d.root \in Nat /\ d.order \in Seq(Nat) /\ d.tiles \in [Ids(d) -> TileSet] /\ Ids(d) \subseteq Nat \ {0}
  BY DocIs
<1>2. s \in Seq(Nat)
  BY <1>1, DropHas
<1>3. f \in [ids -> TileSet] /\ ids \in SUBSET (Nat \ {0})
  BY <1>1
<1>4. e = [root |-> d.root, order |-> s, tiles |-> f]
  <2>1. e = [d EXCEPT !.order = s, !.tiles = f]
    BY DEF Keep
  <2> HIDE DEF s, f, e
  <2> QED BY <1>1, <2>1
<1>5. e.root = d.root /\ e.order = s /\ e.tiles = f
  <2> HIDE DEF s, f, e
  <2> QED BY <1>4
<1>6. e \in DocSet
  <2> HIDE DEF s, f, e
  <2>1. [root |-> d.root, order |-> s, tiles |-> f] \in DocSet
    BY <1>1, <1>2, <1>3, DocMake
  <2> QED BY <1>4, <2>1
<1>7. Ids(e) = ids
  BY <1>5 DEF Ids
<1>8. \A k \in ids : e.tiles[k] = d.tiles[k]
  <2> HIDE DEF e
  <2> QED BY <1>5
<1>9. ASSUME Listed(d), d.root \in ids PROVE Listed(e)
  <2>1. /\ \A k : Contains(s, k) <=> Contains(d.order, k) /\ k \notin Ids(d) \ ids
        /\ Once(d.order) => Once(s)
        /\ Len(d.order) > 0 /\ d.order[1] \notin Ids(d) \ ids => Len(s) > 0 /\ s[1] = d.order[1]
    BY <1>1, DropHas
  <2> HIDE DEF s, e
  <2> QED BY <1>5, <1>7, <1>9, <2>1 DEF Listed
<1> QED BY <1>5, <1>6, <1>7, <1>8, <1>9 DEF e

LEMMA NotOwnParent ==
  ASSUME NEW d \in DocSet, Rooted(d), NEW id \in Ids(d) \ {d.root}
  PROVE  d.tiles[id].parent # id
<1> SUFFICES ASSUME d.tiles[id].parent = id PROVE FALSE
  OBVIOUS
<1> DEFINE S == Ids(d) \ {id}
<1>1. S \in SUBSET Ids(d) /\ d.root \in S /\ HasOpened(d, S)
  BY DEF Rooted, HasOpened
<1> QED BY <1>1 DEF Rooted, Reach

\* removeTile drops one tile; what it opened goes to its own opener.
LEMMA RemoveTileIs ==
  ASSUME NEW d \in DocSet, NEW id \in Ids(d)
  PROVE  LET e == RemoveTile(d, id) IN
         /\ e \in DocSet /\ e.root = d.root /\ Ids(e) = Ids(d) \ {id}
         /\ \A k \in Ids(d) \ {id} :
              e.tiles[k] = IF d.tiles[k].parent = id THEN [d.tiles[k] EXCEPT !.parent = d.tiles[id].parent]
                                                     ELSE d.tiles[k]
         /\ Listed(d) /\ d.root # id => Listed(e)
<1> DEFINE f == [k \in Ids(d) |-> IF d.tiles[k].parent = id THEN [d.tiles[k] EXCEPT !.parent = d.tiles[id].parent]
                                                            ELSE d.tiles[k]]
           up == [d EXCEPT !.tiles = f]
           e == RemoveTile(d, id)
<1>1. /\ d = [root |-> d.root, order |-> d.order, tiles |-> d.tiles]
      /\ d.root \in Nat /\ d.order \in Seq(Nat) /\ d.tiles \in [Ids(d) -> TileSet] /\ Ids(d) \subseteq Nat \ {0}
  BY DocIs
<1>2. f \in [Ids(d) -> TileSet]
  <2>1. d.tiles[id].parent \in Nat
    BY <1>1, TileIs
  <2>2. \A k \in Ids(d) : [d.tiles[k] EXCEPT !.parent = d.tiles[id].parent] \in TileSet
    BY <1>1, <2>1, UnderIs
  <2> QED BY <1>1, <2>2
<1>3. up = [root |-> d.root, order |-> d.order, tiles |-> f]
  <2> HIDE DEF f
  <2> QED BY <1>1
<1>4. up \in DocSet /\ up.root = d.root /\ up.order = d.order /\ up.tiles = f /\ Ids(up) = Ids(d)
  <2>1. up \in DocSet
    <3> HIDE DEF f, up
    <3> QED BY <1>1, <1>2, <1>3, DocMake
  <2>2. up.root = d.root /\ up.order = d.order /\ up.tiles = f
    <3> HIDE DEF f, up
    <3> QED BY <1>3
  <2>3. Ids(up) = DOMAIN f
    <3> HIDE DEF f, up
    <3> QED BY <2>2 DEF Ids
  <2> QED BY <2>1, <2>2, <2>3
<1>5. e = Keep(up, Ids(d) \ {id})
  BY DEF RemoveTile
<1> HIDE DEF up, e
<1>6. /\ e \in DocSet /\ e.root = d.root /\ Ids(e) = Ids(d) \ {id}
      /\ \A k \in Ids(d) \ {id} : e.tiles[k] = f[k]
      /\ Listed(up) /\ d.root # id /\ d.root \in Ids(d) => Listed(e)
  <2> HIDE DEF f
  <2> QED BY <1>4, <1>5, KeepIs
<1>7. Listed(d) => Listed(up) /\ d.root \in Ids(d)
  <2>1. Listed(d) => Len(d.order) > 0 /\ d.order[1] = d.root /\ Len(d.order) \in Nat
    BY <1>1 DEF Listed
  <2> QED BY <1>4, <2>1 DEF Listed, Contains
<1> QED BY <1>6, <1>7 DEF e

\* A document stays valid when a tile but the root is removed.
LEMMA RemoveTileValid ==
  ASSUME NEW d \in DocSet, IsValid(d), NEW id \in Ids(d) \ {d.root}
  PROVE  IsValid(RemoveTile(d, id))
<1> DEFINE e == RemoveTile(d, id)
           up == d.tiles[id].parent
<1>2. Rooted(d) /\ Listed(d) /\ d.tiles \in [Ids(d) -> TileSet]
  BY ValidIs, DocIs
<1>1. /\ e \in DocSet /\ e.root = d.root /\ Ids(e) = Ids(d) \ {id}
      /\ \A k \in Ids(d) \ {id} :
              e.tiles[k] = IF d.tiles[k].parent = id THEN [d.tiles[k] EXCEPT !.parent = up] ELSE d.tiles[k]
      /\ Listed(e)
  BY <1>2, RemoveTileIs
<1> HIDE DEF e
<1>3. up \in Ids(d) \ {id} /\ CanParent(d.tiles[up]) /\ up \in Nat
  BY <1>2, NotOwnParent, TileIs DEF Rooted
<1>4. ASSUME NEW k \in Ids(d) \ {id}
      PROVE /\ e.tiles[k].type = d.tiles[k].type
            /\ e.tiles[k].parent = IF d.tiles[k].parent = id THEN up ELSE d.tiles[k].parent
  <2>1. d.tiles[k] \in TileSet
    BY <1>2
  <2>2. [d.tiles[k] EXCEPT !.parent = up].type = d.tiles[k].type /\ [d.tiles[k] EXCEPT !.parent = up].parent = up
    BY <2>1, <1>3, UnderIs
  <2> HIDE DEF up
  <2> QED BY <1>1, <2>2
<1> HIDE DEF up
<1>5. Rooted(e)
  <2>0. d.root \in Ids(d) \ {id} /\ d.tiles[d.root].parent # id
    BY <1>2, DocIs DEF Rooted, None
  <2>1. e.root \in Ids(e) /\ e.tiles[e.root].parent = None /\ CanRoot(e.tiles[e.root])
    BY <1>1, <1>2, <1>4, <2>0 DEF Rooted, CanRoot
  <2>2. ASSUME NEW k \in Ids(e) \ {e.root}
        PROVE e.tiles[k].parent \in Ids(e) /\ CanParent(e.tiles[e.tiles[k].parent])
    <3>1. d.tiles[k].parent \in Ids(d) /\ CanParent(d.tiles[d.tiles[k].parent])
      BY <1>1, <1>2, <2>2 DEF Rooted
    <3>2. e.tiles[k].parent \in Ids(d) \ {id} /\ CanParent(d.tiles[e.tiles[k].parent])
      BY <1>1, <1>3, <1>4, <2>2, <3>1
    <3> QED BY <1>1, <1>4, <3>2 DEF CanParent
  <2>3. ASSUME NEW S \in SUBSET Ids(e), e.root \in S, HasOpened(e, S) PROVE Ids(e) \subseteq S
    <3> DEFINE R == S \union {k \in {id} : up \in S}
    <3>1. R \in SUBSET Ids(d) /\ d.root \in R
      BY <1>1, <2>3
    <3>2. HasOpened(d, R)
      <4> SUFFICES ASSUME NEW c \in Ids(d), d.tiles[c].parent \in R PROVE c \in R
        BY DEF HasOpened
      <4>1. CASE c = id
        <5>1. up \in S
          BY <1>3, <4>1 DEF up
        <5> QED BY <4>1, <5>1
      <4>2. CASE c # id
        <5>1. e.tiles[c].parent \in S
          BY <1>1, <1>4, <4>2
        <5> QED BY <1>1, <2>3, <4>2, <5>1 DEF HasOpened
      <4> QED BY <4>1, <4>2
    <3>3. Ids(d) \subseteq R
      <4> HIDE DEF R
      <4> QED BY <1>2, <3>1, <3>2 DEF Rooted, Reach
    <3> QED BY <1>1, <3>3
  <2> QED BY <2>1, <2>2, <2>3 DEF Rooted, Reach
<1> QED BY <1>1, <1>5, ValidIs DEF e

\* Validity does not depend on what the tiles show.
LEMMA ShapeValid ==
  ASSUME NEW d \in DocSet, NEW e \in DocSet, SameShape(d, e), IsValid(d)
  PROVE  IsValid(e)
<1>1. Rooted(d) /\ Listed(d)
  BY ValidIs
<1>2. Listed(e)
  BY <1>1 DEF Listed, SameShape
<1>3. Reach(e)
  <2>1. \A S \in SUBSET Ids(e) : HasOpened(e, S) => HasOpened(d, S)
    BY DEF SameShape, HasOpened
  <2> QED BY <1>1, <2>1 DEF SameShape, Reach, Rooted
<1>4. Rooted(e)
  BY <1>1, <1>3 DEF SameShape, Rooted, CanRoot, CanParent
<1> QED BY <1>2, <1>4, ValidIs

\* The subtree of a tile is the least set that has it and all that its members opened.
LEMMA SubtreeIs ==
  ASSUME NEW d, NEW id \in Ids(d)
  PROVE  /\ Subtree(d, id) \subseteq Ids(d) /\ id \in Subtree(d, id)
         /\ HasOpened(d, Subtree(d, id))
         /\ \A S \in SUBSET Ids(d) : id \in S /\ HasOpened(d, S) => Subtree(d, id) \subseteq S
         /\ \A c \in Subtree(d, id) \ {id} : d.tiles[c].parent \in Subtree(d, id)
<1> DEFINE G == Subtree(d, id)
<1>1. G \subseteq Ids(d) /\ id \in G
  BY DEF Subtree
<1>2. \A S \in SUBSET Ids(d) : id \in S /\ HasOpened(d, S) => G \subseteq S
  BY DEF Subtree
<1>3. HasOpened(d, G)
  BY DEF Subtree, HasOpened
<1> HIDE DEF G
<1>4. ASSUME NEW c \in G \ {id} PROVE d.tiles[c].parent \in G
  <2> SUFFICES ASSUME d.tiles[c].parent \notin G PROVE FALSE
    OBVIOUS
  <2> DEFINE S == G \ {c}
  <2>1. S \in SUBSET Ids(d) /\ id \in S /\ HasOpened(d, S)
    BY <1>1, <1>3 DEF HasOpened
  <2> QED BY <1>2, <2>1
<1> QED BY <1>1, <1>2, <1>3, <1>4 DEF G

\* A tree has no circles: its root, and the opener of a tile, are outside the subtree of it.
LEMMA SubtreeAside ==
  ASSUME NEW d \in DocSet, Rooted(d), NEW id \in Ids(d)
  PROVE  /\ id # d.root => d.root \notin Subtree(d, id)
         /\ d.tiles[id].parent \notin Subtree(d, id)
<1> DEFINE G == Subtree(d, id)
<1>0. Ids(d) \subseteq Nat \ {0}
  BY DocIs
<1>1. /\ G \subseteq Ids(d) /\ id \in G /\ HasOpened(d, G)
      /\ \A S \in SUBSET Ids(d) : id \in S /\ HasOpened(d, S) => G \subseteq S
      /\ \A c \in G \ {id} : d.tiles[c].parent \in G
  BY SubtreeIs
<1> HIDE DEF G
<1>2. ASSUME id # d.root PROVE d.root \notin G
  <2> DEFINE S == Ids(d) \ {d.root}
  <2>1. S \in SUBSET Ids(d) /\ id \in S /\ HasOpened(d, S)
    BY <1>0, <1>2 DEF HasOpened, Rooted, None
  <2> QED BY <1>1, <2>1
<1>3. d.tiles[id].parent \notin G
  <2>1. CASE id = d.root
    BY <1>0, <1>1, <2>1 DEF Rooted, None
  <2>2. CASE id # d.root
    <3> SUFFICES ASSUME d.tiles[id].parent \in G PROVE FALSE
      OBVIOUS
    <3> DEFINE S == Ids(d) \ G
    <3>1. S \in SUBSET Ids(d) /\ d.root \in S /\ HasOpened(d, S)
      BY <1>1, <1>2, <2>2 DEF HasOpened, Rooted
    <3> QED BY <1>1, <3>1 DEF Rooted, Reach
  <2> QED BY <2>1, <2>2
<1> QED BY <1>2, <1>3 DEF G

\* What is left on a board when a tile and all it opened is taken away.
LEMMA TakeOpenedIs ==
  ASSUME NEW d \in DocSet, NEW id \in Ids(d) \ {d.root}, IsValid(d)
  PROVE  LET e == TakeOpened(d, id) IN
         /\ e \in DocSet /\ IsValid(e) /\ Ids(e) = Ids(d) \ Subtree(d, id)
         /\ \A k \in Ids(e) : e.tiles[k] = d.tiles[k]
<1> DEFINE G == Subtree(d, id)
           e == TakeOpened(d, id)
<1>1. G \subseteq Ids(d) /\ id \in G /\ HasOpened(d, G)
  BY SubtreeIs
<1>2. Rooted(d) /\ Listed(d) /\ d.root \notin G
  BY ValidIs, SubtreeAside
<1>3. e = Keep(d, Ids(d) \ G)
  BY DEF TakeOpened
<1> HIDE DEF G, e
<1>4. /\ e \in DocSet /\ e.root = d.root /\ Ids(e) = Ids(d) \ G
      /\ \A k \in Ids(d) \ G : e.tiles[k] = d.tiles[k]
      /\ Listed(e)
  BY <1>2, <1>3, KeepIs DEF Rooted
<1>5. Rooted(e)
  <2>1. e.root \in Ids(e) /\ e.tiles[e.root].parent = None /\ CanRoot(e.tiles[e.root])
    BY <1>2, <1>4 DEF Rooted
  <2>2. ASSUME NEW k \in Ids(e) \ {e.root}
        PROVE e.tiles[k].parent \in Ids(e) /\ CanParent(e.tiles[e.tiles[k].parent])
    <3>1. d.tiles[k].parent \in Ids(d) /\ CanParent(d.tiles[d.tiles[k].parent]) /\ e.tiles[k] = d.tiles[k]
      BY <1>2, <1>4, <2>2 DEF Rooted
    <3>2. d.tiles[k].parent \notin G
      BY <1>1, <1>4 DEF HasOpened
    <3> QED BY <1>4, <3>1, <3>2
  <2>3. ASSUME NEW S \in SUBSET Ids(e), e.root \in S, HasOpened(e, S) PROVE Ids(e) \subseteq S
    <3> DEFINE R == S \union G
    <3>1. R \in SUBSET Ids(d) /\ d.root \in R
      BY <1>1, <1>4, <2>3
    <3>2. HasOpened(d, R)
      BY <1>1, <1>4, <2>3 DEF HasOpened
    <3>3. Ids(d) \subseteq R
      <4> HIDE DEF R
      <4> QED BY <1>2, <3>1, <3>2 DEF Rooted, Reach
    <3> QED BY <1>4, <3>3
  <2> QED BY <2>1, <2>2, <2>3 DEF Rooted, Reach
<1>6. IsValid(e)
  BY <1>4, <1>5, ValidIs
<1> QED BY <1>4, <1>6 DEF e, G

\* The taken tiles are a document of their own, with the tile as its root.
LEMMA DetachedIs ==
  ASSUME NEW d \in DocSet, NEW id \in Ids(d) \ {d.root}, IsValid(d), CanRoot(d.tiles[id])
  PROVE  LET e == Detached(d, id) IN
         /\ e \in DocSet /\ IsValid(e) /\ Ids(e) = Subtree(d, id)
         /\ \A k \in Ids(e) : Alike(e.tiles[k], d.tiles[k])
<1> DEFINE G == Subtree(d, id)
           e == Detached(d, id)
           f == [k \in G |-> IF k = id THEN [d.tiles[k] EXCEPT !.parent = None] ELSE d.tiles[k]]
           r == Drop(d.order, (Ids(d) \ G) \union {id})
           s == <<id>> \o r
<1>0. d.order \in Seq(Nat) /\ d.tiles \in [Ids(d) -> TileSet] /\ Ids(d) \subseteq Nat \ {0} /\ id \in Nat
  BY DocIs
<1>1. /\ G \subseteq Ids(d) /\ id \in G /\ HasOpened(d, G)
      /\ \A S \in SUBSET Ids(d) : id \in S /\ HasOpened(d, S) => G \subseteq S
      /\ \A c \in G \ {id} : d.tiles[c].parent \in G
  BY SubtreeIs
<1>2. Rooted(d) /\ Listed(d)
  BY ValidIs
<1>3. e = [root |-> id, order |-> s, tiles |-> f]
  BY DEF Detached
<1> HIDE DEF e, G
<1>4. r \in Seq(Nat) /\ Once(r) /\ \A k : Contains(r, k) <=> k \in G \ {id}
  <2>1. \A k : k \in Ids(d) <=> Contains(d.order, k)
    BY <1>2 DEF Listed
  <2>2. Once(d.order)
    BY <1>2 DEF Listed
  <2>3. /\ r \in Seq(Nat) /\ Once(r)
        /\ \A k : Contains(r, k) <=> Contains(d.order, k) /\ k \notin (Ids(d) \ G) \union {id}
    BY <1>0, <2>2, DropHas
  <2> HIDE DEF r
  <2> QED BY <1>1, <2>1, <2>3
<1> HIDE DEF r
<1>5. s \in Seq(Nat) /\ Len(s) > 0 /\ s[1] = id /\ Once(s) /\ \A k : Contains(s, k) <=> k \in G
  <2>1. /\ s \in Seq(Nat) /\ Len(s) = 1 + Len(r) /\ Len(r) \in Nat /\ s[1] = id
        /\ \A m \in 1 .. Len(r) : s[m + 1] = r[m]
    BY <1>0, <1>4
  <2> HIDE DEF s
  <2>2. \A m \in 1 .. Len(s) : m = 1 \/ (m - 1 \in 1 .. Len(r) /\ s[m] = r[m - 1])
    <3> SUFFICES ASSUME NEW m \in 1 .. Len(s), m # 1 PROVE m - 1 \in 1 .. Len(r) /\ s[m] = r[m - 1]
      OBVIOUS
    <3>1. m - 1 \in 1 .. Len(r) /\ (m - 1) + 1 = m
      BY <2>1
    <3> QED BY <2>1, <3>1
  <2>3. \A m \in 1 .. Len(r) : r[m] # id
    BY <1>4 DEF Contains
  <2>4. Once(s)
    <3> SUFFICES ASSUME NEW l \in 1 .. Len(s), NEW m \in 1 .. Len(s), s[l] = s[m] PROVE l = m
      BY DEF Once
    <3>1. CASE l = 1 \/ m = 1
      BY <2>1, <2>2, <2>3, <3>1
    <3>2. CASE l # 1 /\ m # 1
      <4>1. l - 1 \in 1 .. Len(r) /\ m - 1 \in 1 .. Len(r) /\ r[l - 1] = r[m - 1]
        BY <2>2, <3>2
      <4>2. l - 1 = m - 1
        BY <1>4, <4>1 DEF Once
      <4> QED BY <2>1, <4>2
    <3> QED BY <3>1, <3>2
  <2>5. ASSUME NEW k PROVE Contains(s, k) <=> k \in G
    <3>1. ASSUME Contains(s, k) PROVE k \in G
      <4>1. PICK m \in 1 .. Len(s) : s[m] = k
        BY <3>1 DEF Contains
      <4>2. CASE m = 1
        BY <1>1, <2>1, <4>1, <4>2
      <4>3. CASE m # 1
        <5>1. m - 1 \in 1 .. Len(r) /\ r[m - 1] = k
          BY <2>2, <4>1, <4>3
        <5>2. Contains(r, k)
          BY <5>1 DEF Contains
        <5> QED BY <1>4, <5>2
      <4> QED BY <4>2, <4>3
    <3>2. ASSUME k \in G PROVE Contains(s, k)
      <4>1. CASE k = id
        <5>1. 1 \in 1 .. Len(s)
          BY <2>1
        <5> QED BY <2>1, <4>1, <5>1 DEF Contains
      <4>2. CASE k # id
        <5>1. PICK m \in 1 .. Len(r) : r[m] = k
          BY <1>4, <3>2, <4>2 DEF Contains
        <5>2. m + 1 \in 1 .. Len(s) /\ s[m + 1] = k
          BY <2>1, <5>1
        <5> QED BY <5>2 DEF Contains
      <4> QED BY <4>1, <4>2
    <3> QED BY <3>1, <3>2
  <2> QED BY <2>1, <2>4, <2>5
<1> HIDE DEF s
<1>6. ASSUME NEW k \in G
      PROVE /\ f[k] \in TileSet /\ Alike(f[k], d.tiles[k])
            /\ f[k].parent = IF k = id THEN None ELSE d.tiles[k].parent
  <2>1. d.tiles[k] \in TileSet
    BY <1>0, <1>1
  <2>2. None \in Nat
    BY DEF None
  <2>3. f[k] = IF k = id THEN [d.tiles[k] EXCEPT !.parent = None] ELSE d.tiles[k]
    OBVIOUS
  <2> HIDE DEF f
  <2>4. CASE k = id
    BY <2>1, <2>2, <2>3, <2>4, UnderIs DEF Alike
  <2>5. CASE k # id
    BY <2>1, <2>3, <2>5 DEF Alike
  <2> QED BY <2>4, <2>5
<1>7. f \in [G -> TileSet] /\ G \in SUBSET (Nat \ {0})
  BY <1>0, <1>1, <1>6
<1>8. e \in DocSet
  <2> HIDE DEF f
  <2>1. [root |-> id, order |-> s, tiles |-> f] \in DocSet
    BY <1>0, <1>5, <1>7, DocMake
  <2> QED BY <1>3, <2>1
<1>9. e.root = id /\ e.order = s /\ e.tiles = f /\ Ids(e) = G
  <2>1. e.root = id /\ e.order = s /\ e.tiles = f
    <3> HIDE DEF f
    <3> QED BY <1>3
  <2>2. DOMAIN f = G
    OBVIOUS
  <2> HIDE DEF f
  <2> QED BY <2>1, <2>2 DEF Ids
<1> HIDE DEF f
<1>10. \A k \in G : e.tiles[k].type = d.tiles[k].type /\ e.tiles[k].parent = IF k = id THEN None ELSE d.tiles[k].parent
  BY <1>6, <1>9 DEF Alike
<1>11. Rooted(e)
  <2>1. e.root \in Ids(e) /\ e.tiles[e.root].parent = None /\ CanRoot(e.tiles[e.root])
    BY <1>1, <1>9, <1>10 DEF CanRoot
  <2>2. ASSUME NEW k \in Ids(e) \ {e.root}
        PROVE e.tiles[k].parent \in Ids(e) /\ CanParent(e.tiles[e.tiles[k].parent])
    <3>1. k \in G \ {id} /\ d.tiles[k].parent \in G /\ k # d.root
      BY <1>1, <1>2, <1>9, <2>2, SubtreeAside DEF G
    <3>2. CanParent(d.tiles[d.tiles[k].parent])
      BY <1>1, <1>2, <3>1 DEF Rooted
    <3> QED BY <1>9, <1>10, <3>1, <3>2 DEF CanParent
  <2>3. ASSUME NEW S \in SUBSET Ids(e), e.root \in S, HasOpened(e, S) PROVE Ids(e) \subseteq S
    <3>1. S \in SUBSET Ids(d) /\ id \in S
      BY <1>1, <1>9, <2>3
    <3>2. HasOpened(d, S)
      <4> SUFFICES ASSUME NEW c \in Ids(d), d.tiles[c].parent \in S PROVE c \in S
        BY DEF HasOpened
      <4>1. c \in G
        BY <1>1, <1>9 DEF HasOpened
      <4> QED BY <1>9, <1>10, <2>3, <3>1, <4>1 DEF HasOpened
    <3> QED BY <1>1, <1>9, <3>1, <3>2
  <2> QED BY <2>1, <2>2, <2>3 DEF Rooted, Reach
<1>12. Listed(e)
  BY <1>5, <1>9 DEF Listed
<1>13. IsValid(e)
  BY <1>8, <1>11, <1>12, ValidIs
<1>14. \A k \in G : Alike(e.tiles[k], d.tiles[k])
  BY <1>6, <1>9
<1> QED BY <1>8, <1>9, <1>13, <1>14 DEF e, G

\* The document d with the tiles f over S put into its order.
Added(d, order, S, f) ==
  [d EXCEPT !.order = order, !.tiles = [k \in Ids(d) \union S |-> IF k \in S THEN f[k] ELSE d.tiles[k]]]

LEMMA AddIs ==
  ASSUME NEW d \in DocSet, NEW order \in Seq(Nat), NEW S \in SUBSET (Nat \ {0}), NEW f \in [S -> TileSet]
  PROVE  LET e == Added(d, order, S, f)
         IN /\ e \in DocSet /\ e.root = d.root /\ e.order = order /\ Ids(e) = Ids(d) \union S
            /\ \A k \in Ids(d) \ S : e.tiles[k] = d.tiles[k]
            /\ \A k \in S : e.tiles[k] = f[k]
<1> DEFINE R == Ids(d) \union S
           g == [k \in R |-> IF k \in S THEN f[k] ELSE d.tiles[k]]
           e == Added(d, order, S, f)
<1>1. /\ d = [root |-> d.root, order |-> d.order, tiles |-> d.tiles]
      /\ d.root \in Nat /\ d.order \in Seq(Nat) /\ d.tiles \in [Ids(d) -> TileSet] /\ Ids(d) \subseteq Nat \ {0}
  BY DocIs
<1>2. g \in [R -> TileSet] /\ R \in SUBSET (Nat \ {0})
  BY <1>1
<1>3. e = [root |-> d.root, order |-> order, tiles |-> g]
  <2>1. e = [d EXCEPT !.order = order, !.tiles = g]
    BY DEF Added
  <2> HIDE DEF g, e
  <2> QED BY <1>1, <2>1
<1>4. e.root = d.root /\ e.order = order /\ e.tiles = g
  <2> HIDE DEF g, e
  <2> QED BY <1>3
<1>5. e \in DocSet
  <2> HIDE DEF g, R, e
  <2>1. [root |-> d.root, order |-> order, tiles |-> g] \in DocSet
    BY <1>1, <1>2, DocMake
  <2> QED BY <1>3, <2>1
<1>6. Ids(e) = R
  <2> HIDE DEF e
  <2> QED BY <1>4 DEF Ids
<1>7. (\A k \in Ids(d) \ S : e.tiles[k] = d.tiles[k]) /\ (\A k \in S : e.tiles[k] = f[k])
  <2> HIDE DEF e
  <2> QED BY <1>4
<1> HIDE DEF e, g
<1> QED BY <1>4, <1>5, <1>6, <1>7 DEF e

\* A group of tiles put on a board, below tiles it has.
LEMMA AttachValid ==
  ASSUME NEW d \in DocSet, IsValid(d), NEW e \in DocSet, NEW S, S \intersect Ids(d) = {},
         e.root = d.root, Ids(e) = Ids(d) \union S,
         \A k \in Ids(d) : e.tiles[k] = d.tiles[k],
         \A k \in S : e.tiles[k].parent \in Ids(e) /\ CanParent(e.tiles[e.tiles[k].parent]),
         \A T \in SUBSET Ids(e) : Ids(d) \subseteq T /\ HasOpened(e, T) => S \subseteq T,
         NEW i \in 0 .. Len(d.order), Len(d.order) > 0 => i > 0,
         NEW q \in Seq(Nat), Once(q), \A k : Contains(q, k) <=> k \in S,
         e.order = Splice(d.order, i, q)
  PROVE  IsValid(e)
<1>1. Rooted(d) /\ Listed(d) /\ d.order \in Seq(Nat)
  BY ValidIs, DocIs
<1>2. Rooted(e)
  <2>1. e.root \in Ids(e) /\ e.tiles[e.root].parent = None /\ CanRoot(e.tiles[e.root])
    BY <1>1 DEF Rooted
  <2>2. ASSUME NEW k \in Ids(e) \ {e.root}
        PROVE e.tiles[k].parent \in Ids(e) /\ CanParent(e.tiles[e.tiles[k].parent])
    <3>1. CASE k \in S
      BY <3>1
    <3>2. CASE k \in Ids(d)
      BY <1>1, <2>2, <3>2 DEF Rooted
    <3> QED BY <3>1, <3>2
  <2>3. ASSUME NEW T \in SUBSET Ids(e), e.root \in T, HasOpened(e, T) PROVE Ids(e) \subseteq T
    <3> DEFINE R == T \intersect Ids(d)
    <3>1. R \in SUBSET Ids(d) /\ d.root \in R
      BY <1>1, <2>3 DEF Rooted
    <3>2. HasOpened(d, R)
      BY <2>3 DEF HasOpened
    <3>3. Ids(d) \subseteq R
      BY <1>1, <3>1, <3>2 DEF Rooted, Reach
    <3> QED BY <2>3, <3>3
  <2> QED BY <2>1, <2>2, <2>3 DEF Rooted, Reach
<1>3. Listed(e)
  <2>1. Once(d.order) /\ Len(d.order) > 0 /\ d.order[1] = d.root /\ \A k : k \in Ids(d) <=> Contains(d.order, k)
    BY <1>1 DEF Listed
  <2>2. \A k : ~(Contains(d.order, k) /\ Contains(q, k))
    BY <2>1
  <2>3. /\ \A k : Contains(e.order, k) <=> Contains(d.order, k) \/ Contains(q, k)
        /\ Once(e.order) /\ Len(e.order) > 0 /\ e.order[1] = d.order[1]
    BY <1>1, <2>1, <2>2, SpliceHas
  <2> QED BY <2>1, <2>3 DEF Listed
<1> QED BY <1>2, <1>3, ValidIs

\* place in the order: the same tiles, in another one.
LEMMA PlaceAfterIs ==
  ASSUME NEW d, d.order \in Seq(Nat), NEW after, NEW q \in Seq(Nat)
  PROVE  \E i \in 0 .. Len(d.order) : PlaceAfter(d, after, q) = Splice(d.order, i, q) /\ (Len(d.order) > 0 => i > 0)
<1> DEFINE a == IF after = None THEN d.root ELSE after
           i == After(d.order, a) - 1
<1>1. i \in 0 .. Len(d.order) /\ (Len(d.order) > 0 => i > 0)
  <2> HIDE DEF a
  <2> QED BY AfterIs
<1>2. PlaceAfter(d, after, q) = Splice(d.order, i, q)
  BY DEF PlaceAfter, Splice
<1> HIDE DEF i
<1> QED BY <1>1, <1>2

\* moveAfter reorders and no more.
LEMMA MoveAfterIs ==
  ASSUME NEW d \in DocSet, IsValid(d), NEW id \in Ids(d) \ {d.root}, NEW after
  PROVE  LET e == MoveAfter(d, id, after) IN
         /\ e \in DocSet /\ IsValid(e) /\ Ids(e) = Ids(d) /\ e.root = d.root
         /\ \A k \in Ids(d) : e.tiles[k] = d.tiles[k]
<1> DEFINE r == Drop(d.order, {id})
           rest == [d EXCEPT !.order = r]
           s == PlaceAfter(rest, after, <<id>>)
           e == MoveAfter(d, id, after)
<1>1. /\ d = [root |-> d.root, order |-> d.order, tiles |-> d.tiles]
      /\ d.root \in Nat /\ d.order \in Seq(Nat) /\ d.tiles \in [Ids(d) -> TileSet] /\ Ids(d) \subseteq Nat \ {0}
  BY DocIs
<1>2. Rooted(d) /\ Once(d.order) /\ Len(d.order) > 0 /\ d.order[1] = d.root /\ \A k : k \in Ids(d) <=> Contains(d.order, k)
  BY ValidIs DEF Listed
<1>3. /\ r \in Seq(Nat) /\ Once(r) /\ Len(r) > 0 /\ r[1] = d.root
      /\ \A k : Contains(r, k) <=> Contains(d.order, k) /\ k # id
  <2>1. /\ r \in Seq(Nat) /\ Once(r)
        /\ \A k : Contains(r, k) <=> Contains(d.order, k) /\ k \notin {id}
        /\ d.order[1] \notin {id} => Len(r) > 0 /\ r[1] = d.order[1]
    BY <1>1, <1>2, DropHas
  <2> HIDE DEF r
  <2> QED BY <1>2, <2>1
<1>4. rest.order = r
  <2> HIDE DEF r
  <2> QED BY <1>1
<1>5. e = [d EXCEPT !.order = s]
  BY DEF MoveAfter
<1> HIDE DEF rest
<1> DEFINE q == <<id>>
<1>6. q \in Seq(Nat) /\ Once(q) /\ \A k : Contains(q, k) <=> k = id
  BY <1>1 DEF Once, Contains
<1>7. s = PlaceAfter(rest, after, q)
  OBVIOUS
<1> HIDE DEF q, s, r, e
<1>8. PICK i \in 0 .. Len(r) : s = Splice(r, i, q) /\ i > 0
  BY <1>3, <1>4, <1>6, <1>7, PlaceAfterIs
<1>9. /\ s \in Seq(Nat) /\ Once(s) /\ Len(s) > 0 /\ s[1] = r[1]
      /\ \A k : Contains(s, k) <=> Contains(r, k) \/ Contains(q, k)
  <2>1. \A k : ~(Contains(r, k) /\ Contains(q, k))
    BY <1>3, <1>6
  <2> QED BY <1>3, <1>6, <1>8, <2>1, SpliceIs, SpliceHas
<1>10. e = [root |-> d.root, order |-> s, tiles |-> d.tiles]
  BY <1>1, <1>5
<1>11. e \in DocSet
  <2>1. [root |-> d.root, order |-> s, tiles |-> d.tiles] \in DocSet
    BY <1>1, <1>9, DocMake
  <2> QED BY <1>10, <2>1
<1>12. e.root = d.root /\ e.order = s /\ e.tiles = d.tiles /\ Ids(e) = Ids(d)
  BY <1>10 DEF Ids
<1>13. Rooted(e)
  <2>1. \A S : HasOpened(e, S) <=> HasOpened(d, S)
    BY <1>12 DEF HasOpened
  <2> QED BY <1>2, <1>12, <2>1 DEF Rooted, Reach
<1>14. Listed(e)
  BY <1>2, <1>3, <1>6, <1>9, <1>12 DEF Listed
<1> QED BY <1>11, <1>12, <1>13, <1>14, ValidIs DEF e

\* What is taken from one board and put on another makes a valid document there.
LEMMA PutOpenedIs ==
  ASSUME NEW d \in DocSet, IsValid(d), NEW from \in DocSet, IsValid(from), NEW id \in Ids(from), NEW after,
         Subtree(from, id) \intersect Ids(d) = {}
  PROVE  LET e == PutOpened(d, after, from, id) IN
         /\ e \in DocSet /\ IsValid(e) /\ Ids(e) = Ids(d) \union Subtree(from, id)
         /\ \A k \in Ids(d) : e.tiles[k] = d.tiles[k]
         /\ \A k \in Subtree(from, id) : Alike(e.tiles[k], from.tiles[k])
<1> DEFINE G == Subtree(from, id)
           root(t) == IF t.parent \in G THEN t ELSE [t EXCEPT !.parent = d.root]
           f == [k \in G |-> root(from.tiles[k])]
           q == Drop(from.order, Ids(from) \ G)
           s == PlaceAfter(d, after, q)
           e == PutOpened(d, after, from, id)
<1>1. /\ d.root \in Nat /\ d.order \in Seq(Nat) /\ Ids(d) \subseteq Nat \ {0}
      /\ from.order \in Seq(Nat) /\ from.tiles \in [Ids(from) -> TileSet] /\ Ids(from) \subseteq Nat \ {0}
  BY DocIs
<1>2. Rooted(d) /\ Rooted(from) /\ Listed(d) /\ Listed(from)
  BY ValidIs
<1>3. /\ G \subseteq Ids(from) /\ id \in G /\ HasOpened(from, G)
      /\ \A S \in SUBSET Ids(from) : id \in S /\ HasOpened(from, S) => G \subseteq S
      /\ \A c \in G \ {id} : from.tiles[c].parent \in G
      /\ from.tiles[id].parent \notin G
  BY <1>2, SubtreeIs, SubtreeAside
<1>4. q \in Seq(Nat) /\ Once(q) /\ \A k : Contains(q, k) <=> k \in G
  <2>1. \A k : k \in Ids(from) <=> Contains(from.order, k)
    BY <1>2 DEF Listed
  <2>2. Once(from.order)
    BY <1>2 DEF Listed
  <2>3. /\ q \in Seq(Nat) /\ Once(q)
        /\ \A k : Contains(q, k) <=> Contains(from.order, k) /\ k \notin Ids(from) \ G
    BY <1>1, <2>2, DropHas
  <2> HIDE DEF q
  <2> QED BY <1>3, <2>1, <2>3
<1>5. e = [d EXCEPT !.order = s, !.tiles = [k \in Ids(d) \union G |-> IF k \in G THEN root(from.tiles[k]) ELSE d.tiles[k]]]
  BY DEF PutOpened, Add
<1>6. ASSUME NEW k \in G
      PROVE /\ f[k] = root(from.tiles[k]) /\ f[k] \in TileSet /\ Alike(f[k], from.tiles[k])
            /\ f[k].parent = IF k = id THEN d.root ELSE from.tiles[k].parent
  <2>1. from.tiles[k] \in TileSet
    BY <1>1, <1>3
  <2>2. f[k] = IF k = id THEN [from.tiles[k] EXCEPT !.parent = d.root] ELSE from.tiles[k]
    BY <1>3
  <2>3. f[k] = root(from.tiles[k])
    OBVIOUS
  <2> HIDE DEF f, root, G
  <2>4. CASE k = id
    BY <1>1, <2>1, <2>2, <2>3, <2>4, UnderIs DEF Alike
  <2>5. CASE k # id
    BY <2>1, <2>2, <2>3, <2>5 DEF Alike
  <2> QED BY <2>4, <2>5
<1>7. f \in [G -> TileSet] /\ G \in SUBSET (Nat \ {0})
  <2>1. \A k \in G : f[k] \in TileSet
    BY <1>6
  <2> QED BY <1>1, <1>3, <2>1
<1>8. e = [d EXCEPT !.order = s, !.tiles = [k \in Ids(d) \union G |-> IF k \in G THEN f[k] ELSE d.tiles[k]]]
  BY <1>5
<1> HIDE DEF e, f, root, q, G
<1>9. PICK i \in 0 .. Len(d.order) : s = Splice(d.order, i, q) /\ (Len(d.order) > 0 => i > 0)
  BY <1>1, <1>4, PlaceAfterIs
<1> HIDE DEF s
<1>10. s \in Seq(Nat)
  BY <1>1, <1>4, <1>9, SpliceIs
<1>11. /\ e \in DocSet /\ e.root = d.root /\ e.order = s /\ Ids(e) = Ids(d) \union G
       /\ \A k \in Ids(d) \ G : e.tiles[k] = d.tiles[k]
       /\ \A k \in G : e.tiles[k] = f[k]
  <2> DEFINE x == Added(d, s, G, f)
  <2>1. /\ x \in DocSet /\ x.root = d.root /\ x.order = s /\ Ids(x) = Ids(d) \union G
        /\ \A k \in Ids(d) \ G : x.tiles[k] = d.tiles[k]
        /\ \A k \in G : x.tiles[k] = f[k]
    <3> HIDE DEF x
    <3>1. \A S \in SUBSET (Nat \ {0}) : \A g \in [S -> TileSet] :
            LET y == Added(d, s, S, g)
            IN /\ y \in DocSet /\ y.root = d.root /\ y.order = s /\ Ids(y) = Ids(d) \union S
               /\ \A k \in Ids(d) \ S : y.tiles[k] = d.tiles[k]
               /\ \A k \in S : y.tiles[k] = g[k]
      BY <1>10, AddIs
    <3> QED BY <1>7, <3>1 DEF x
  <2>2. e = x
    BY <1>8 DEF Added
  <2> HIDE DEF x
  <2> QED BY <2>1, <2>2
<1>12. G \intersect Ids(d) = {}
  BY DEF G
<1>13. ASSUME NEW k \in G PROVE e.tiles[k].parent \in Ids(e) /\ CanParent(e.tiles[e.tiles[k].parent])
  <2>1. CASE k = id
    BY <1>2, <1>6, <1>11, <1>12, <2>1 DEF Rooted, CanRoot, CanParent
  <2>2. CASE k # id
    <3>1. from.tiles[k].parent \in G /\ e.tiles[k].parent = from.tiles[k].parent
      BY <1>3, <1>6, <1>11, <2>2
    <3>2. k # from.root
      BY <1>1, <1>2, <1>3, <3>1 DEF Rooted, None
    <3>3. CanParent(from.tiles[from.tiles[k].parent])
      BY <1>2, <1>3, <3>2 DEF Rooted
    <3> QED BY <1>6, <1>11, <3>1, <3>3 DEF CanParent, Alike
  <2> QED BY <2>1, <2>2
<1>14. ASSUME NEW T \in SUBSET Ids(e), Ids(d) \subseteq T, HasOpened(e, T) PROVE G \subseteq T
  <2> DEFINE R == T \intersect G
  <2>1. id \in R
    BY <1>2, <1>3, <1>6, <1>11, <1>14 DEF HasOpened, Rooted
  <2>2. HasOpened(from, R)
    <3> SUFFICES ASSUME NEW c \in Ids(from), from.tiles[c].parent \in R PROVE c \in R
      BY DEF HasOpened
    <3>1. c \in G
      BY <1>3 DEF HasOpened
    <3>2. c # id
      BY <1>3
    <3> QED BY <1>6, <1>11, <1>14, <3>1, <3>2 DEF HasOpened
  <2> QED BY <1>3, <2>1, <2>2
<1>15. IsValid(e)
  BY <1>4, <1>9, <1>11, <1>12, <1>13, <1>14, AttachValid
<1> QED BY <1>6, <1>11, <1>12, <1>15 DEF e, G

\* The document with other tiles under the same ids.
Retiled(d, f) == [d EXCEPT !.tiles = f]

LEMMA RetiledIs ==
  ASSUME NEW d \in DocSet, NEW f \in [Ids(d) -> TileSet]
  PROVE  LET e == Retiled(d, f) IN
         /\ e \in DocSet /\ e.root = d.root /\ e.order = d.order /\ Ids(e) = Ids(d)
         /\ \A k \in Ids(d) : e.tiles[k] = f[k]
<1> DEFINE e == Retiled(d, f)
<1>1. /\ d = [root |-> d.root, order |-> d.order, tiles |-> d.tiles]
      /\ d.root \in Nat /\ d.order \in Seq(Nat) /\ d.tiles \in [Ids(d) -> TileSet] /\ Ids(d) \subseteq Nat \ {0}
  BY DocIs
<1>2. e = [root |-> d.root, order |-> d.order, tiles |-> f]
  <2>1. e = [d EXCEPT !.tiles = f]
    BY DEF Retiled
  <2> HIDE DEF e
  <2> QED BY <1>1, <2>1
<1> HIDE DEF e
<1>3. e \in DocSet
  <2>1. [root |-> d.root, order |-> d.order, tiles |-> f] \in DocSet
    BY <1>1, DocMake
  <2> QED BY <1>2, <2>1
<1>4. e.root = d.root /\ e.order = d.order /\ e.tiles = f
  BY <1>2
<1>5. Ids(e) = Ids(d)
  BY <1>4 DEF Ids
<1> QED BY <1>3, <1>4, <1>5 DEF e

LEMMA WhatIs == \A t, u : t.type = u.type /\ (t.type # "folder" => t.uid = u.uid) => What(t) = What(u)
BY DEF What

\* The types a board writes.
LEMMA UidsAre == None \in UIDs /\ Nat \subseteq UIDs /\ -1 \in UIDs /\ None \in Nat /\ None \in Nodes \union {None}
BY DEF UIDs, None

\* marshal changes nothing but the uid of folders that have none.
LEMMA MarshalIs ==
  ASSUME NEW d \in DocSet, NEW now \in Nat
  PROVE  LET e == Marshal(d, now) IN
         /\ e \in DocSet /\ SameShape(d, e)
         /\ \A k \in Ids(d) :
              /\ What(e.tiles[k]) = What(d.tiles[k]) /\ e.tiles[k].type = d.tiles[k].type
              /\ e.tiles[k].node = d.tiles[k].node /\ e.tiles[k].bound = d.tiles[k].bound
              /\ e.tiles[k].uid = IF d.tiles[k].type = "folder" /\ d.tiles[k].uid = None THEN k ELSE d.tiles[k].uid
<1> DEFINE g(k) == [d.tiles[k] EXCEPT !.uid = IF @ = None THEN k ELSE @, !.at = IF @ = None THEN now ELSE @]
           f == [k \in Ids(d) |-> IF d.tiles[k].type = "folder" THEN g(k) ELSE d.tiles[k]]
           e == Marshal(d, now)
<1>1. d.tiles \in [Ids(d) -> TileSet] /\ Ids(d) \subseteq Nat \ {0}
  BY DocIs
<1>2. ASSUME NEW k \in Ids(d)
      PROVE /\ f[k] \in TileSet /\ f[k].type = d.tiles[k].type /\ f[k].parent = d.tiles[k].parent
            /\ f[k].node = d.tiles[k].node /\ f[k].bound = d.tiles[k].bound
            /\ f[k].uid = IF d.tiles[k].type = "folder" /\ d.tiles[k].uid = None THEN k ELSE d.tiles[k].uid
  <2> DEFINE t == d.tiles[k]
             u == IF t.uid = None THEN k ELSE t.uid
             a == IF t.at = None THEN now ELSE t.at
  <2>1. t \in TileSet
    BY <1>1
  <2>2. u \in UIDs /\ a \in Nat
    BY <1>1, <2>1, TileIs, UidsAre
  <2>3. f[k] = IF t.type = "folder" THEN [t EXCEPT !.uid = u, !.at = a] ELSE t
    OBVIOUS
  <2> HIDE DEF f, u, a, t
  <2>4. CASE t.type = "folder"
    <3> DEFINE x == [t EXCEPT !.uid = u, !.at = a]
    <3>1. x \in TileSet /\ x.type = t.type /\ x.parent = t.parent /\ x.node = t.node /\ x.uid = u /\ x.bound = t.bound
      BY <2>1, <2>2 DEF TileSet
    <3>2. f[k] = x
      BY <2>3, <2>4
    <3> HIDE DEF x
    <3> QED BY <2>4, <3>1, <3>2 DEF t, u
  <2>5. CASE t.type # "folder"
    BY <2>1, <2>3, <2>5 DEF t
  <2> QED BY <2>4, <2>5
<1>3. f \in [Ids(d) -> TileSet]
  <2>1. \A k \in Ids(d) : f[k] \in TileSet
    BY <1>2
  <2> QED BY <2>1
<1>4. e = Retiled(d, f)
  BY DEF Marshal, Retiled
<1> HIDE DEF f, e
<1>5. /\ e \in DocSet /\ e.root = d.root /\ e.order = d.order /\ Ids(e) = Ids(d)
      /\ \A k \in Ids(d) : e.tiles[k] = f[k]
  BY <1>3, <1>4, RetiledIs
<1>6. SameShape(d, e)
  BY <1>2, <1>5 DEF SameShape
<1>7. \A k \in Ids(d) : What(e.tiles[k]) = What(d.tiles[k])
  BY <1>2, <1>5, WhatIs
<1> QED BY <1>2, <1>5, <1>6, <1>7 DEF e

\* keepMeta: what a browser sent keeps the meta the board has.
LEMMA KeepMetaIs ==
  ASSUME NEW d \in DocSet, NEW stored \in DocSet
  PROVE  LET e == KeepFolderMeta(d, stored) IN
         /\ e \in DocSet /\ SameShape(d, e)
         /\ \A k \in Ids(d) :
              /\ What(e.tiles[k]) = What(d.tiles[k]) /\ e.tiles[k].type = d.tiles[k].type
              /\ e.tiles[k].node = d.tiles[k].node
              /\ d.tiles[k].type # "folder" => e.tiles[k].uid = d.tiles[k].uid /\ ~e.tiles[k].bound
              /\ d.tiles[k].type = "folder" =>
                   IF k \in OfType(stored, "folder")
                   THEN /\ e.tiles[k].uid = stored.tiles[k].uid
                        /\ e.tiles[k].bound => stored.tiles[k].bound /\ stored.tiles[k].node = d.tiles[k].node
                   ELSE e.tiles[k].uid = None /\ ~e.tiles[k].bound
<1> DEFINE meta(k, t) ==
        IF t.type # "folder" THEN [t EXCEPT !.at = None, !.bound = FALSE]
        ELSE IF k \notin OfType(stored, "folder")
        THEN [t EXCEPT !.uid = None, !.at = None, !.bound = FALSE]
        ELSE LET s == stored.tiles[k]
                 same == s.node = t.node
             IN [t EXCEPT !.uid = s.uid, !.at = IF same THEN s.at ELSE None,
                          !.bound = same /\ s.bound]
<1> DEFINE f == [k \in Ids(d) |-> meta(k, d.tiles[k])]
           e == KeepFolderMeta(d, stored)
<1>1. /\ d.tiles \in [Ids(d) -> TileSet] /\ Ids(d) \subseteq Nat \ {0}
      /\ stored.tiles \in [Ids(stored) -> TileSet]
  BY DocIs
<1>2. ASSUME NEW k \in Ids(d)
      PROVE /\ f[k] \in TileSet /\ f[k].type = d.tiles[k].type /\ f[k].parent = d.tiles[k].parent
            /\ f[k].node = d.tiles[k].node
            /\ d.tiles[k].type # "folder" => f[k].uid = d.tiles[k].uid /\ ~f[k].bound
            /\ d.tiles[k].type = "folder" =>
                   IF k \in OfType(stored, "folder")
                   THEN /\ f[k].uid = stored.tiles[k].uid
                        /\ f[k].bound => stored.tiles[k].bound /\ stored.tiles[k].node = d.tiles[k].node
                   ELSE f[k].uid = None /\ ~f[k].bound
  <2> DEFINE t == d.tiles[k]
             s == stored.tiles[k]
             a == IF s.node = t.node THEN s.at ELSE None
             b == s.node = t.node /\ s.bound
  <2>1. t \in TileSet
    BY <1>1
  <2>2. f[k] = meta(k, t)
    OBVIOUS
  <2>3. CASE t.type # "folder"
    <3> DEFINE x == [t EXCEPT !.at = None, !.bound = FALSE]
    <3>0. None \in Nat /\ FALSE \in BOOLEAN /\ None \in UIDs /\ None \in Nodes \union {None}
      BY UidsAre
    <3>1. x \in TileSet /\ x.type = t.type /\ x.parent = t.parent /\ x.node = t.node /\ x.uid = t.uid /\ x.bound = FALSE
      <4> HIDE DEF t, f, meta
      <4> QED BY <2>1, <3>0 DEF TileSet
    <3>2. f[k] = x
      BY <2>2, <2>3
    <3> HIDE DEF x, f, meta
    <3> QED BY <2>3, <3>1, <3>2
  <2>4. CASE t.type = "folder" /\ k \notin OfType(stored, "folder")
    <3> DEFINE x == [t EXCEPT !.uid = None, !.at = None, !.bound = FALSE]
    <3>0. None \in Nat /\ FALSE \in BOOLEAN /\ None \in UIDs /\ None \in Nodes \union {None}
      BY UidsAre
    <3>1. x \in TileSet /\ x.type = t.type /\ x.parent = t.parent /\ x.node = t.node /\ x.uid = None /\ x.bound = FALSE
      <4> HIDE DEF t, f, meta
      <4> QED BY <2>1, <3>0 DEF TileSet
    <3>2. f[k] = x
      BY <2>2, <2>4
    <3> HIDE DEF x, f, meta
    <3> QED BY <2>4, <3>1, <3>2
  <2>5. CASE t.type = "folder" /\ k \in OfType(stored, "folder")
    <3> DEFINE x == [t EXCEPT !.uid = s.uid, !.at = a, !.bound = b]
    <3>0. s \in TileSet
      BY <1>1, <2>5 DEF OfType
    <3>00. s.uid \in UIDs /\ a \in Nat /\ b \in BOOLEAN /\ None \in Nodes \union {None}
      <4>1. s.uid \in UIDs /\ s.at \in Nat /\ s.bound \in BOOLEAN
        <5> HIDE DEF s, t, f, meta
        <5> QED BY <3>0, TileIs
      <4> QED BY <4>1, UidsAre
    <3>1. x \in TileSet /\ x.type = t.type /\ x.parent = t.parent /\ x.node = t.node /\ x.uid = s.uid /\ x.bound = b
      <4> HIDE DEF t, f, meta, s, a, b
      <4> QED BY <2>1, <3>00 DEF TileSet
    <3>2. f[k] = x
      BY <2>2, <2>5
    <3> HIDE DEF x, f, meta
    <3> QED BY <2>5, <3>1, <3>2
  <2> QED BY <2>3, <2>4, <2>5
<1>3. f \in [Ids(d) -> TileSet]
  <2>1. \A k \in Ids(d) : f[k] \in TileSet
    BY <1>2
  <2> QED BY <2>1
<1>4. e = Retiled(d, f)
  BY DEF KeepFolderMeta, Retiled
<1> HIDE DEF f, e, meta
<1>5. /\ e \in DocSet /\ e.root = d.root /\ e.order = d.order /\ Ids(e) = Ids(d)
      /\ \A k \in Ids(d) : e.tiles[k] = f[k]
  BY <1>3, <1>4, RetiledIs
<1>6. SameShape(d, e)
  BY <1>2, <1>5 DEF SameShape
<1>7. \A k \in Ids(d) : What(e.tiles[k]) = What(d.tiles[k])
  BY <1>2, <1>5, WhatIs
<1> QED BY <1>2, <1>5, <1>6, <1>7 DEF e

\* The tiles exec, attach and openVideoTile make are typed.
LEMMA NewTileIs ==
  ASSUME NEW type \in Kinds, NEW node \in Nodes \union {None}, NEW uid \in UIDs
  PROVE  LET t == Tile(type, node, uid) IN
         /\ t \in TileSet /\ t.type = type /\ t.node = node /\ t.uid = uid /\ t.bound = FALSE
         /\ What(t) = <<type, IF type \in {"terminal", "viewer"} THEN uid ELSE None>>
<1>1. None \in Nat
  BY DEF None
<1>2. /\ Tile(type, node, uid) \in TileSet /\ Tile(type, node, uid).type = type /\ Tile(type, node, uid).node = node
      /\ Tile(type, node, uid).uid = uid /\ Tile(type, node, uid).bound = FALSE
  BY <1>1 DEF Tile, TileSet
<1> QED BY <1>2 DEF What

\* The folder tile id shows another node; its pin is gone.
Goes(d, id, node) == [d EXCEPT !.tiles[id] = IF @.node = node THEN @ ELSE [@ EXCEPT !.node = node, !.bound = FALSE]]

LEMMA GoIs ==
  ASSUME NEW d \in DocSet, NEW id \in OfType(d, "folder"), NEW node \in Nodes \union {None}
  PROVE  LET e == Goes(d, id, node) IN
         /\ e \in DocSet /\ SameShape(d, e)
         /\ \A k \in Ids(d) : What(e.tiles[k]) = What(d.tiles[k])
<1> DEFINE t == d.tiles[id]
           u == IF t.node = node THEN t ELSE [t EXCEPT !.node = node, !.bound = FALSE]
           f == [d.tiles EXCEPT ![id] = u]
           e == Goes(d, id, node)
<1>1. d.tiles \in [Ids(d) -> TileSet] /\ id \in Ids(d) /\ t.type = "folder"
  BY DocIs DEF OfType
<1>2. t \in TileSet
  BY <1>1
<1>3. u \in TileSet /\ u.type = t.type /\ u.parent = t.parent /\ What(u) = What(t)
  <2>1. u \in TileSet /\ u.type = t.type /\ u.parent = t.parent
    <3> DEFINE x == [t EXCEPT !.node = node, !.bound = FALSE]
    <3>1. x \in TileSet /\ x.type = t.type /\ x.parent = t.parent
      <4> HIDE DEF t
      <4> QED BY <1>2 DEF TileSet
    <3> HIDE DEF x
    <3> QED BY <1>2, <3>1 DEF x
  <2> HIDE DEF u, t
  <2> QED BY <1>1, <2>1, WhatIs
<1>4. f \in [Ids(d) -> TileSet] /\ \A k \in Ids(d) : f[k] = IF k = id THEN u ELSE d.tiles[k]
  <2> HIDE DEF u
  <2> QED BY <1>1, <1>3
<1>5. e = Retiled(d, f)
  BY DEF Goes, Retiled
<1> HIDE DEF f, e, u
<1>6. /\ e \in DocSet /\ e.root = d.root /\ e.order = d.order /\ Ids(e) = Ids(d)
      /\ \A k \in Ids(d) : e.tiles[k] = f[k]
  BY <1>4, <1>5, RetiledIs
<1> QED BY <1>3, <1>4, <1>6 DEF SameShape, e

\* The document d of board b once the pin of node is on the tile id of board g.
Pin(d, b, g, id, node) ==
  [d EXCEPT !.tiles = [k \in DOMAIN @ |-> IF SameNode(@[k], node) THEN [@[k] EXCEPT !.bound = <<b, k>> = <<g, id>>] ELSE @[k]]]

LEMMA PinIs ==
  ASSUME NEW d \in DocSet, NEW b, NEW g, NEW id, NEW node
  PROVE  LET e == Pin(d, b, g, id, node) IN
         /\ e \in DocSet /\ SameShape(d, e)
         /\ \A k \in Ids(d) :
              /\ What(e.tiles[k]) = What(d.tiles[k]) /\ e.tiles[k].type = d.tiles[k].type
              /\ e.tiles[k].node = d.tiles[k].node /\ e.tiles[k].uid = d.tiles[k].uid
              /\ e.tiles[k].bound = IF d.tiles[k].type = "folder" /\ d.tiles[k].node = node THEN b = g /\ k = id ELSE d.tiles[k].bound
<1> DEFINE f == [k \in Ids(d) |-> IF SameNode(d.tiles[k], node) THEN [d.tiles[k] EXCEPT !.bound = <<b, k>> = <<g, id>>] ELSE d.tiles[k]]
           e == Pin(d, b, g, id, node)
<1>1. d.tiles \in [Ids(d) -> TileSet]
  BY DocIs
<1>2. ASSUME NEW k \in Ids(d)
      PROVE /\ f[k] \in TileSet /\ f[k].type = d.tiles[k].type /\ f[k].parent = d.tiles[k].parent
            /\ f[k].node = d.tiles[k].node /\ f[k].uid = d.tiles[k].uid
            /\ f[k].bound = IF d.tiles[k].type = "folder" /\ d.tiles[k].node = node THEN b = g /\ k = id ELSE d.tiles[k].bound
  <2> DEFINE t == d.tiles[k]
             p == <<b, k>> = <<g, id>>
  <2>1. t \in TileSet
    BY <1>1
  <2>2. p \in BOOLEAN /\ (p = (b = g /\ k = id))
    OBVIOUS
  <2>3. f[k] = IF t.type = "folder" /\ t.node = node THEN [t EXCEPT !.bound = p] ELSE t
    BY DEF SameNode
  <2> HIDE DEF f, p, t
  <2>4. CASE t.type = "folder" /\ t.node = node
    <3> DEFINE x == [t EXCEPT !.bound = p]
    <3>1. x \in TileSet /\ x.type = t.type /\ x.parent = t.parent /\ x.node = t.node /\ x.uid = t.uid /\ x.bound = p
      BY <2>1, <2>2 DEF TileSet
    <3>2. f[k] = x
      BY <2>3, <2>4
    <3> HIDE DEF x
    <3> QED BY <2>2, <2>4, <3>1, <3>2 DEF t
  <2>5. CASE ~(t.type = "folder" /\ t.node = node)
    BY <2>1, <2>3, <2>5 DEF t
  <2> QED BY <2>4, <2>5
<1>3. f \in [Ids(d) -> TileSet]
  <2>1. \A k \in Ids(d) : f[k] \in TileSet
    BY <1>2
  <2> QED BY <2>1
<1>4. e = Retiled(d, f)
  BY DEF Pin, Retiled, Ids
<1> HIDE DEF f, e
<1>5. /\ e \in DocSet /\ e.root = d.root /\ e.order = d.order /\ Ids(e) = Ids(d)
      /\ \A k \in Ids(d) : e.tiles[k] = f[k]
  BY <1>3, <1>4, RetiledIs
<1>6. SameShape(d, e)
  BY <1>2, <1>5 DEF SameShape
<1>7. \A k \in Ids(d) : What(e.tiles[k]) = What(d.tiles[k])
  BY <1>2, <1>5, WhatIs
<1> QED BY <1>2, <1>5, <1>6, <1>7 DEF e

\* The tiles adoptOrphans makes.
Adopted(d, n, q) ==
  LET ids == [i \in DOMAIN q |-> n + i]
      tile(k) == [Tile("terminal", None, q[k - n]) EXCEPT !.parent = d.root]
  IN Add(d, PlaceAfter(d, None, Reverse(ids)), ToSet(ids), tile)

LEMMA AdoptedIs ==
  ASSUME NEW d \in DocSet, IsValid(d), NEW n \in Nat, \A k \in Ids(d) : k < n, NEW q \in Seq(UIDs)
  PROVE  LET e == Adopted(d, n, q) IN
         /\ e \in DocSet /\ IsValid(e) /\ Ids(e) = Ids(d) \union {n + i : i \in 1 .. Len(q)}
         /\ \A k \in Ids(d) : e.tiles[k] = d.tiles[k]
         /\ \A i \in 1 .. Len(q) : /\ What(e.tiles[n + i]) = <<"terminal", q[i]>>
                                   /\ e.tiles[n + i].type = "terminal"
                                   /\ e.tiles[n + i].uid = q[i] /\ ~e.tiles[n + i].bound
<1> DEFINE ids == [i \in DOMAIN q |-> n + i]
           r == Reverse(ids)
           s == PlaceAfter(d, None, r)
           S == {n + i : i \in 1 .. Len(q)}
           f == [k \in S |-> [Tile("terminal", None, q[k - n]) EXCEPT !.parent = d.root]]
           e == Adopted(d, n, q)
<1>1. /\ d.root \in Nat /\ d.order \in Seq(Nat) /\ Ids(d) \subseteq Nat \ {0}
      /\ Len(q) \in Nat /\ DOMAIN q = 1 .. Len(q) /\ \A i \in 1 .. Len(q) : q[i] \in UIDs
  BY DocIs
<1>2. Rooted(d) /\ Listed(d)
  BY ValidIs
<1>3. ids \in Seq(Nat) /\ Len(ids) = Len(q) /\ DOMAIN ids = 1 .. Len(q) /\ \A i \in 1 .. Len(q) : ids[i] = n + i
  <2>1. ids = [i \in 1 .. Len(q) |-> n + i]
    BY <1>1
  <2>2. ids \in [1 .. Len(q) -> Nat]
    BY <1>1, <2>1
  <2>3. \A i \in 1 .. Len(q) : ids[i] = n + i
    BY <2>1
  <2> HIDE DEF ids
  <2> QED BY <1>1, <2>2, <2>3
<1>4. ToSet(ids) = S
  <2> HIDE DEF ids
  <2> QED BY <1>1, <1>3 DEF ToSet
<1> HIDE DEF ids
<1>5. r \in Seq(Nat) /\ Len(r) = Len(q) /\ \A i \in 1 .. Len(q) : r[i] = n + (Len(q) - i + 1)
  <2>1. r = [i \in 1 .. Len(q) |-> ids[(Len(q) - i) + 1]]
    BY <1>3 DEF Reverse
  <2>2. \A i \in 1 .. Len(q) : (Len(q) - i) + 1 \in 1 .. Len(q) /\ ids[(Len(q) - i) + 1] = n + (Len(q) - i + 1)
    BY <1>1, <1>3
  <2>3. r \in [1 .. Len(q) -> Nat]
    <3> HIDE DEF r
    <3> QED BY <1>1, <2>1, <2>2
  <2> HIDE DEF r
  <2> QED BY <1>1, <2>1, <2>2, <2>3
<1> HIDE DEF r
<1>6. Once(r) /\ \A k : Contains(r, k) <=> k \in S
  <2>1. Once(r)
    BY <1>1, <1>5 DEF Once
  <2>2. ASSUME NEW k, Contains(r, k) PROVE k \in S
    <3>1. PICK i \in 1 .. Len(q) : k = r[i]
      BY <1>5, <2>2 DEF Contains
    <3>2. Len(q) - i + 1 \in 1 .. Len(q) /\ r[i] = n + (Len(q) - i + 1)
      BY <1>1, <1>5
    <3> QED BY <3>1, <3>2
  <2>3. ASSUME NEW k \in S PROVE Contains(r, k)
    <3>1. PICK i \in 1 .. Len(q) : k = n + i
      OBVIOUS
    <3>2. Len(q) - i + 1 \in 1 .. Len(r) /\ Len(q) - (Len(q) - i + 1) + 1 = i
      BY <1>1, <1>5
    <3>3. r[Len(q) - i + 1] = n + i
      BY <1>5, <3>2
    <3> QED BY <3>1, <3>2, <3>3 DEF Contains
  <2> HIDE DEF S
  <2> QED BY <2>1, <2>2, <2>3
<1>7. PICK i \in 0 .. Len(d.order) : s = Splice(d.order, i, r) /\ (Len(d.order) > 0 => i > 0)
  BY <1>1, <1>5, PlaceAfterIs
<1>8. s \in Seq(Nat)
  BY <1>1, <1>5, <1>7, SpliceIs
<1> HIDE DEF s
<1>9. ASSUME NEW j \in 1 .. Len(q)
      PROVE /\ f[n + j] \in TileSet /\ f[n + j].type = "terminal" /\ f[n + j].uid = q[j]
            /\ What(f[n + j]) = <<"terminal", q[j]>> /\ f[n + j].parent = d.root /\ ~f[n + j].bound
  <2> DEFINE t == Tile("terminal", None, q[j])
             x == [t EXCEPT !.parent = d.root]
  <2>1. n + j \in S /\ (n + j) - n = j
    BY <1>1
  <2>2. f[n + j] = x
    BY <2>1
  <2>3. /\ t \in TileSet /\ t.type = "terminal" /\ t.uid = q[j] /\ t.bound = FALSE /\ What(t) = <<"terminal", q[j]>>
    <3>1. "terminal" \in Kinds /\ None \in Nodes \union {None} /\ q[j] \in UIDs
      BY <1>1 DEF Kinds
    <3>2. /\ t \in TileSet /\ t.type = "terminal" /\ t.uid = q[j] /\ t.bound = FALSE
          /\ What(t) = <<"terminal", IF "terminal" \in {"terminal", "viewer"} THEN q[j] ELSE None>>
      <4>1. \A u \in UIDs : LET y == Tile("terminal", None, u) IN
              /\ y \in TileSet /\ y.type = "terminal" /\ y.uid = u /\ y.bound = FALSE
              /\ What(y) = <<"terminal", IF "terminal" \in {"terminal", "viewer"} THEN u ELSE None>>
        BY UidsAre, <3>1 DEF Tile, TileSet, What
      <4> QED BY <3>1, <4>1
    <3> HIDE DEF t
    <3> QED BY <3>2
  <2> HIDE DEF t
  <2>4. x \in TileSet /\ x.type = t.type /\ x.uid = t.uid /\ x.parent = d.root /\ x.bound = t.bound /\ What(x) = What(t)
    BY <1>1, <2>3, UnderIs
  <2> HIDE DEF x, f
  <2> QED BY <2>2, <2>3, <2>4
<1>10. f \in [S -> TileSet] /\ S \in SUBSET (Nat \ {0}) /\ S \intersect Ids(d) = {}
  <2>1. ASSUME NEW k \in S PROVE f[k] \in TileSet /\ k \in Nat \ {0} /\ k \notin Ids(d)
    <3>1. PICK j \in 1 .. Len(q) : k = n + j
      OBVIOUS
    <3>2. k \in Nat \ {0} /\ ~(k < n)
      BY <1>1, <3>1
    <3> QED BY <1>9, <3>1, <3>2
  <2> HIDE DEF S
  <2> QED BY <2>1
<1>11. e = Added(d, s, S, f)
  <2>1. e = Add(d, s, ToSet(ids), LAMBDA k : [Tile("terminal", None, q[k - n]) EXCEPT !.parent = d.root])
    BY DEF Adopted, s, r, ids
  <2> QED BY <1>4, <2>1 DEF Add, Added
<1> HIDE DEF e, f
<1>12. /\ e \in DocSet /\ e.root = d.root /\ e.order = s /\ Ids(e) = Ids(d) \union S
       /\ \A k \in Ids(d) \ S : e.tiles[k] = d.tiles[k]
       /\ \A k \in S : e.tiles[k] = f[k]
  <2> HIDE DEF S
  <2>1. \A T \in SUBSET (Nat \ {0}) : \A g \in [T -> TileSet] :
            LET y == Added(d, s, T, g)
            IN /\ y \in DocSet /\ y.root = d.root /\ y.order = s /\ Ids(y) = Ids(d) \union T
               /\ \A k \in Ids(d) \ T : y.tiles[k] = d.tiles[k]
               /\ \A k \in T : y.tiles[k] = g[k]
    BY <1>8, AddIs
  <2>2. LET y == Added(d, s, S, f)
        IN /\ y \in DocSet /\ y.root = d.root /\ y.order = s /\ Ids(y) = Ids(d) \union S
           /\ \A k \in Ids(d) \ S : y.tiles[k] = d.tiles[k]
           /\ \A k \in S : y.tiles[k] = f[k]
    <3>1. S \in SUBSET (Nat \ {0}) /\ f \in [S -> TileSet]
      BY <1>10
    <3> QED BY <2>1, <3>1
  <2> QED BY <1>11, <2>2
<1>13. \A j \in 1 .. Len(q) : n + j \in S
  OBVIOUS
<1>14. \A k \in S : e.tiles[k].parent = d.root
  <2> SUFFICES ASSUME NEW k \in S PROVE e.tiles[k].parent = d.root
    OBVIOUS
  <2>1. PICK j \in 1 .. Len(q) : k = n + j
    OBVIOUS
  <2> HIDE DEF S
  <2> QED BY <1>9, <1>12, <2>1
<1>15. \A k \in S : e.tiles[k].parent \in Ids(e) /\ CanParent(e.tiles[e.tiles[k].parent])
  <2> HIDE DEF S
  <2>1. d.root \in Ids(e) /\ e.tiles[d.root] = d.tiles[d.root] /\ CanParent(d.tiles[d.root])
    BY <1>2, <1>10, <1>12 DEF Rooted, CanRoot, CanParent
  <2> QED BY <1>14, <2>1
<1>16. \A T \in SUBSET Ids(e) : Ids(d) \subseteq T /\ HasOpened(e, T) => S \subseteq T
  <2> HIDE DEF S
  <2> QED BY <1>2, <1>12, <1>14 DEF Rooted, HasOpened
<1>17. \A k \in Ids(d) : e.tiles[k] = d.tiles[k]
  <2> HIDE DEF S
  <2> QED BY <1>10, <1>12
<1>18. IsValid(e)
  <2> HIDE DEF S
  <2> QED BY <1>5, <1>6, <1>7, <1>10, <1>12, <1>15, <1>16, <1>17, AttachValid
<1>19. \A j \in 1 .. Len(q) : e.tiles[n + j] = f[n + j]
  BY <1>12, <1>13
<1>20. \A k : k \in S <=> k \in {n + m : m \in 1 .. Len(q)}
  OBVIOUS
<1> HIDE DEF S
<1>21. Ids(e) = Ids(d) \union {n + j : j \in 1 .. Len(q)}
  BY <1>12, <1>20
<1> QED BY <1>9, <1>12, <1>17, <1>18, <1>19, <1>21 DEF e

\* The sequence of a finite set.
LEMMA SetToSeqIs ==
  ASSUME NEW S, IsFiniteSet(S), NEW T, S \subseteq T
  PROVE  /\ SetToSeq(S) \in Seq(T) /\ Once(SetToSeq(S))
         /\ \A i \in 1 .. Len(SetToSeq(S)) : SetToSeq(S)[i] \in S
<1> DEFINE n == Cardinality(S)
           q == SetToSeq(S)
<1>1. n \in Nat /\ ExistsBijection(1 .. n, S)
  BY FS_CardinalityType
<1>2. PICK b \in Bijection(1 .. n, S) : TRUE
  BY <1>1 DEF ExistsBijection
<1>3. b \in [1 .. n -> S] /\ IsInjective(b)
  BY <1>2 DEF Bijection, Injection, IsInjective
<1>4. q = CHOOSE f \in [1 .. n -> S] : IsInjective(f)
  BY DEF SetToSeq
<1> HIDE DEF q
<1>5. q \in [1 .. n -> S] /\ IsInjective(q)
  BY <1>3, <1>4
<1>6. q \in Seq(T) /\ Len(q) = n
  BY <1>1, <1>5
<1>7. Once(q)
  BY <1>5, <1>6 DEF Once, IsInjective
<1>8. \A i \in 1 .. Len(q) : q[i] \in S
  BY <1>5, <1>6
<1> QED BY <1>6, <1>7, <1>8 DEF q

\* The edits of a tab.
EditSet == [do : {"open", "go", "close", "place", "server"}, id : Nat, arg : Nat \union Nodes \union TileSet, n : Nat]

\* An edit speaks of ids that were given out, a folder it opens is a folder tile.
EditFits(e, B, n) ==
  /\ e \in EditSet /\ 0 < e.id /\ e.id < n /\ e.n < n
  /\ e.do = "open" => 0 < e.n /\ e.arg \in Nodes /\ B[e.n] = <<"folder", None>>
  /\ e.do = "go" => e.arg \in Nodes \union {None}
  /\ e.do = "server" => /\ e.arg \in TileSet /\ B[e.id] = What(e.arg)
                        /\ e.arg.type \in {"terminal", "viewer"} /\ e.n = 0

\* The folder tiles edits open, the server tiles they keep, the tiles they close.
OpenIds(E) == {e.n : e \in {e \in E : e.do = "open"}}
ServerIds(E) == {e.id : e \in {e \in E : e.do = "server"}}
CloseIds(E) == {e.id : e \in {e \in E : e.do = "close"}}

\* d is base but for edits E: whatever d has more, E opened or the server told,
\* and a terminal d has not, E closed.
Explains(d, base, E) ==
  /\ Ids(d) \subseteq Ids(base) \union OpenIds(E) \union ServerIds(E)
  /\ OpenIds(E) \intersect Ids(base) = {}
  /\ OfType(base, "terminal") \subseteq Ids(d) \union CloseIds(E)

\* A tile that was closed is not opened again.
NoReopen(q) == \A i, j \in 1 .. Len(q) : i < j /\ q[i].do = "close" /\ q[j].do = "open" => q[i].id # q[j].n

LEMMA MoveAfterTyped ==
  ASSUME NEW d \in DocSet, NEW id \in Nat, NEW after
  PROVE  LET e == MoveAfter(d, id, after) IN
         /\ e \in DocSet /\ Ids(e) = Ids(d) /\ e.tiles = d.tiles
<1> DEFINE r == Drop(d.order, {id})
           rest == [d EXCEPT !.order = r]
           q == <<id>>
           s == PlaceAfter(rest, after, q)
           e == MoveAfter(d, id, after)
<1>1. /\ d = [root |-> d.root, order |-> d.order, tiles |-> d.tiles]
      /\ d.root \in Nat /\ d.order \in Seq(Nat) /\ d.tiles \in [Ids(d) -> TileSet] /\ Ids(d) \subseteq Nat \ {0}
  BY DocIs
<1>3. r \in Seq(Nat)
  BY <1>1, DropHas
<1>4. rest.order = r
  <2> HIDE DEF r
  <2> QED BY <1>1
<1>5. e = [d EXCEPT !.order = s]
  BY DEF MoveAfter
<1>6. q \in Seq(Nat)
  OBVIOUS
<1> HIDE DEF rest, r, e, q
<1>8. PICK i \in 0 .. Len(r) : s = Splice(r, i, q)
  BY <1>3, <1>4, <1>6, PlaceAfterIs
<1> HIDE DEF s
<1>9. s \in Seq(Nat)
  BY <1>3, <1>6, <1>8, SpliceIs
<1>10. e = [root |-> d.root, order |-> s, tiles |-> d.tiles]
  BY <1>1, <1>5
<1>11. e \in DocSet
  <2>1. [root |-> d.root, order |-> s, tiles |-> d.tiles] \in DocSet
    BY <1>1, <1>9, DocMake
  <2> QED BY <1>10, <2>1
<1> QED BY <1>10, <1>11 DEF Ids, e

RemovesTo(d, id, e) ==
  /\ e \in DocSet /\ Ids(e) = Ids(d) \ {id}
  /\ \A k \in Ids(e) : Alike(e.tiles[k], d.tiles[k])

LEMMA RemoveTileTyped ==
  ASSUME NEW d \in DocSet, NEW id \in Ids(d)
  PROVE  RemovesTo(d, id, RemoveTile(d, id))
<1> DEFINE e == RemoveTile(d, id)
           up == d.tiles[id].parent
<1>1. /\ e \in DocSet /\ Ids(e) = Ids(d) \ {id}
      /\ \A k \in Ids(d) \ {id} :
              e.tiles[k] = IF d.tiles[k].parent = id THEN [d.tiles[k] EXCEPT !.parent = up] ELSE d.tiles[k]
  BY RemoveTileIs
<1>2. d.tiles \in [Ids(d) -> TileSet] /\ up \in Nat
  BY DocIs, TileIs
<1> HIDE DEF e, up
<1>3. ASSUME NEW k \in Ids(e) PROVE Alike(e.tiles[k], d.tiles[k])
  <2> DEFINE t == d.tiles[k]
             u == [t EXCEPT !.parent = up]
  <2>1. t \in TileSet
    BY <1>1, <1>2
  <2> HIDE DEF t
  <2>2. u \in TileSet /\ u.type = t.type /\ u.node = t.node /\ u.uid = t.uid /\ u.bound = t.bound /\ What(u) = What(t)
    BY <1>2, <2>1, UnderIs
  <2>3. e.tiles[k] = u \/ e.tiles[k] = t
    BY <1>1 DEF t
  <2> HIDE DEF u
  <2>4. Alike(e.tiles[k], t)
    BY <2>1, <2>2, <2>3 DEF Alike
  <2> QED BY <2>4 DEF t
<1> QED BY <1>1, <1>3 DEF e, RemovesTo

\* What an edit does to a document.
Effect(B, n, d, e, x) ==
  /\ Fit(x, B, n)
  /\ \A k \in Ids(d) : k \in Ids(x) \/ (e.do = "close" /\ k = e.id)
  /\ \A k \in Ids(x) : k \in Ids(d) \/ (e.do = "open" /\ k = e.n) \/ (e.do = "server" /\ k = e.id)
  /\ e.do = "open" => e.n \notin Ids(d)

\* An edit that applies has its effect.
LEMMA AppliedIs ==
  ASSUME NEW B, NEW n \in Nat, NEW d, Fit(d, B, n), NEW e, EditFits(e, B, n), Applies(d, e)
  PROVE  Effect(B, n, d, e, Applied(d, e))
<1> DEFINE x == Applied(d, e)
<1>0. d \in DocSet /\ d.tiles \in [Ids(d) -> TileSet] /\ \A k \in Ids(d) : k < n /\ B[k] = What(d.tiles[k])
  BY DocIs DEF Fit
<1>1. /\ e.do \in {"open", "go", "close", "place", "server"} /\ e.id \in Nat \ {0} /\ e.n \in Nat /\ e.id < n /\ e.n < n
      /\ e.do = "open" => e.n \in Nat \ {0} /\ e.arg \in Nodes /\ B[e.n] = <<"folder", None>>
      /\ e.do = "go" => e.arg \in Nodes \union {None}
      /\ e.do = "server" => e.arg \in TileSet /\ B[e.id] = What(e.arg)
  BY DEF EditFits, EditSet
<1>2. CASE e.do = "open"
  <2> DEFINE t == Tile("folder", e.arg, None)
  <2>1. x = OpenTile(d, e.id, e.n, t) /\ e.n \notin Ids(d)
    BY <1>2 DEF Applied, Applies
  <2>2. t \in TileSet /\ What(t) = <<"folder", None>>
    <3>1. "folder" \in Kinds /\ e.arg \in Nodes \union {None} /\ None \in UIDs /\ None \in Nat
      BY <1>1, <1>2, UidsAre DEF Kinds
    <3> QED BY <3>1 DEF Tile, TileSet, What
  <2> HIDE DEF t, x
  <2>3. /\ x \in DocSet /\ Ids(x) = Ids(d) \union {e.n}
        /\ \A k \in Ids(d) \ {e.n} : x.tiles[k] = d.tiles[k]
        /\ What(x.tiles[e.n]) = What(t)
    <3>1. e.n \in Nat \ {0}
      BY <1>1, <1>2
    <3>2. OpensTo(d, e.n, t, OpenTile(d, e.id, e.n, t))
      BY <1>0, <2>2, <3>1, OpenTileTyped
    <3> QED BY <2>1, <3>2 DEF Alike, OpensTo
  <2> QED BY <1>0, <1>1, <1>2, <2>1, <2>2, <2>3 DEF Fit, x, Effect
<1>3. CASE e.do = "go"
  <2>1. x = Goes(d, e.id, e.arg) /\ e.id \in OfType(d, "folder")
    BY <1>3 DEF Applied, Applies, Goes
  <2> HIDE DEF x
  <2>2. x \in DocSet /\ SameShape(d, x) /\ \A k \in Ids(d) : What(x.tiles[k]) = What(d.tiles[k])
    BY <1>0, <1>1, <1>3, <2>1, GoIs
  <2> QED BY <1>0, <1>3, <2>2 DEF Fit, SameShape, x, Effect
<1>4. CASE e.do = "place"
  <2>1. x = MoveAfter(d, e.id, IF e.arg \in Ids(d) THEN e.arg ELSE -1)
    BY <1>4 DEF Applied
  <2> HIDE DEF x
  <2>2. x \in DocSet /\ Ids(x) = Ids(d) /\ x.tiles = d.tiles
    BY <1>0, <1>1, <2>1, MoveAfterTyped
  <2> QED BY <1>0, <1>4, <2>2 DEF Fit, x, Effect
<1>5. CASE e.do = "server"
  <2>1. x = IF e.id \in Ids(d) THEN d ELSE OpenTile(d, e.arg.parent, e.id, e.arg)
    BY <1>5 DEF Applied
  <2> HIDE DEF x
  <2>2. CASE e.id \in Ids(d)
    BY <1>0, <1>5, <2>1, <2>2 DEF x, Fit, Effect
  <2>3. CASE e.id \notin Ids(d)
    <3> DEFINE t == e.arg
    <3>1. /\ x \in DocSet /\ Ids(x) = Ids(d) \union {e.id}
          /\ \A k \in Ids(d) \ {e.id} : x.tiles[k] = d.tiles[k]
          /\ What(x.tiles[e.id]) = What(t)
      <4>1. t \in TileSet
        BY <1>1, <1>5
      <4>2. OpensTo(d, e.id, t, OpenTile(d, t.parent, e.id, t))
        BY <1>0, <1>1, <4>1, OpenTileTyped
      <4> QED BY <2>1, <2>3, <4>2 DEF Alike, OpensTo
    <3>3. B[e.id] = What(t)
      BY <1>1, <1>5 DEF t
    <3> QED BY <1>0, <1>1, <1>5, <3>1, <3>3 DEF Fit, x, Effect
  <2> QED BY <2>2, <2>3
<1>6. CASE e.do = "close"
  <2>1. e.id \in Ids(d) /\ x = IF e.id = d.root THEN d ELSE RemoveTile(d, e.id)
    BY <1>6 DEF Applied, Applies
  <2> HIDE DEF x
  <2>2. CASE e.id = d.root
    BY <1>0, <1>6, <2>1, <2>2 DEF x, Fit, Effect
  <2>3. CASE e.id # d.root
    <3>1. x \in DocSet /\ Ids(x) = Ids(d) \ {e.id} /\ \A k \in Ids(x) : What(x.tiles[k]) = What(d.tiles[k])
      BY <1>0, <2>1, <2>3, RemoveTileTyped DEF Alike, RemovesTo
    <3> QED BY <1>0, <1>6, <3>1 DEF Fit, x, Effect
  <2> QED BY <2>2, <2>3
<1> QED BY <1>1, <1>2, <1>3, <1>4, <1>5, <1>6

Again(s, e) == IF Applies(s.doc, e) THEN [doc |-> Applied(s.doc, e), pend |-> Append(s.pend, e)] ELSE s
\* The edits done again, row by row of the fold of rebase.
Redo(f, pend, doc, n) ==
  f = [i \in 0 .. n |-> IF i = 0 THEN [doc |-> doc, pend |-> <<>>] ELSE Again(f[i - 1], pend[i])]

LEMMA RedoExists == ASSUME NEW pend, NEW doc PROVE \A n \in Nat : \E f : Redo(f, pend, doc, n)
<1> DEFINE T == {n \in Nat : \E f : Redo(f, pend, doc, n)}
           s0 == [doc |-> doc, pend |-> <<>>]
<1>1. 0 \in T
  <2> DEFINE f == [i \in 0 .. 0 |-> s0]
  <2>1. Redo(f, pend, doc, 0)
    BY DEF Redo
  <2> QED BY <2>1
<1>2. ASSUME NEW n \in Nat, n \in T PROVE n + 1 \in T
  <2>1. PICK f : Redo(f, pend, doc, n)
    BY <1>2
  <2> DEFINE g == [i \in 0 .. n + 1 |-> IF i = n + 1 THEN Again(f[n], pend[i]) ELSE f[i]]
  <2>2. ASSUME NEW i \in 0 .. n + 1
        PROVE g[i] = IF i = 0 THEN s0 ELSE Again(g[i - 1], pend[i])
    <3>1. CASE i = n + 1
      <4>1. i # 0 /\ i - 1 = n /\ n \in 0 .. n + 1 /\ n # n + 1
        BY <3>1
      <4> QED BY <3>1, <4>1
    <3>2. CASE i # n + 1
      <4>1. i \in 0 .. n /\ (i # 0 => i - 1 \in 0 .. n /\ i - 1 # n + 1 /\ i - 1 \in 0 .. n + 1)
        BY <3>2
      <4>2. f[i] = IF i = 0 THEN s0 ELSE Again(f[i - 1], pend[i])
        BY <2>1, <4>1 DEF Redo
      <4> QED BY <3>2, <4>1, <4>2
    <3> QED BY <3>1, <3>2
  <2>3. Redo(g, pend, doc, n + 1)
    <3> HIDE DEF g
    <3>1. g = [i \in 0 .. n + 1 |-> g[i]]
      BY DEF g
    <3> QED BY <2>2, <3>1 DEF Redo
  <2> QED BY <2>3
<1> HIDE DEF T
<1>3. Nat \subseteq T
  BY <1>1, <1>2, Induction
<1> QED BY <1>3 DEF T

\* Of the first n edits, those that apply, in their order.
Kept(q, pend, n) ==
  /\ q \in Seq(EditSet)
  /\ \A m \in 1 .. Len(q) : \E i \in 1 .. n : q[m] = pend[i]
  /\ \A l, m \in 1 .. Len(q) : l < m => \E i, j \in 1 .. n : i < j /\ q[l] = pend[i] /\ q[m] = pend[j]

\* What the tab has when n of its edits were done again on doc.
Edited(s, B, next0, pend, doc, n) ==
  /\ Fit(s.doc, B, next0)
  /\ Kept(s.pend, pend, n)
  /\ Explains(s.doc, doc, ToSet(s.pend))
  /\ \A k \in Ids(doc) : k \in Ids(s.doc) \/ \E i \in 1 .. n : pend[i].do = "close" /\ pend[i].id = k

LEMMA AgainIs ==
  ASSUME NEW B, NEW next0 \in Nat, NEW pend \in Seq(EditSet), \A i \in 1 .. Len(pend) : EditFits(pend[i], B, next0),
         NoReopen(pend), NEW doc, NEW n \in Nat, n + 1 <= Len(pend), NEW s, Edited(s, B, next0, pend, doc, n)
  PROVE  Edited(Again(s, pend[n + 1]), B, next0, pend, doc, n + 1)
<1> DEFINE e == pend[n + 1]
           r == Again(s, e)
<1>1. e \in EditSet /\ EditFits(e, B, next0) /\ n + 1 \in 1 .. Len(pend) /\ n + 1 \in 1 .. n + 1 /\ Len(pend) \in Nat
  OBVIOUS
<1>2. \A i \in 1 .. n : i \in 1 .. n + 1 /\ i < n + 1 /\ i \in 1 .. Len(pend)
  BY <1>1
<1>3. CASE ~Applies(s.doc, e)
  <2>1. r = s
    BY <1>3 DEF Again
  <2>2. Kept(s.pend, pend, n + 1)
    BY <1>2 DEF Edited, Kept
  <2>3. \A k \in Ids(doc) : k \in Ids(s.doc) \/ \E i \in 1 .. n + 1 : pend[i].do = "close" /\ pend[i].id = k
    BY <1>2 DEF Edited
  <2> HIDE DEF r
  <2>4. Edited(s, B, next0, pend, doc, n + 1)
    BY <2>2, <2>3 DEF Edited
  <2> QED BY <2>1, <2>4 DEF r
<1>4. CASE Applies(s.doc, e)
  <2> DEFINE x == Applied(s.doc, e)
             q == s.pend
             p == Append(q, e)
  <2>1. r.doc = x /\ r.pend = p
    BY <1>4 DEF Again
  <2> HIDE DEF r, e
  <2>2. /\ Fit(x, B, next0)
        /\ \A k \in Ids(s.doc) : k \in Ids(x) \/ (e.do = "close" /\ k = e.id)
        /\ \A k \in Ids(x) : k \in Ids(s.doc) \/ (e.do = "open" /\ k = e.n) \/ (e.do = "server" /\ k = e.id)
        /\ e.do = "open" => e.n \notin Ids(s.doc)
    <3>1. Effect(B, next0, s.doc, e, x)
      BY <1>1, <1>4, AppliedIs DEF Edited
    <3> HIDE DEF x
    <3> QED BY <3>1 DEF Effect
  <2> HIDE DEF x
  <2>3. /\ q \in Seq(EditSet) /\ p \in Seq(EditSet) /\ Len(p) = Len(q) + 1 /\ Len(q) \in Nat /\ p[Len(q) + 1] = e
        /\ \A m \in 1 .. Len(q) : p[m] = q[m]
    BY <1>1 DEF Edited, Kept
  <2>4. ToSet(p) = ToSet(q) \union {e}
    <3> HIDE DEF p, q
    <3>6. DOMAIN q = 1 .. Len(q) /\ DOMAIN p = 1 .. Len(p)
      BY <2>3
    <3>1. \A y : y \in ToSet(q) <=> \E m \in 1 .. Len(q) : q[m] = y
      BY <3>6 DEF ToSet
    <3>2. \A y : y \in ToSet(p) <=> \E m \in 1 .. Len(p) : p[m] = y
      BY <3>6 DEF ToSet
    <3>5. Len(p) = Len(q) + 1 /\ Len(q) \in Nat
      BY <2>3
    <3>3. \A m \in 1 .. Len(p) : m = Len(q) + 1 \/ m \in 1 .. Len(q)
      BY <3>5
    <3>4. Len(q) + 1 \in 1 .. Len(p) /\ \A m \in 1 .. Len(q) : m \in 1 .. Len(p)
      BY <3>5
    <3> QED BY <2>3, <3>1, <3>2, <3>3, <3>4
  <2> HIDE DEF p
  <2>5. Kept(p, pend, n + 1)
    <3>0. /\ \A m \in 1 .. Len(q) : \E i \in 1 .. n : q[m] = pend[i]
          /\ \A l, m \in 1 .. Len(q) : l < m => \E i, j \in 1 .. n : i < j /\ q[l] = pend[i] /\ q[m] = pend[j]
      BY DEF Edited, Kept
    <3> HIDE DEF q
    <3>3. \A m \in 1 .. Len(p) : m = Len(q) + 1 \/ m \in 1 .. Len(q)
      BY <2>3
    <3>1. ASSUME NEW m \in 1 .. Len(p) PROVE \E i \in 1 .. n + 1 : p[m] = pend[i]
      <4>1. CASE m \in 1 .. Len(q)
        <5>1. PICK i \in 1 .. n : q[m] = pend[i]
          BY <3>0, <4>1
        <5>2. i \in 1 .. n + 1 /\ p[m] = q[m]
          BY <2>3, <4>1
        <5> QED BY <5>1, <5>2
      <4>2. CASE m = Len(q) + 1
        BY <1>1, <2>3, <4>2 DEF e
      <4> QED BY <3>3, <4>1, <4>2
    <3>2. ASSUME NEW l \in 1 .. Len(p), NEW m \in 1 .. Len(p), l < m
          PROVE \E i, j \in 1 .. n + 1 : i < j /\ p[l] = pend[i] /\ p[m] = pend[j]
      <4>1. l \in 1 .. Len(q)
        BY <2>3, <3>2
      <4>2. CASE m \in 1 .. Len(q)
        <5>1. PICK i \in 1 .. n, j \in 1 .. n : i < j /\ q[l] = pend[i] /\ q[m] = pend[j]
          BY <3>0, <3>2, <4>1, <4>2
        <5> QED BY <1>2, <2>3, <4>1, <4>2, <5>1
      <4>3. CASE m = Len(q) + 1
        <5>1. PICK i \in 1 .. n : q[l] = pend[i]
          BY <3>0, <4>1
        <5> QED BY <1>1, <1>2, <2>3, <4>1, <4>3, <5>1 DEF e
      <4> QED BY <3>3, <4>2, <4>3
    <3> QED BY <2>3, <3>1, <3>2 DEF Kept
  <2>6. \A k \in Ids(doc) : k \in Ids(x) \/ \E i \in 1 .. n + 1 : pend[i].do = "close" /\ pend[i].id = k
    <3>1. \A k \in Ids(doc) : k \in Ids(s.doc) \/ \E i \in 1 .. n + 1 : pend[i].do = "close" /\ pend[i].id = k
      BY <1>2 DEF Edited
    <3>2. e.do = "close" => \E i \in 1 .. n + 1 : pend[i].do = "close" /\ pend[i].id = e.id
      BY <1>1 DEF e
    <3> QED BY <2>2, <3>1, <3>2
  <2>7. e.do = "open" => e.n \notin Ids(doc)
    <3> SUFFICES ASSUME e.do = "open", e.n \in Ids(doc) PROVE FALSE
      OBVIOUS
    <3>1. PICK i \in 1 .. n : pend[i].do = "close" /\ pend[i].id = e.n
      BY <2>2 DEF Edited
    <3> QED BY <1>1, <1>2, <3>1 DEF NoReopen, e
  <2>8. Explains(x, doc, ToSet(p))
    <3>1. Explains(s.doc, doc, ToSet(q))
      BY DEF Edited
    <3> HIDE DEF q
    <3>2. /\ \A y : y \in OpenIds(ToSet(p)) <=> y \in OpenIds(ToSet(q)) \/ (e.do = "open" /\ y = e.n)
          /\ \A y : y \in ServerIds(ToSet(p)) <=> y \in ServerIds(ToSet(q)) \/ (e.do = "server" /\ y = e.id)
          /\ \A y : y \in CloseIds(ToSet(p)) <=> y \in CloseIds(ToSet(q)) \/ (e.do = "close" /\ y = e.id)
      BY <2>4 DEF OpenIds, ServerIds, CloseIds
    <3>3. Ids(x) \subseteq Ids(doc) \union OpenIds(ToSet(p)) \union ServerIds(ToSet(p))
      BY <2>2, <3>1, <3>2 DEF Explains
    <3>4. OpenIds(ToSet(p)) \intersect Ids(doc) = {}
      BY <2>7, <3>1, <3>2 DEF Explains
    <3>5. OfType(doc, "terminal") \subseteq Ids(x) \union CloseIds(ToSet(p))
      BY <2>2, <3>1, <3>2 DEF Explains
    <3> QED BY <3>3, <3>4, <3>5 DEF Explains
  <2> QED BY <2>1, <2>2, <2>5, <2>6, <2>8 DEF Edited, r, e
<1> QED BY <1>3, <1>4

Doable(B, n, t) ==
  t.pend \in Seq(EditSet) /\ (\A i \in 1 .. Len(t.pend) : EditFits(t.pend[i], B, n)) /\ NoReopen(t.pend)
RebaseIs(B, n, t, ver, doc) ==
  \E s : /\ Edited(s, B, n, t.pend, doc, Len(t.pend))
         /\ Rebased(t, ver, doc) = [t EXCEPT !.ver = ver, !.doc = s.doc, !.pend = s.pend]

\* After a rebase the tab's document is explained by the edits it kept.
LEMMA RebasedIs ==
  ASSUME NEW B, NEW next0 \in Nat, NEW t, Doable(B, next0, t), NEW doc, Fit(doc, B, next0), NEW ver
  PROVE  RebaseIs(B, next0, t, ver, doc)
<1> USE DEF Doable, RebaseIs
<1> DEFINE pend == t.pend
           f == CHOOSE f : Redo(f, pend, doc, Len(pend))
<1>0. Len(pend) \in Nat
  OBVIOUS
<1>1. Redo(f, pend, doc, Len(pend))
  BY <1>0, RedoExists
<1>2. Rebased(t, ver, doc) = [t EXCEPT !.ver = ver, !.doc = f[Len(pend)].doc, !.pend = f[Len(pend)].pend]
  BY DEF Rebased, Redo, Again
<1> HIDE DEF f
<1> DEFINE T == {n \in Nat : n <= Len(pend) => Edited(f[n], B, next0, pend, doc, n)}
<1>3. 0 \in T
  <2> DEFINE s == [doc |-> doc, pend |-> <<>>]
  <2>1. f[0] = s
    BY <1>0, <1>1 DEF Redo
  <2>2. s.doc = doc /\ s.pend = <<>>
    OBVIOUS
  <2>3. Kept(<<>>, pend, 0)
    BY DEF Kept
  <2>4. Explains(doc, doc, ToSet(<<>>))
    <3>1. ToSet(<<>>) = {}
      BY DEF ToSet
    <3> QED BY <3>1 DEF Explains, OpenIds, OfType
  <2> HIDE DEF s
  <2>5. Edited(s, B, next0, pend, doc, 0)
    BY <2>2, <2>3, <2>4 DEF Edited
  <2> QED BY <2>1, <2>5
<1>4. ASSUME NEW n \in Nat, n \in T PROVE n + 1 \in T
  <2> SUFFICES ASSUME n + 1 <= Len(pend) PROVE Edited(f[n + 1], B, next0, pend, doc, n + 1)
    OBVIOUS
  <2>1. Edited(f[n], B, next0, pend, doc, n)
    BY <1>0, <1>4
  <2>2. f[n + 1] = Again(f[n], pend[n + 1])
    <3>1. n + 1 \in 0 .. Len(pend) /\ n + 1 # 0 /\ (n + 1) - 1 = n
      BY <1>0
    <3> QED BY <1>1, <3>1 DEF Redo
  <2> HIDE DEF T, RebaseIs
  <2>3. Edited(Again(f[n], pend[n + 1]), B, next0, pend, doc, n + 1)
    BY <2>1, AgainIs
  <2> QED BY <2>2, <2>3
<1>5. Len(pend) \in T
  <2> HIDE DEF T
  <2> QED BY <1>0, <1>3, <1>4, Induction
<1>6. Edited(f[Len(pend)], B, next0, pend, doc, Len(pend))
  BY <1>0, <1>5
<1> QED BY <1>2, <1>6

\* The edits not saved, the tiles and the processes on the boards.
Pends(t) == ToSet(t.pend)
AllOf(brd) == UNION {Ids(brd[g].doc) : g \in DOMAIN brd}
UidsOn(brd) == UNION {TerminalUIDs(brd[g].doc) : g \in DOMAIN brd}

\* Rows are well formed, and the default board is always there.
BoardsFit(B, n, brd) ==
  /\ Default \in DOMAIN brd
  /\ \A g \in DOMAIN brd : g \in Nat \ {0} /\ g < n /\ brd[g].ver \in Nat \ {0} /\ Fit(brd[g].doc, B, n)

\* H has every document a board had, the present one included.
HistFits(B, H, n, brd) ==
  /\ \A g, v \in Nat : Fit(H[<<g, v>>], B, n)
  /\ \A g \in DOMAIN brd : H[<<g, brd[g].ver>>] = brd[g].doc

\* Documents are valid; a tile, a process, a video and a folder uid are in one place.
Sound(B, brd) ==
  /\ \A g \in DOMAIN brd : IsValid(brd[g].doc)
  /\ \A g, b \in DOMAIN brd : \A k \in Ids(brd[g].doc) : k \in Ids(brd[b].doc) => g = b
  /\ \A k, l \in AllOf(brd) : B[k] = B[l] /\ B[k][1] \in {"terminal", "viewer"} => k = l
  /\ \A g \in DOMAIN brd : \A k \in OfType(brd[g].doc, "folder") : brd[g].doc.tiles[k].uid \in {k, -1}
  /\ \A g, b \in DOMAIN brd : \A k \in OfType(brd[g].doc, "folder"), l \in OfType(brd[b].doc, "folder") :
       brd[g].doc.tiles[k].uid = -1 /\ brd[b].doc.tiles[l].uid = -1 => k = l
\* A node is pinned in one place.
PinsOnce(brd) ==
  \A g, b \in DOMAIN brd : \A k \in OfType(brd[g].doc, "folder"), l \in OfType(brd[b].doc, "folder") :
    brd[g].doc.tiles[k].node = brd[b].doc.tiles[l].node /\ brd[g].doc.tiles[k].bound /\ brd[b].doc.tiles[l].bound => k = l

TabSet == [hash : Nat, ver : Nat, doc : DocSet, pend : Seq(EditSet), gen : Nat]
\* The tab's copy is well formed, and its edits speak of what is there.
TabFits(B, n, t) ==
  /\ t \in TabSet /\ 0 < t.hash /\ t.hash < n /\ Fit(t.doc, B, n)
  /\ \A i \in 1 .. Len(t.pend) : EditFits(t.pend[i], B, n)
  /\ NoReopen(t.pend)
\* Folders these edits open are on no other board.
Elsewhere(E, g, brd) == \A b \in DOMAIN brd \ {g} : OpenIds(E) \intersect Ids(brd[b].doc) = {}
\* While its board is there the tab is not ahead of it, and differs from the version
\* it knows by its edits only.
TabOK(H, brd, t) ==
  t.hash \in DOMAIN brd =>
    /\ t.ver <= brd[t.hash].ver /\ Elsewhere(Pends(t), t.hash, brd)
    /\ Explains(t.doc, H[<<t.hash, t.ver>>], Pends(t))

\* A save on its way differs from the version it is based on by the edits it was sent
\* with; what the tab did since differs from the save by the edits since.
PutOK(B, H, n, brd, t, r) ==
  /\ r.op = "put" /\ r.hash \in Nat \ {0} /\ r.hash < n /\ r.ver \in Nat /\ Fit(r.doc, B, n)
  /\ \A e \in r.sent : EditFits(e, B, n)
  /\ r.gen = t.gen => r.hash = t.hash /\ r.ver <= t.ver
  /\ r.hash \in DOMAIN brd =>
       /\ r.ver <= brd[r.hash].ver /\ (r.ver = brd[r.hash].ver => Elsewhere(r.sent, r.hash, brd))
       /\ Explains(r.doc, H[<<r.hash, r.ver>>], r.sent)
  /\ r.gen # t.gen => OpenIds(r.sent) \intersect OpenIds(Pends(t)) = {}
  /\ r.gen = t.gen /\ r.ver = t.ver => Explains(t.doc, r.doc, Pends(t) \ r.sent)

\* The answer to a save says a document the board had.
AnswerOK(B, H, n, brd, t, a) ==
  /\ a.step = "reply" /\ a.op = "put" /\ a.ok \in BOOLEAN /\ a.ver \in Nat
  /\ \A e \in a.sent : EditFits(e, B, n)
  /\ a.gen = t.gen =>
       /\ H[<<t.hash, a.ver>>] = a.doc
       /\ t.hash \in DOMAIN brd => a.ver <= brd[t.hash].ver
       /\ a.ok => a.ver = t.ver + 1 /\ Explains(t.doc, a.doc, Pends(t) \ a.sent)

\* What is to be published was committed.
SavedOK(H, n, brd, saved) ==
  \A g \in DOMAIN saved :
    /\ g \in Nat /\ g < n /\ saved[g].ver \in Nat
    /\ H[<<g, saved[g].ver>>] = saved[g].doc
    /\ g \in DOMAIN brd => saved[g].ver <= brd[g].ver

\* The tile an answer or a push tells of: it came with that version and no other did.
TellOK(B, H, n, brd, x) ==
  /\ x.hash \in Nat /\ x.hash < n /\ x.ver \in Nat /\ x.ver > 1
  /\ x.id \in Nat \ {0} /\ x.id < n
  /\ x.tile \in TileSet /\ x.tile.type \in {"terminal", "viewer"} /\ B[x.id] = What(x.tile)
  /\ x.hash \in DOMAIN brd => x.ver <= brd[x.hash].ver
  /\ LET new == H[<<x.hash, x.ver>>]
         old == H[<<x.hash, x.ver - 1>>]
     IN /\ x.id \in Ids(new) /\ Ids(old) \subseteq Ids(new)
        /\ OfType(new, "terminal") \subseteq Ids(old) \union {x.id}

\* The phases of a save, and of a request that tells of a tile.
PutLike(r) == r.step \in {"put", "publish", "reply"} /\ r.op = "put"
Telling(r) == r.step \in {"publish", "reply"} /\ r.op \in {"exec", "video"}
SentOf(r) == IF r.step = "publish" THEN r.reply.sent ELSE r.sent

\* What holds of a request at each of its steps.
ThreadOK(B, H, n, brd, t, r) ==
  /\ PutLike(r) => r.gen \in Nat /\ r.gen <= t.gen
  /\ r.step = "put" => PutOK(B, H, n, brd, t, r)
  /\ r.step = "publish" =>
       /\ SavedOK(H, n, brd, r.saved)
       /\ r.mine = (r.op \in {"put", "exec", "video"})
       /\ r.op = "put" => AnswerOK(B, H, n, brd, t, r.reply) /\ r.reply.ok /\ r.reply.gen = r.gen
  /\ r.step = "reply" => (r.op = "put" => AnswerOK(B, H, n, brd, t, r)) /\ r.op \in {"put", "exec", "video"}
  /\ Telling(r) => TellOK(B, H, n, brd, r.reply)

\* The requests do not share what must not be shared.
Distinct(rq, t) ==
  /\ \A h, k \in Threads : PutLike(rq[h]) /\ PutLike(rq[k]) /\ rq[h].gen = rq[k].gen => h = k
  /\ \A h, k \in Threads : rq[h].step = "put" /\ rq[k].step = "put" /\ h # k =>
       OpenIds(rq[h].sent) \intersect OpenIds(rq[k].sent) = {}
  /\ \A h \in Threads : Telling(rq[h]) =>
       /\ rq[h].reply.id \notin ServerIds(Pends(t))
       /\ \A k \in Threads : PutLike(rq[k]) => rq[h].reply.id \notin ServerIds(SentOf(rq[k]))
       /\ \A k \in Threads \ {h} : Telling(rq[k]) => rq[k].reply.id # rq[h].reply.id

----------
(* The world only grows.                                                   *)
Later(B, H, n, brd, C, K, m, brd2) ==
  /\ n \in Nat /\ m \in Nat /\ n <= m
  /\ \A k \in Nat : k < n => C[k] = B[k]
  /\ \A g \in DOMAIN brd2 : g < n => g \in DOMAIN brd /\ brd[g].ver <= brd2[g].ver
  /\ \A g, v \in Nat : g < n /\ (g \in DOMAIN brd => v <= brd[g].ver) => K[<<g, v>>] = H[<<g, v>>]
  /\ \A g \in DOMAIN brd : g \in Nat /\ brd[g].ver \in Nat
  /\ \A g \in DOMAIN brd2 : g \in Nat /\ brd2[g].ver \in Nat

LEMMA FitLater ==
  ASSUME NEW B, NEW C, NEW n \in Nat, NEW m \in Nat, n <= m, \A k \in Nat : k < n => C[k] = B[k],
         NEW d, Fit(d, B, n)
  PROVE  Fit(d, C, m)
<1>1. d \in DocSet /\ Ids(d) \subseteq Nat \ {0}
  BY DocIs DEF Fit
<1>2. ASSUME NEW k \in Ids(d) PROVE k < m /\ C[k] = What(d.tiles[k])
  <2>1. k \in Nat /\ k < n /\ B[k] = What(d.tiles[k])
    BY <1>1 DEF Fit
  <2> QED BY <2>1
<1> QED BY <1>1, <1>2 DEF Fit

LEMMA EditFitsLater ==
  ASSUME NEW B, NEW C, NEW n \in Nat, NEW m \in Nat, n <= m, \A k \in Nat : k < n => C[k] = B[k],
         NEW e, EditFits(e, B, n)
  PROVE  EditFits(e, C, m)
<1>1. e \in EditSet /\ e.id \in Nat /\ e.n \in Nat /\ e.id < n /\ e.n < n
  BY DEF EditFits, EditSet
<1>2. e.id < m /\ e.n < m /\ C[e.id] = B[e.id] /\ C[e.n] = B[e.n]
  BY <1>1
<1> QED BY <1>1, <1>2 DEF EditFits

\* What holds of the tab, a save, an answer or a push holds later too.
LEMMA TabLater ==
  ASSUME NEW B, NEW H, NEW n, NEW brd, NEW C, NEW K, NEW m, NEW brd2, Later(B, H, n, brd, C, K, m, brd2),
         NEW t, TabFits(B, n, t)
  PROVE  TabFits(C, m, t)
<1>1. t.hash \in Nat /\ t.hash < n /\ n \in Nat /\ m \in Nat /\ n <= m
  BY DEF TabFits, TabSet, Later
<1>2. Fit(t.doc, C, m)
  BY FitLater DEF Later, TabFits
<1>3. \A i \in 1 .. Len(t.pend) : EditFits(t.pend[i], C, m)
  BY EditFitsLater DEF Later, TabFits
<1>4. t.hash < m
  BY <1>1
<1> QED BY <1>2, <1>3, <1>4 DEF TabFits

LEMMA PutLater ==
  ASSUME NEW B, NEW H, NEW n, NEW brd, NEW C, NEW K, NEW m, NEW brd2, Later(B, H, n, brd, C, K, m, brd2),
         NEW t, NEW r, PutOK(B, H, n, brd, t, r),
         r.hash \in DOMAIN brd2 /\ r.ver = brd2[r.hash].ver => Elsewhere(r.sent, r.hash, brd2)
  PROVE  PutOK(C, K, m, brd2, t, r)
<1>1. r.hash \in Nat /\ r.hash < n /\ n \in Nat /\ m \in Nat /\ n <= m /\ r.hash < m /\ r.ver \in Nat
  BY DEF PutOK, Later
<1>2. Fit(r.doc, C, m)
  BY FitLater DEF Later, PutOK
<1>3. \A e \in r.sent : EditFits(e, C, m)
  BY EditFitsLater DEF Later, PutOK
<1>4. r.hash \in DOMAIN brd2 => r.ver <= brd2[r.hash].ver
  <2> HAVE r.hash \in DOMAIN brd2
  <2>1. r.hash \in DOMAIN brd /\ brd[r.hash].ver <= brd2[r.hash].ver /\ brd[r.hash].ver \in Nat /\ brd2[r.hash].ver \in Nat
    BY <1>1 DEF Later
  <2>2. r.ver <= brd[r.hash].ver
    BY <2>1 DEF PutOK
  <2> QED BY <1>1, <2>1, <2>2
<1>5. K[<<r.hash, r.ver>>] = H[<<r.hash, r.ver>>]
  BY <1>1 DEF Later, PutOK
<1>6. r.hash \in DOMAIN brd2 => Explains(r.doc, K[<<r.hash, r.ver>>], r.sent)
  <2> HAVE r.hash \in DOMAIN brd2
  <2>1. r.hash \in DOMAIN brd
    BY <1>1 DEF Later
  <2> QED BY <1>5, <2>1 DEF PutOK
<1> QED BY <1>1, <1>2, <1>3, <1>4, <1>6 DEF PutOK

LEMMA AnswerLater ==
  ASSUME NEW B, NEW H, NEW n, NEW brd, NEW C, NEW K, NEW m, NEW brd2, Later(B, H, n, brd, C, K, m, brd2),
         NEW t, TabFits(B, n, t), NEW a, AnswerOK(B, H, n, brd, t, a)
  PROVE  AnswerOK(C, K, m, brd2, t, a)
<1>1. t.hash \in Nat /\ t.hash < n /\ n \in Nat /\ m \in Nat /\ n <= m /\ a.ver \in Nat
  BY DEF TabFits, TabSet, Later, AnswerOK
<1>2. \A e \in a.sent : EditFits(e, C, m)
  BY EditFitsLater DEF Later, AnswerOK
<1>3. ASSUME a.gen = t.gen, t.hash \in DOMAIN brd2 PROVE a.ver <= brd2[t.hash].ver
  <2>1. t.hash \in DOMAIN brd /\ brd[t.hash].ver <= brd2[t.hash].ver /\ brd[t.hash].ver \in Nat /\ brd2[t.hash].ver \in Nat
    BY <1>1, <1>3 DEF Later
  <2>2. a.ver <= brd[t.hash].ver
    BY <1>3, <2>1 DEF AnswerOK
  <2> QED BY <1>1, <2>1, <2>2
<1>4. a.gen = t.gen => K[<<t.hash, a.ver>>] = H[<<t.hash, a.ver>>]
  BY <1>1 DEF Later, AnswerOK
<1> QED BY <1>2, <1>3, <1>4 DEF AnswerOK

LEMMA SavedLater ==
  ASSUME NEW B, NEW H, NEW n, NEW brd, NEW C, NEW K, NEW m, NEW brd2, Later(B, H, n, brd, C, K, m, brd2),
         NEW saved, SavedOK(H, n, brd, saved)
  PROVE  SavedOK(K, m, brd2, saved)
<1> SUFFICES ASSUME NEW g \in DOMAIN saved
             PROVE /\ g \in Nat /\ g < m /\ saved[g].ver \in Nat
                   /\ K[<<g, saved[g].ver>>] = saved[g].doc
                   /\ g \in DOMAIN brd2 => saved[g].ver <= brd2[g].ver
  BY DEF SavedOK
<1>1. /\ g \in Nat /\ g < n /\ saved[g].ver \in Nat /\ H[<<g, saved[g].ver>>] = saved[g].doc
      /\ g \in DOMAIN brd => saved[g].ver <= brd[g].ver
  BY DEF SavedOK
<1>2. g < m
  BY <1>1 DEF Later
<1>3. K[<<g, saved[g].ver>>] = H[<<g, saved[g].ver>>]
  BY <1>1 DEF Later
<1>4. ASSUME g \in DOMAIN brd2 PROVE saved[g].ver <= brd2[g].ver
  <2>1. g \in DOMAIN brd /\ brd[g].ver <= brd2[g].ver /\ brd[g].ver \in Nat /\ brd2[g].ver \in Nat
    BY <1>1, <1>4 DEF Later
  <2> QED BY <1>1, <2>1
<1> QED BY <1>1, <1>2, <1>3, <1>4

LEMMA TellLater ==
  ASSUME NEW B, NEW H, NEW n, NEW brd, NEW C, NEW K, NEW m, NEW brd2, Later(B, H, n, brd, C, K, m, brd2),
         NEW x, TellOK(B, H, n, brd, x)
  PROVE  TellOK(C, K, m, brd2, x)
<1>1. /\ x.hash \in Nat /\ x.hash < n /\ n \in Nat /\ m \in Nat /\ n <= m /\ x.ver \in Nat /\ x.ver - 1 \in Nat
      /\ x.id \in Nat /\ x.id < n /\ x.hash < m /\ x.id < m
  BY DEF Later, TellOK
<1>2. C[x.id] = B[x.id]
  BY <1>1 DEF Later
<1>3. ASSUME x.hash \in DOMAIN brd2 PROVE x.ver <= brd2[x.hash].ver
  <2>1. x.hash \in DOMAIN brd /\ brd[x.hash].ver <= brd2[x.hash].ver /\ brd[x.hash].ver \in Nat /\ brd2[x.hash].ver \in Nat
    BY <1>1, <1>3 DEF Later
  <2>2. x.ver <= brd[x.hash].ver
    BY <2>1 DEF TellOK
  <2> QED BY <1>1, <2>1, <2>2
<1>4. K[<<x.hash, x.ver>>] = H[<<x.hash, x.ver>>]
  BY <1>1 DEF Later, TellOK
<1>5. K[<<x.hash, x.ver - 1>>] = H[<<x.hash, x.ver - 1>>]
  <2>1. x.hash \in DOMAIN brd => x.ver - 1 <= brd[x.hash].ver
    BY <1>1 DEF TellOK, Later
  <2> QED BY <1>1, <2>1 DEF Later
<1> QED BY <1>1, <1>2, <1>3, <1>4, <1>5 DEF TellOK

LEMMA ThreadLater ==
  ASSUME NEW B, NEW H, NEW n, NEW brd, NEW C, NEW K, NEW m, NEW brd2, Later(B, H, n, brd, C, K, m, brd2),
         NEW t, TabFits(B, n, t), NEW r, ThreadOK(B, H, n, brd, t, r),
         r.step = "put" /\ r.hash \in DOMAIN brd2 /\ r.ver = brd2[r.hash].ver => Elsewhere(r.sent, r.hash, brd2)
  PROVE  ThreadOK(C, K, m, brd2, t, r)
<1>1. r.step = "put" => PutOK(C, K, m, brd2, t, r)
  BY PutLater DEF ThreadOK
<1>2. r.step = "publish" => SavedOK(K, m, brd2, r.saved)
  BY SavedLater DEF ThreadOK
<1>3. r.step = "publish" /\ r.op = "put" => AnswerOK(C, K, m, brd2, t, r.reply)
  BY AnswerLater DEF ThreadOK
<1>4. r.step = "reply" /\ r.op = "put" => AnswerOK(C, K, m, brd2, t, r)
  BY AnswerLater DEF ThreadOK
<1>5. Telling(r) => TellOK(C, K, m, brd2, r.reply)
  BY TellLater DEF ThreadOK
<1> QED BY <1>1, <1>2, <1>3, <1>4, <1>5 DEF ThreadOK

\* The rows after documents are written and boards deleted.
Rows(brd, docs, gone, now) ==
  [g \in (DOMAIN brd \union DOMAIN docs) \ gone |->
     IF g \in DOMAIN docs
     THEN [doc |-> Marshal(docs[g], now), ver |-> IF g \in DOMAIN brd THEN brd[g].ver + 1 ELSE 1]
     ELSE brd[g]]

\* The boards a commit writes or deletes, and the tiles that are there after it.
Touched(docs, gone, b) == b \in DOMAIN docs \/ b \in gone
Stays(brd, docs, gone, k) ==
  \/ \E b \in DOMAIN brd : ~Touched(docs, gone, b) /\ k \in Ids(brd[b].doc)
  \/ \E g \in DOMAIN docs : k \in Ids(docs[g])

\* A tile that was on a board before, or one that is new.
Kept1(brd, docs, gone, k, t) ==
  \E b \in DOMAIN brd : /\ Touched(docs, gone, b) /\ k \in Ids(brd[b].doc)
                        /\ t.type = "folder" => t.uid = brd[b].doc.tiles[k].uid
New1(brd, docs, gone, C, k, t) ==
  /\ k \notin AllOf(brd)
  /\ t.type = "folder" =>
       \/ t.uid = None
       \/ /\ t.uid = -1
          /\ \A b \in DOMAIN brd : \A l \in OfType(brd[b].doc, "folder") : brd[b].doc.tiles[l].uid # -1
          /\ \A b \in DOMAIN docs : \A l \in OfType(docs[b], "folder") : docs[b].tiles[l].uid = -1 => l = k
  /\ t.type \in {"terminal", "viewer"} => \A l : Stays(brd, docs, gone, l) /\ C[l] = C[k] => l = k

\* A commit may write these documents and delete these boards: each tile is one that
\* was on a board touched, or a new one nobody has.
Write(B, n, brd, C, m, docs, gone) ==
  /\ n \in Nat /\ m \in Nat /\ n < m
  /\ \A k \in Nat : k < n => C[k] = B[k]
  /\ DOMAIN docs \subseteq DOMAIN brd \union {n} /\ gone \subseteq DOMAIN brd \ {Default} /\ gone \intersect DOMAIN docs = {}
  /\ \A g \in DOMAIN docs : Fit(docs[g], C, m) /\ IsValid(docs[g])
  /\ \A g, b \in DOMAIN docs : \A k \in Ids(docs[g]) : k \in Ids(docs[b]) => g = b
  /\ \A g \in DOMAIN docs : \A k \in Ids(docs[g]) :
       Kept1(brd, docs, gone, k, docs[g].tiles[k]) \/ New1(brd, docs, gone, C, k, docs[g].tiles[k])

\* A tile of the rows after the write.
Row(brd, docs, gone, C, brd2, g, k) ==
  LET t == brd2[g].doc.tiles[k] IN
  \/ \E b \in DOMAIN brd : /\ k \in Ids(brd[b].doc) /\ t.type = brd[b].doc.tiles[k].type
                           /\ t.type = "folder" => t.uid = brd[b].doc.tiles[k].uid
                           /\ (b = g /\ ~Touched(docs, gone, g)) \/ (Touched(docs, gone, b) /\ g \in DOMAIN docs)
  \/ /\ g \in DOMAIN docs /\ k \notin AllOf(brd)
     /\ t.type = "folder" =>
          \/ t.uid = k
          \/ /\ t.uid = -1
             /\ \A b \in DOMAIN brd : \A l \in OfType(brd[b].doc, "folder") : brd[b].doc.tiles[l].uid # -1
             /\ \A b \in DOMAIN docs : \A l \in OfType(docs[b], "folder") : docs[b].tiles[l].uid = -1 => l = k
     /\ t.type \in {"terminal", "viewer"} => \A l : Stays(brd, docs, gone, l) /\ C[l] = C[k] => l = k

\* The rows after it: the documents with their folder uids, one version on.
RowsOK(brd, docs, gone, n, brd2) ==
  /\ DOMAIN brd2 = (DOMAIN brd \union DOMAIN docs) \ gone
  /\ \A g \in DOMAIN brd2 : g \notin DOMAIN docs => ~Touched(docs, gone, g) /\ g \in DOMAIN brd /\ brd2[g] = brd[g]
  /\ \A g \in DOMAIN docs :
       /\ g \in DOMAIN brd2
       /\ brd2[g].doc \in DocSet /\ SameShape(docs[g], brd2[g].doc)
       /\ brd2[g].ver = IF g \in DOMAIN brd THEN brd[g].ver + 1 ELSE 1
       /\ \A k \in Ids(docs[g]) :
            /\ What(brd2[g].doc.tiles[k]) = What(docs[g].tiles[k])
            /\ brd2[g].doc.tiles[k].type = docs[g].tiles[k].type
            /\ brd2[g].doc.tiles[k].node = docs[g].tiles[k].node
            /\ brd2[g].doc.tiles[k].bound = docs[g].tiles[k].bound
            /\ brd2[g].doc.tiles[k].uid =
                 IF docs[g].tiles[k].type = "folder" /\ docs[g].tiles[k].uid = None THEN k ELSE docs[g].tiles[k].uid

LEMMA RowsAre ==
  ASSUME NEW B, NEW n, NEW brd, NEW C, NEW m, NEW docs, NEW gone, Write(B, n, brd, C, m, docs, gone),
         BoardsFit(B, n, brd), Sound(B, brd), NEW brd2, brd2 = Rows(brd, docs, gone, n)
  PROVE  RowsOK(brd, docs, gone, n, brd2)
<1>1. DOMAIN brd2 = (DOMAIN brd \union DOMAIN docs) \ gone
  BY DEF Rows
<1>2. ASSUME NEW g \in DOMAIN brd2, g \notin DOMAIN docs PROVE ~Touched(docs, gone, g) /\ g \in DOMAIN brd /\ brd2[g] = brd[g]
  BY <1>1, <1>2 DEF Rows, Touched
<1>3. ASSUME NEW g \in DOMAIN docs
      PROVE /\ g \in DOMAIN brd2 /\ brd2[g].doc = Marshal(docs[g], n)
            /\ brd2[g].ver = IF g \in DOMAIN brd THEN brd[g].ver + 1 ELSE 1
  <2>1. g \in DOMAIN brd2
    BY <1>1 DEF Write
  <2> QED BY <2>1 DEF Rows
<1>4. ASSUME NEW g \in DOMAIN docs
      PROVE /\ brd2[g].doc \in DocSet /\ SameShape(docs[g], brd2[g].doc)
            /\ \A k \in Ids(docs[g]) :
                   /\ What(brd2[g].doc.tiles[k]) = What(docs[g].tiles[k])
                   /\ brd2[g].doc.tiles[k].type = docs[g].tiles[k].type
                   /\ brd2[g].doc.tiles[k].node = docs[g].tiles[k].node
                   /\ brd2[g].doc.tiles[k].bound = docs[g].tiles[k].bound
                   /\ brd2[g].doc.tiles[k].uid =
                        IF docs[g].tiles[k].type = "folder" /\ docs[g].tiles[k].uid = None THEN k ELSE docs[g].tiles[k].uid
  <2> DEFINE d == docs[g]
             e == Marshal(d, n)
  <2>1. d \in DocSet /\ n \in Nat
    BY DEF Write, Fit
  <2> HIDE DEF d
  <2>2. /\ e \in DocSet /\ SameShape(d, e)
        /\ \A k \in Ids(d) :
              /\ What(e.tiles[k]) = What(d.tiles[k]) /\ e.tiles[k].type = d.tiles[k].type
              /\ e.tiles[k].node = d.tiles[k].node /\ e.tiles[k].bound = d.tiles[k].bound
              /\ e.tiles[k].uid = IF d.tiles[k].type = "folder" /\ d.tiles[k].uid = None THEN k ELSE d.tiles[k].uid
    BY <2>1, MarshalIs
  <2> HIDE DEF e
  <2>3. brd2[g].doc = e
    BY <1>3 DEF e, d
  <2> QED BY <2>2, <2>3 DEF d
<1> QED BY <1>1, <1>2, <1>3, <1>4 DEF RowsOK

LEMMA RowIs ==
  ASSUME NEW B, NEW n, NEW brd, NEW C, NEW m, NEW docs, NEW gone, Write(B, n, brd, C, m, docs, gone),
         BoardsFit(B, n, brd), Sound(B, brd), NEW brd2, brd2 = Rows(brd, docs, gone, n)
  PROVE  /\ BoardsFit(C, m, brd2)
         /\ \A g \in DOMAIN brd2 : IsValid(brd2[g].doc)
         /\ \A g \in DOMAIN brd2 : \A k \in Ids(brd2[g].doc) : Row(brd, docs, gone, C, brd2, g, k) /\ Stays(brd, docs, gone, k)
<1>0. RowsOK(brd, docs, gone, n, brd2)
  BY RowsAre
<1>1. /\ DOMAIN brd2 = (DOMAIN brd \union DOMAIN docs) \ gone
      /\ \A g \in DOMAIN brd2 : g \notin DOMAIN docs => ~Touched(docs, gone, g) /\ g \in DOMAIN brd /\ brd2[g] = brd[g]
  BY <1>0 DEF RowsOK
<1>2. ASSUME NEW g \in DOMAIN docs
      PROVE   /\ g \in DOMAIN brd2
              /\ brd2[g].doc \in DocSet /\ SameShape(docs[g], brd2[g].doc)
              /\ brd2[g].ver = IF g \in DOMAIN brd THEN brd[g].ver + 1 ELSE 1
              /\ \A k \in Ids(docs[g]) :
                   /\ What(brd2[g].doc.tiles[k]) = What(docs[g].tiles[k])
                   /\ brd2[g].doc.tiles[k].type = docs[g].tiles[k].type
                   /\ brd2[g].doc.tiles[k].uid =
                        IF docs[g].tiles[k].type = "folder" /\ docs[g].tiles[k].uid = None THEN k ELSE docs[g].tiles[k].uid
  BY <1>0 DEF RowsOK
<1>3. n \in Nat /\ m \in Nat /\ n <= m /\ n < m /\ \A k \in Nat : k < n => C[k] = B[k]
  BY DEF Write
<1>4. BoardsFit(C, m, brd2)
  <2>1. Default \in DOMAIN brd2
    BY <1>1 DEF Write, BoardsFit
  <2>2. ASSUME NEW g \in DOMAIN brd2
        PROVE g \in Nat \ {0} /\ g < m /\ brd2[g].ver \in Nat \ {0} /\ Fit(brd2[g].doc, C, m)
    <3>1. CASE g \notin DOMAIN docs
      <4>1. /\ g \in Nat \ {0} /\ g < n /\ brd2[g].ver \in Nat \ {0} /\ Fit(brd2[g].doc, B, n)
        BY <1>1, <3>1 DEF BoardsFit
      <4> QED BY <1>3, <4>1, FitLater
    <3>2. CASE g \in DOMAIN docs
      <4>1. g \in Nat \ {0} /\ g < m /\ brd2[g].ver \in Nat \ {0}
        <5>1. g \in DOMAIN brd \/ g = n
          BY <3>2 DEF Write
        <5>2. n # 0
          BY <1>3 DEF BoardsFit, Default
        <5>3. CASE g \in DOMAIN brd
          BY <1>2, <1>3, <3>2, <5>3 DEF BoardsFit
        <5>4. CASE g \notin DOMAIN brd
          BY <1>2, <1>3, <3>2, <5>1, <5>2, <5>4
        <5> QED BY <5>3, <5>4
      <4>2. Ids(brd2[g].doc) = Ids(docs[g])
        BY <1>2, <3>2 DEF SameShape
      <4>3. Fit(docs[g], C, m)
        BY <3>2 DEF Write
      <4> QED BY <1>2, <3>2, <4>1, <4>2, <4>3 DEF Fit
    <3> QED BY <3>1, <3>2
  <2> QED BY <2>1, <2>2 DEF BoardsFit
<1>5. ASSUME NEW g \in DOMAIN brd2 PROVE IsValid(brd2[g].doc)
  <2>1. CASE g \notin DOMAIN docs
    BY <1>1, <2>1 DEF Sound
  <2>2. CASE g \in DOMAIN docs
    <3>1. docs[g] \in DocSet /\ IsValid(docs[g]) /\ brd2[g].doc \in DocSet /\ SameShape(docs[g], brd2[g].doc)
      BY <1>2, <2>2 DEF Write, Fit
    <3> QED BY <3>1, ShapeValid
  <2> QED BY <2>1, <2>2
<1>6. ASSUME NEW g \in DOMAIN brd2, NEW k \in Ids(brd2[g].doc)
      PROVE Row(brd, docs, gone, C, brd2, g, k) /\ Stays(brd, docs, gone, k)
  <2>1. CASE g \notin DOMAIN docs
    <3>1. ~Touched(docs, gone, g) /\ g \in DOMAIN brd /\ brd2[g] = brd[g] /\ k \in Ids(brd[g].doc)
      BY <1>1, <2>1
    <3>2. /\ k \in Ids(brd[g].doc) /\ brd2[g].doc.tiles[k].type = brd[g].doc.tiles[k].type
          /\ brd2[g].doc.tiles[k].type = "folder" => brd2[g].doc.tiles[k].uid = brd[g].doc.tiles[k].uid
          /\ (g = g /\ ~Touched(docs, gone, g)) \/ (Touched(docs, gone, g) /\ g \in DOMAIN docs)
      BY <3>1
    <3>4. Row(brd, docs, gone, C, brd2, g, k)
      BY <3>1, <3>2 DEF Row
    <3>3. Stays(brd, docs, gone, k)
      BY <3>1 DEF Stays
    <3> QED BY <3>4, <3>3
  <2>2. CASE g \in DOMAIN docs
    <3> DEFINE t == docs[g].tiles[k]
               u == brd2[g].doc.tiles[k]
    <3>1. k \in Ids(docs[g])
      BY <1>2, <2>2 DEF SameShape
    <3>2. What(u) = What(t) /\ u.type = t.type /\ u.uid = IF t.type = "folder" /\ t.uid = None THEN k ELSE t.uid
      BY <1>2, <2>2, <3>1
    <3>3. C[k] = What(t) /\ k \in Nat
      BY <2>2, <3>1, DocIs DEF Write, Fit
    <3>4. Stays(brd, docs, gone, k)
      BY <2>2, <3>1 DEF Stays
    <3>5. Kept1(brd, docs, gone, k, t) \/ New1(brd, docs, gone, C, k, t)
      BY <2>2, <3>1 DEF Write
    <3> HIDE DEF t
    <3>6. CASE Kept1(brd, docs, gone, k, t)
      <4>1. PICK b \in DOMAIN brd : /\ Touched(docs, gone, b) /\ k \in Ids(brd[b].doc)
                                    /\ t.type = "folder" => t.uid = brd[b].doc.tiles[k].uid
        BY <3>6 DEF Kept1
      <4>2. B[k] = What(brd[b].doc.tiles[k]) /\ k < n
        BY <4>1 DEF BoardsFit, Fit
      <4>3. What(t) = What(brd[b].doc.tiles[k])
        BY <1>3, <3>3, <4>2
      <4>4. t.type = brd[b].doc.tiles[k].type
        BY <4>3 DEF What
      <4>5. t.type = "folder" => brd[b].doc.tiles[k].uid \in {k, -1}
        BY <4>1, <4>4 DEF Sound, OfType
      <4>6. k # None /\ -1 # None
        BY <4>1, DocIs DEF None, BoardsFit, Fit
      <4>7. u.type = "folder" => u.uid = brd[b].doc.tiles[k].uid
        BY <3>2, <4>1, <4>5, <4>6
      <4> HIDE DEF u
      <4>8. /\ k \in Ids(brd[b].doc) /\ u.type = brd[b].doc.tiles[k].type
            /\ u.type = "folder" => u.uid = brd[b].doc.tiles[k].uid
            /\ Touched(docs, gone, b) /\ g \in DOMAIN docs
        BY <2>2, <3>2, <4>1, <4>4, <4>7
      <4> QED BY <3>4, <4>8 DEF Row, u
    <3>7. CASE New1(brd, docs, gone, C, k, t)
      <4> HIDE DEF u
      <4>1. u.type = "folder" => u.uid = IF t.uid = None THEN k ELSE t.uid
        BY <3>2
      <4> QED BY <2>2, <3>2, <3>4, <3>7, <4>1 DEF Row, New1, u
    <3> QED BY <3>5, <3>6, <3>7
  <2> QED BY <2>1, <2>2
<1> QED BY <1>4, <1>5, <1>6

\* Sound boards are sound after a write.
LEMMA SoundAfter ==
  ASSUME NEW B, NEW n, NEW brd, NEW C, NEW m, NEW docs, NEW gone, Write(B, n, brd, C, m, docs, gone),
         BoardsFit(B, n, brd), Sound(B, brd), NEW brd2, brd2 = Rows(brd, docs, gone, n)
  PROVE  Sound(C, brd2)
<1>0. RowsOK(brd, docs, gone, n, brd2)
  BY RowsAre
<1>1. /\ BoardsFit(C, m, brd2)
      /\ \A g \in DOMAIN brd2 : IsValid(brd2[g].doc)
      /\ \A g \in DOMAIN brd2 : \A k \in Ids(brd2[g].doc) : Row(brd, docs, gone, C, brd2, g, k) /\ Stays(brd, docs, gone, k)
  BY RowIs
<1>2. /\ \A g, b \in DOMAIN brd : \A k \in Ids(brd[g].doc) : k \in Ids(brd[b].doc) => g = b
      /\ \A k, l \in AllOf(brd) : B[k] = B[l] /\ B[k][1] \in {"terminal", "viewer"} => k = l
      /\ \A g \in DOMAIN brd : \A k \in OfType(brd[g].doc, "folder") : brd[g].doc.tiles[k].uid \in {k, -1}
      /\ \A g, b \in DOMAIN brd : \A k \in OfType(brd[g].doc, "folder"), l \in OfType(brd[b].doc, "folder") :
           brd[g].doc.tiles[k].uid = -1 /\ brd[b].doc.tiles[l].uid = -1 => k = l
  BY DEF Sound
<1>3. n \in Nat /\ \A k \in Nat : k < n => C[k] = B[k]
  BY DEF Write
<1>4. \A b \in DOMAIN brd : \A k \in Ids(brd[b].doc) : k \in AllOf(brd) /\ k \in Nat /\ k < n /\ C[k] = B[k]
  <2> SUFFICES ASSUME NEW b \in DOMAIN brd, NEW k \in Ids(brd[b].doc)
               PROVE k \in AllOf(brd) /\ k \in Nat /\ k < n /\ C[k] = B[k]
    OBVIOUS
  <2>1. Fit(brd[b].doc, B, n)
    BY DEF BoardsFit
  <2>2. k \in Nat /\ k < n
    BY <2>1, DocIs DEF Fit
  <2> QED BY <1>3, <2>2 DEF AllOf
<1>5. ASSUME NEW g \in DOMAIN brd2, NEW b \in DOMAIN brd2, NEW k \in Ids(brd2[g].doc), k \in Ids(brd2[b].doc) PROVE g = b
  <2>1. Row(brd, docs, gone, C, brd2, g, k) /\ Row(brd, docs, gone, C, brd2, b, k)
    BY <1>1, <1>5
  <2>2. CASE g \in DOMAIN docs /\ b \in DOMAIN docs
    <3>1. k \in Ids(docs[g]) /\ k \in Ids(docs[b])
      BY <1>0, <1>5, <2>2 DEF RowsOK, SameShape
    <3> QED BY <2>2, <3>1 DEF Write
  <2>3. ASSUME NEW c \in DOMAIN brd2, NEW a \in DOMAIN brd2, c \notin DOMAIN docs, k \in Ids(brd2[c].doc), k \in Ids(brd2[a].doc)
        PROVE  c = a
    <3>1. ~Touched(docs, gone, c) /\ c \in DOMAIN brd /\ k \in Ids(brd[c].doc)
      BY <1>0, <2>3 DEF RowsOK
    <3>2. k \in AllOf(brd)
      BY <1>4, <3>1
    <3>3. Row(brd, docs, gone, C, brd2, a, k)
      BY <1>1, <2>3
    <3>4. PICK a0 \in DOMAIN brd : /\ k \in Ids(brd[a0].doc)
                                   /\ (a0 = a /\ ~Touched(docs, gone, a)) \/ (Touched(docs, gone, a0) /\ a \in DOMAIN docs)
      BY <3>2, <3>3 DEF Row
    <3>5. a0 = c
      BY <1>2, <3>1, <3>4
    <3> QED BY <3>1, <3>4, <3>5
  <2> QED BY <1>5, <2>2, <2>3
<1>6. ASSUME NEW g \in DOMAIN brd2, NEW k \in Ids(brd2[g].doc), brd2[g].doc.tiles[k].type = "folder"
      PROVE  brd2[g].doc.tiles[k].uid \in {k, -1}
  <2>1. Row(brd, docs, gone, C, brd2, g, k)
    BY <1>1
  <2>2. \A b \in DOMAIN brd : k \in Ids(brd[b].doc) /\ brd[b].doc.tiles[k].type = "folder" => brd[b].doc.tiles[k].uid \in {k, -1}
    BY <1>2 DEF OfType
  <2> QED BY <1>6, <2>1, <2>2 DEF Row
<1>7. ASSUME NEW g \in DOMAIN brd2, NEW b \in DOMAIN brd2, NEW k \in Ids(brd2[g].doc), NEW l \in Ids(brd2[b].doc),
             brd2[g].doc.tiles[k].type = "folder", brd2[b].doc.tiles[l].type = "folder",
             brd2[g].doc.tiles[k].uid = -1, brd2[b].doc.tiles[l].uid = -1
      PROVE  k = l
  <2>0. k \in Nat /\ l \in Nat /\ k # -1 /\ l # -1
    <3>1. Fit(brd2[g].doc, C, m) /\ Fit(brd2[b].doc, C, m)
      BY <1>1 DEF BoardsFit
    <3> QED BY <3>1, DocIs DEF Fit
  <2> DEFINE Old(k2) == \E a \in DOMAIN brd : k2 \in OfType(brd[a].doc, "folder") /\ brd[a].doc.tiles[k2].uid = -1
             New2(c, k2) ==
               /\ c \in DOMAIN docs
               /\ \A a \in DOMAIN brd : \A j \in OfType(brd[a].doc, "folder") : brd[a].doc.tiles[j].uid # -1
               /\ \A a \in DOMAIN docs : \A j \in OfType(docs[a], "folder") : docs[a].tiles[j].uid = -1 => j = k2
  <2>1. ASSUME NEW c \in DOMAIN brd2, NEW j \in Ids(brd2[c].doc), brd2[c].doc.tiles[j].type = "folder",
               brd2[c].doc.tiles[j].uid = -1, j # -1
        PROVE Old(j) \/ New2(c, j)
    <3>1. Row(brd, docs, gone, C, brd2, c, j)
      BY <1>1
    <3> QED BY <2>1, <3>1 DEF Row, OfType
  <2>2. ASSUME NEW c \in DOMAIN docs, NEW j \in Ids(brd2[c].doc), brd2[c].doc.tiles[j].type = "folder",
               brd2[c].doc.tiles[j].uid = -1, j # -1
        PROVE j \in OfType(docs[c], "folder") /\ docs[c].tiles[j].uid = -1
    BY <1>0, <2>2 DEF RowsOK, SameShape, OfType
  <2>3. Old(k) \/ New2(g, k)
    BY <1>7, <2>0, <2>1
  <2>4. Old(l) \/ New2(b, l)
    BY <1>7, <2>0, <2>1
  <2>5. CASE Old(k) /\ Old(l)
    BY <1>2, <2>5
  <2>6. CASE New2(g, k) /\ New2(b, l)
    <3>1. l \in OfType(docs[b], "folder") /\ docs[b].tiles[l].uid = -1
      BY <1>7, <2>0, <2>2, <2>6
    <3> QED BY <2>6, <3>1
  <2> QED BY <2>3, <2>4, <2>5, <2>6
<1>8. ASSUME NEW k \in AllOf(brd2), NEW l \in AllOf(brd2), C[k] = C[l], C[k][1] \in {"terminal", "viewer"} PROVE k = l
  <2> DEFINE New3(k2) == /\ k2 \notin AllOf(brd)
                         /\ \A j : Stays(brd, docs, gone, j) /\ C[j] = C[k2] => j = k2
  <2>1. ASSUME NEW j \in AllOf(brd2), C[j][1] \in {"terminal", "viewer"}
        PROVE  /\ Stays(brd, docs, gone, j)
               /\ (j \in AllOf(brd) /\ C[j] = B[j]) \/ New3(j)
    <3>1. PICK g \in DOMAIN brd2 : j \in Ids(brd2[g].doc)
      BY DEF AllOf
    <3>2. Row(brd, docs, gone, C, brd2, g, j) /\ Stays(brd, docs, gone, j)
      BY <1>1, <3>1
    <3>3. C[j] = What(brd2[g].doc.tiles[j])
      BY <1>1, <3>1 DEF BoardsFit, Fit
    <3>4. brd2[g].doc.tiles[j].type \in {"terminal", "viewer"}
      BY <2>1, <3>3 DEF What
    <3>5. CASE \E b \in DOMAIN brd : j \in Ids(brd[b].doc)
      BY <1>4, <3>2, <3>5
    <3>6. CASE ~\E b \in DOMAIN brd : j \in Ids(brd[b].doc)
      <4>1. New3(j)
        BY <3>2, <3>4, <3>6 DEF Row
      <4> QED BY <3>2, <4>1
    <3> QED BY <3>5, <3>6
  <2>2. /\ Stays(brd, docs, gone, k) /\ Stays(brd, docs, gone, l)
        /\ (k \in AllOf(brd) /\ C[k] = B[k]) \/ New3(k)
        /\ (l \in AllOf(brd) /\ C[l] = B[l]) \/ New3(l)
    BY <1>8, <2>1
  <2>3. CASE New3(k)
    BY <1>8, <2>2, <2>3
  <2>4. CASE New3(l)
    BY <1>8, <2>2, <2>4
  <2>5. CASE (k \in AllOf(brd) /\ C[k] = B[k]) /\ (l \in AllOf(brd) /\ C[l] = B[l])
    BY <1>2, <1>8, <2>5
  <2> QED BY <2>2, <2>3, <2>4, <2>5
<1> QED BY <1>1, <1>5, <1>6, <1>7, <1>8 DEF Sound, OfType

\* No write but the one of bindTile gives a pin.
PinsKept(brd, docs, gone) ==
  \A g \in DOMAIN docs : \A k \in OfType(docs[g], "folder") : docs[g].tiles[k].bound =>
    \E b \in DOMAIN brd : /\ k \in OfType(brd[b].doc, "folder") /\ brd[b].doc.tiles[k].bound
                          /\ brd[b].doc.tiles[k].node = docs[g].tiles[k].node

LEMMA PinsAfter ==
  ASSUME NEW brd, NEW docs, NEW gone, NEW n, NEW brd2, RowsOK(brd, docs, gone, n, brd2),
         PinsOnce(brd), PinsKept(brd, docs, gone)
  PROVE  PinsOnce(brd2)
<1> DEFINE Old(g, k) == \E b \in DOMAIN brd : /\ k \in OfType(brd[b].doc, "folder") /\ brd[b].doc.tiles[k].bound
                                              /\ brd[b].doc.tiles[k].node = brd2[g].doc.tiles[k].node
<1>1. ASSUME NEW g \in DOMAIN brd2, NEW k \in OfType(brd2[g].doc, "folder"), brd2[g].doc.tiles[k].bound
      PROVE  Old(g, k)
  <2>1. CASE g \notin DOMAIN docs
    BY <1>1, <2>1 DEF RowsOK
  <2>2. CASE g \in DOMAIN docs
    <3>1. k \in OfType(docs[g], "folder") /\ docs[g].tiles[k].bound /\ docs[g].tiles[k].node = brd2[g].doc.tiles[k].node
      BY <1>1, <2>2 DEF RowsOK, SameShape, OfType
    <3> QED BY <2>2, <3>1 DEF PinsKept
  <2> QED BY <2>1, <2>2
<1> SUFFICES ASSUME NEW g \in DOMAIN brd2, NEW b \in DOMAIN brd2,
                    NEW k \in OfType(brd2[g].doc, "folder"), NEW l \in OfType(brd2[b].doc, "folder"),
                    brd2[g].doc.tiles[k].node = brd2[b].doc.tiles[l].node,
                    brd2[g].doc.tiles[k].bound, brd2[b].doc.tiles[l].bound
             PROVE k = l
  BY DEF PinsOnce
<1>2. Old(g, k) /\ Old(b, l)
  BY <1>1
<1> QED BY <1>2 DEF PinsOnce

\* What becomes of the processes on the boards.
UidsGo(brd, docs, gone, brd2) ==
  /\ \A g \in DOMAIN docs : TerminalUIDs(docs[g]) \subseteq UidsOn(brd2)
  /\ \A p \in UidsOn(brd2) : \/ p \in UidsOn(brd)
                             \/ \E g \in DOMAIN docs : \E k \in OfType(docs[g], "terminal") :
                                  k \notin AllOf(brd) /\ docs[g].tiles[k].uid = p
  /\ \A p \in UidsOn(brd) : \/ p \in UidsOn(brd2)
                            \/ \E b \in DOMAIN brd : \E k \in OfType(brd[b].doc, "terminal") :
                                 /\ brd[b].doc.tiles[k].uid = p /\ Touched(docs, gone, b)
                                 /\ \A g \in DOMAIN docs : k \notin Ids(docs[g])

LEMMA UidsHas ==
  ASSUME NEW d, NEW p
  PROVE  p \in TerminalUIDs(d) <=> \E k \in OfType(d, "terminal") : d.tiles[k].uid = p
<1> QED BY DEF TerminalUIDs

LEMMA UidsOnHas ==
  ASSUME NEW brd, NEW p
  PROVE  p \in UidsOn(brd) <=> \E g \in DOMAIN brd : \E k \in OfType(brd[g].doc, "terminal") : brd[g].doc.tiles[k].uid = p
<1>1. p \in UidsOn(brd) <=> \E g \in DOMAIN brd : p \in TerminalUIDs(brd[g].doc)
  BY DEF UidsOn
<1> QED BY <1>1, UidsHas

\* A process comes onto the boards with a new tile, and leaves them with a removed one.
LEMMA UidsAfter ==
  ASSUME NEW B, NEW n, NEW brd, NEW C, NEW m, NEW docs, NEW gone, Write(B, n, brd, C, m, docs, gone),
         BoardsFit(B, n, brd), NEW brd2, RowsOK(brd, docs, gone, n, brd2)
  PROVE  UidsGo(brd, docs, gone, brd2)
<1>1. ASSUME NEW g \in DOMAIN docs, NEW p \in TerminalUIDs(docs[g]) PROVE p \in UidsOn(brd2)
  <2>1. PICK k \in OfType(docs[g], "terminal") : docs[g].tiles[k].uid = p
    BY UidsHas
  <2>2. g \in DOMAIN brd2 /\ k \in OfType(brd2[g].doc, "terminal") /\ brd2[g].doc.tiles[k].uid = p
    BY <2>1 DEF RowsOK, SameShape, OfType
  <2> QED BY <2>2, UidsOnHas
<1>2. ASSUME NEW b \in DOMAIN brd, NEW k \in Ids(brd[b].doc), NEW g \in DOMAIN docs, k \in Ids(docs[g])
      PROVE  /\ docs[g].tiles[k].type = brd[b].doc.tiles[k].type
             /\ docs[g].tiles[k].type = "terminal" => docs[g].tiles[k].uid = brd[b].doc.tiles[k].uid
  <2>1. Fit(brd[b].doc, B, n) /\ Fit(docs[g], C, m)
    BY DEF BoardsFit, Write
  <2>2. k \in Nat /\ k < n /\ B[k] = What(brd[b].doc.tiles[k]) /\ C[k] = What(docs[g].tiles[k])
    BY <1>2, <2>1, DocIs DEF Fit
  <2>3. What(brd[b].doc.tiles[k]) = What(docs[g].tiles[k])
    BY <2>2 DEF Write
  <2> QED BY <2>3 DEF What
<1>3. ASSUME NEW p \in UidsOn(brd2), p \notin UidsOn(brd)
      PROVE \E g \in DOMAIN docs : \E k \in OfType(docs[g], "terminal") : k \notin AllOf(brd) /\ docs[g].tiles[k].uid = p
  <2>1. PICK g \in DOMAIN brd2 : \E k \in OfType(brd2[g].doc, "terminal") : brd2[g].doc.tiles[k].uid = p
    BY UidsOnHas
  <2>2. PICK k \in OfType(brd2[g].doc, "terminal") : brd2[g].doc.tiles[k].uid = p
    BY <2>1
  <2>3. g \in DOMAIN docs
    BY <1>3, <2>2, UidsOnHas DEF RowsOK
  <2>4. k \in OfType(docs[g], "terminal") /\ docs[g].tiles[k].uid = p
    BY <2>2, <2>3 DEF RowsOK, SameShape, OfType
  <2>5. ASSUME k \in AllOf(brd) PROVE FALSE
    <3>1. PICK b \in DOMAIN brd : k \in Ids(brd[b].doc)
      BY <2>5 DEF AllOf
    <3>2. brd[b].doc.tiles[k].type = "terminal" /\ brd[b].doc.tiles[k].uid = p
      BY <1>2, <2>3, <2>4, <3>1 DEF OfType
    <3> QED BY <1>3, <3>1, <3>2, UidsOnHas DEF OfType
  <2> QED BY <2>3, <2>4, <2>5
<1>4. ASSUME NEW p \in UidsOn(brd), p \notin UidsOn(brd2)
      PROVE \E b \in DOMAIN brd : \E k \in OfType(brd[b].doc, "terminal") :
                                 /\ brd[b].doc.tiles[k].uid = p /\ Touched(docs, gone, b)
                                 /\ \A g \in DOMAIN docs : k \notin Ids(docs[g])
  <2>1. PICK b \in DOMAIN brd : \E k \in OfType(brd[b].doc, "terminal") : brd[b].doc.tiles[k].uid = p
    BY UidsOnHas
  <2>2. PICK k \in OfType(brd[b].doc, "terminal") : brd[b].doc.tiles[k].uid = p
    BY <2>1
  <2>3. Touched(docs, gone, b)
    BY <1>4, <2>2, UidsOnHas DEF RowsOK, Touched
  <2>4. ASSUME NEW g \in DOMAIN docs, k \in Ids(docs[g]) PROVE FALSE
    <3>1. docs[g].tiles[k].type = "terminal" /\ docs[g].tiles[k].uid = p
      BY <1>2, <2>2, <2>4 DEF OfType
    <3>2. p \in TerminalUIDs(docs[g])
      BY <2>4, <3>1, UidsHas DEF OfType
    <3> QED BY <1>1, <1>4, <3>2
  <2> QED BY <2>2, <2>3, <2>4
<1> QED BY <1>1, <1>3, <1>4 DEF UidsGo

\* The history with what was written.
HistTo(H, docs, brd2) ==
  [x \in Nat \X Nat |-> IF x[1] \in DOMAIN docs /\ x[2] = brd2[x[1]].ver THEN brd2[x[1]].doc ELSE H[x]]

LEMMA HistAfter ==
  ASSUME NEW B, NEW H, NEW n, NEW brd, NEW C, NEW m, NEW docs, NEW gone, Write(B, n, brd, C, m, docs, gone),
         BoardsFit(B, n, brd), HistFits(B, H, n, brd), NEW brd2, RowsOK(brd, docs, gone, n, brd2), BoardsFit(C, m, brd2)
  PROVE  /\ HistFits(C, HistTo(H, docs, brd2), m, brd2)
         /\ Later(B, H, n, brd, C, HistTo(H, docs, brd2), m, brd2)
<1> DEFINE K == HistTo(H, docs, brd2)
<1>1. /\ n \in Nat /\ m \in Nat /\ n <= m /\ \A k \in Nat : k < n => C[k] = B[k]
      /\ DOMAIN docs \subseteq DOMAIN brd \union {n}
      /\ DOMAIN brd2 = (DOMAIN brd \union DOMAIN docs) \ gone
      /\ \A g \in DOMAIN brd2 : g \notin DOMAIN docs => ~Touched(docs, gone, g) /\ g \in DOMAIN brd /\ brd2[g] = brd[g]
      /\ \A g \in DOMAIN docs : g \in DOMAIN brd2 /\ brd2[g].ver = IF g \in DOMAIN brd THEN brd[g].ver + 1 ELSE 1
  BY DEF Write, RowsOK
<1>2. /\ \A g \in DOMAIN brd : g \in Nat /\ g < n /\ brd[g].ver \in Nat
      /\ \A g \in DOMAIN brd2 : g \in Nat /\ brd2[g].ver \in Nat /\ Fit(brd2[g].doc, C, m)
  BY DEF BoardsFit
<1>3. \A g, v \in Nat : K[<<g, v>>] = IF g \in DOMAIN docs /\ v = brd2[g].ver THEN brd2[g].doc ELSE H[<<g, v>>]
  BY DEF HistTo
<1> HIDE DEF K
<1>4. ASSUME NEW g \in Nat, NEW v \in Nat PROVE Fit(K[<<g, v>>], C, m)
  <2>1. CASE g \in DOMAIN docs /\ v = brd2[g].ver
    BY <1>1, <1>2, <1>3, <2>1
  <2>2. CASE ~(g \in DOMAIN docs /\ v = brd2[g].ver)
    <3>1. Fit(H[<<g, v>>], B, n)
      BY DEF HistFits
    <3>2. Fit(H[<<g, v>>], C, m)
      BY <1>1, <3>1, FitLater
    <3> QED BY <1>3, <2>2, <3>2
  <2> QED BY <2>1, <2>2
<1>5. ASSUME NEW g \in DOMAIN brd2 PROVE K[<<g, brd2[g].ver>>] = brd2[g].doc
  <2>1. CASE g \in DOMAIN docs
    BY <1>2, <1>3, <2>1
  <2>2. CASE g \notin DOMAIN docs
    <3>1. g \in DOMAIN brd /\ brd2[g] = brd[g] /\ g \in Nat /\ brd2[g].ver \in Nat
      BY <1>1, <1>2, <2>2
    <3>2. H[<<g, brd[g].ver>>] = brd[g].doc
      BY <3>1 DEF HistFits
    <3> QED BY <1>3, <2>2, <3>1, <3>2
  <2> QED BY <2>1, <2>2
<1>6. ASSUME NEW g \in DOMAIN brd2, g < n PROVE g \in DOMAIN brd /\ brd[g].ver <= brd2[g].ver
  <2>1. CASE g \in DOMAIN docs
    <3>1. g \in DOMAIN brd
      BY <1>1, <1>6, <2>1
    <3> QED BY <1>1, <1>2, <2>1, <3>1
  <2>2. CASE g \notin DOMAIN docs
    BY <1>1, <1>2, <2>2
  <2> QED BY <2>1, <2>2
<1>7. ASSUME NEW g \in Nat, NEW v \in Nat, g < n, g \in DOMAIN brd => v <= brd[g].ver
      PROVE  K[<<g, v>>] = H[<<g, v>>]
  <2>1. ASSUME g \in DOMAIN docs PROVE v # brd2[g].ver
    <3>1. g \in DOMAIN brd
      BY <1>1, <1>7, <2>1
    <3> QED BY <1>1, <1>2, <1>7, <2>1, <3>1
  <2> QED BY <1>3, <2>1
<1> QED BY <1>1, <1>2, <1>4, <1>5, <1>6, <1>7 DEF HistFits, Later, K

LEMMA OpensFit ==
  ASSUME NEW E, NEW B, NEW n, \A e \in E : EditFits(e, B, n)
  PROVE  /\ \A k \in OpenIds(E) : k \in Nat \ {0} /\ k < n /\ B[k] = <<"folder", None>>
         /\ \A k \in ServerIds(E) : k \in Nat /\ k < n
<1>1. ASSUME NEW k \in OpenIds(E) PROVE k \in Nat \ {0} /\ k < n /\ B[k] = <<"folder", None>>
  <2>1. PICK e \in E : e.do = "open" /\ k = e.n
    BY DEF OpenIds
  <2> QED BY <2>1 DEF EditFits, EditSet
<1>2. ASSUME NEW k \in ServerIds(E) PROVE k \in Nat /\ k < n
  <2>1. PICK e \in E : e.do = "server" /\ k = e.id
    BY DEF ServerIds
  <2> QED BY <2>1 DEF EditFits, EditSet
<1> QED BY <1>1, <1>2

\* The ids of tiles that are made are above all before.
Fresh(n, brd, docs) == \A g \in DOMAIN docs : \A k \in Ids(docs[g]) : k \notin AllOf(brd) => ~(k < n)

\* Of a board the tab has edited and not saved, no folder is moved to another.
KeptOn(B, brd, docs, f) ==
  \A b \in DOMAIN docs \ {f} : \A k \in Ids(docs[b]) : k \in Ids(brd[f].doc) => B[k][1] # "folder"

\* A write moves no folder a tab has yet to save to another board.
LEMMA ElseAfter ==
  ASSUME NEW B, NEW n, NEW brd, NEW C, NEW m, NEW docs, NEW gone, Write(B, n, brd, C, m, docs, gone),
         BoardsFit(B, n, brd), Sound(B, brd), NEW brd2, RowsOK(brd, docs, gone, n, brd2), Fresh(n, brd, docs),
         NEW E, NEW f, \A e \in E : EditFits(e, B, n), f \in DOMAIN brd2, f \in DOMAIN brd, Elsewhere(E, f, brd),
         f \in DOMAIN docs => OpenIds(E) \intersect Ids(brd[f].doc) = {} \/ KeptOn(B, brd, docs, f)
  PROVE  Elsewhere(E, f, brd2)
<1> SUFFICES ASSUME NEW b \in DOMAIN brd2, b # f, NEW k \in OpenIds(E), k \in Ids(brd2[b].doc) PROVE FALSE
  BY DEF Elsewhere
<1>1. k \in Nat /\ k < n /\ B[k] = <<"folder", None>>
  BY OpensFit
<1>2. CASE b \notin DOMAIN docs
  <2>1. b \in DOMAIN brd /\ k \in Ids(brd[b].doc)
    BY <1>2 DEF RowsOK
  <2> QED BY <2>1 DEF Elsewhere
<1>3. CASE b \in DOMAIN docs
  <2>1. k \in Ids(docs[b])
    BY <1>3 DEF RowsOK, SameShape
  <2>2. k \in AllOf(brd)
    BY <1>1, <1>3, <2>1 DEF Fresh
  <2>3. \A a \in DOMAIN brd : k \in Ids(brd[a].doc) => a = f
    BY DEF Elsewhere
  <2>4. Kept1(brd, docs, gone, k, docs[b].tiles[k])
    BY <1>3, <2>1, <2>2 DEF Write, New1
  <2>5. PICK a \in DOMAIN brd : Touched(docs, gone, a) /\ k \in Ids(brd[a].doc)
    BY <2>4 DEF Kept1
  <2>6. Touched(docs, gone, f) /\ k \in Ids(brd[f].doc)
    BY <2>3, <2>5
  <2>7. f \in DOMAIN docs
    BY <2>6 DEF Touched, RowsOK
  <2>8. CASE OpenIds(E) \intersect Ids(brd[f].doc) = {}
    BY <2>6, <2>8
  <2>9. CASE KeptOn(B, brd, docs, f)
    BY <1>1, <1>3, <2>1, <2>6, <2>9 DEF KeptOn
  <2> QED BY <2>7, <2>8, <2>9
<1> QED BY <1>2, <1>3

\* The boards, the tab and the requests, against each other.
ThreadsOK(B, H, n, brd, t, rq) == \A h \in Threads : ThreadOK(B, H, n, brd, t, rq[h])

\* Part one of the invariant: what boards, tab and requests know of each other.
World(B, H, n, brd, t, rq) ==
  /\ n \in Nat /\ BoardsFit(B, n, brd) /\ HistFits(B, H, n, brd) /\ Sound(B, brd) /\ PinsOnce(brd)
  /\ TabFits(B, n, t) /\ TabOK(H, brd, t)
  /\ ThreadsOK(B, H, n, brd, t, rq) /\ Distinct(rq, t)

\* What the answer of exec and openVideoTile tells of the tile it made.
TellsNew(brd, docs, n, x) ==
  /\ x.hash \in DOMAIN docs /\ x.hash \in DOMAIN brd /\ x.ver = brd[x.hash].ver + 1
  /\ x.id = n /\ n \in Ids(docs[x.hash]) /\ x.tile = docs[x.hash].tiles[n] /\ x.tile.type \in {"terminal", "viewer"}
  /\ Ids(brd[x.hash].doc) \subseteq Ids(docs[x.hash])
  /\ OfType(docs[x.hash], "terminal") \subseteq Ids(brd[x.hash].doc) \union {n}

\* The tile of exec and openVideoTile is told as it was written.
LEMMA TellIs ==
  ASSUME NEW B, NEW H, NEW n, NEW brd, NEW C, NEW m, NEW docs, NEW gone, Write(B, n, brd, C, m, docs, gone),
         BoardsFit(B, n, brd), NEW brd2, RowsOK(brd, docs, gone, n, brd2), BoardsFit(C, m, brd2),
         NEW K, Later(B, H, n, brd, C, K, m, brd2), HistFits(B, H, n, brd), HistFits(C, K, m, brd2),
         NEW x, TellsNew(brd, docs, n, x)
  PROVE  TellOK(C, K, m, brd2, x)
<1>1. /\ n \in Nat /\ m \in Nat /\ n < m
      /\ x.hash \in DOMAIN docs /\ x.hash \in DOMAIN brd /\ x.ver = brd[x.hash].ver + 1
      /\ x.id = n /\ n \in Ids(docs[x.hash]) /\ x.tile = docs[x.hash].tiles[n]
  BY DEF TellsNew, Write
<1>2. x.hash \in Nat /\ x.hash < n /\ brd[x.hash].ver \in Nat \ {0} /\ x.hash < m
  BY <1>1 DEF BoardsFit
<1>3. x.ver \in Nat /\ x.ver > 1 /\ x.ver - 1 = brd[x.hash].ver
  BY <1>1, <1>2
<1>4. x.hash \in DOMAIN brd2 /\ brd2[x.hash].ver = x.ver /\ SameShape(docs[x.hash], brd2[x.hash].doc)
  BY <1>1 DEF RowsOK
<1>5. K[<<x.hash, x.ver>>] = brd2[x.hash].doc
  BY <1>4 DEF HistFits
<1>6. K[<<x.hash, x.ver - 1>>] = brd[x.hash].doc
  <2>1. H[<<x.hash, x.ver - 1>>] = brd[x.hash].doc
    BY <1>1, <1>3 DEF HistFits
  <2>2. x.ver - 1 \in Nat /\ x.ver - 1 <= brd[x.hash].ver
    BY <1>2, <1>3
  <2>3. K[<<x.hash, x.ver - 1>>] = H[<<x.hash, x.ver - 1>>]
    BY <1>2, <2>2 DEF Later
  <2> QED BY <2>1, <2>3
<1>7. Ids(brd2[x.hash].doc) = Ids(docs[x.hash]) /\ OfType(brd2[x.hash].doc, "terminal") = OfType(docs[x.hash], "terminal")
  BY <1>4 DEF SameShape, OfType
<1>8. Fit(docs[x.hash], C, m)
  BY <1>1 DEF Write
<1>9. x.tile \in TileSet /\ C[x.id] = What(x.tile) /\ x.id \in Nat \ {0}
  BY <1>1, <1>8, DocIs, TileIs DEF Fit
<1>10. /\ x.id \in Ids(brd2[x.hash].doc) /\ Ids(brd[x.hash].doc) \subseteq Ids(brd2[x.hash].doc)
       /\ OfType(brd2[x.hash].doc, "terminal") \subseteq Ids(brd[x.hash].doc) \union {x.id}
  BY <1>1, <1>7 DEF TellsNew
<1>11. x.ver <= brd2[x.hash].ver /\ x.id < m
  BY <1>1, <1>3, <1>4
<1>12. x.tile.type \in {"terminal", "viewer"}
  BY DEF TellsNew
<1> QED BY <1>2, <1>3, <1>5, <1>6, <1>9, <1>10, <1>11, <1>12 DEF TellOK

\* The requests of others, when rows are written.
LEMMA PutAside ==
  ASSUME NEW B, NEW H, NEW n, NEW brd, NEW C, NEW m, NEW docs, NEW gone, Write(B, n, brd, C, m, docs, gone),
         BoardsFit(B, n, brd), Sound(B, brd), NEW brd2, RowsOK(brd, docs, gone, n, brd2), Fresh(n, brd, docs),
         BoardsFit(C, m, brd2), NEW t, NEW r, PutOK(B, H, n, brd, t, r), r.hash \in DOMAIN brd2, r.ver = brd2[r.hash].ver
  PROVE  Elsewhere(r.sent, r.hash, brd2)
<1>1. r.hash \in Nat /\ r.hash < n /\ n \in Nat /\ DOMAIN docs \subseteq DOMAIN brd \union {n}
  BY DEF PutOK, Write
<1>2. r.hash \in DOMAIN brd
  BY <1>1 DEF RowsOK
<1>3. r.ver <= brd[r.hash].ver /\ brd[r.hash].ver \in Nat
  BY <1>2 DEF PutOK, BoardsFit
<1>4. r.hash \notin DOMAIN docs
  BY <1>2, <1>3 DEF RowsOK
<1>5. brd2[r.hash] = brd[r.hash]
  BY <1>4 DEF RowsOK
<1>6. Elsewhere(r.sent, r.hash, brd) /\ \A e \in r.sent : EditFits(e, B, n)
  BY <1>2, <1>5 DEF PutOK
<1> QED BY <1>2, <1>4, <1>6, ElseAfter

\* The tab is as right after a commit as before it.
LEMMA TabAfter ==
  ASSUME NEW B, NEW H, NEW n, NEW brd, NEW C, NEW m, NEW docs, NEW gone, Write(B, n, brd, C, m, docs, gone),
         BoardsFit(B, n, brd), Sound(B, brd), NEW brd2, RowsOK(brd, docs, gone, n, brd2), Fresh(n, brd, docs),
         NEW K, Later(B, H, n, brd, C, K, m, brd2), HistFits(B, H, n, brd),
         NEW t, TabFits(B, n, t), TabOK(H, brd, t),
         t.hash \in DOMAIN docs => t.hash \in DOMAIN brd /\ (t.ver = brd[t.hash].ver \/ KeptOn(B, brd, docs, t.hash))
  PROVE  TabOK(K, brd2, t)
<1>1. /\ t.hash \in Nat /\ t.hash < n /\ n \in Nat /\ m \in Nat /\ n <= m /\ t.ver \in Nat
      /\ \A e \in Pends(t) : EditFits(e, B, n)
  <2>1. /\ t.hash \in Nat /\ t.hash < n /\ t.ver \in Nat /\ t.pend \in Seq(EditSet)
        /\ \A i \in 1 .. Len(t.pend) : EditFits(t.pend[i], B, n)
    BY DEF TabFits, TabSet
  <2>2. \A e \in Pends(t) : \E i \in 1 .. Len(t.pend) : e = t.pend[i]
    BY <2>1 DEF Pends, ToSet
  <2> QED BY <2>1, <2>2 DEF Later
<1>2. t.hash \in DOMAIN brd => t.ver <= brd[t.hash].ver
  BY DEF TabOK
<1>3. K[<<t.hash, t.ver>>] = H[<<t.hash, t.ver>>]
  BY <1>1, <1>2 DEF Later
<1>4. ASSUME t.hash \in DOMAIN brd2 PROVE Explains(t.doc, K[<<t.hash, t.ver>>], Pends(t))
  <2>1. t.hash \in DOMAIN brd
    BY <1>1, <1>4 DEF Later
  <2> QED BY <1>3, <2>1 DEF TabOK
<1>5. ASSUME t.hash \in DOMAIN brd2 PROVE t.ver <= brd2[t.hash].ver /\ Elsewhere(Pends(t), t.hash, brd2)
  <2>1. t.hash \in DOMAIN brd /\ brd[t.hash].ver <= brd2[t.hash].ver /\ brd[t.hash].ver \in Nat /\ brd2[t.hash].ver \in Nat
    BY <1>1, <1>5 DEF Later
  <2>2. t.ver <= brd2[t.hash].ver
    BY <1>1, <1>2, <2>1
  <2>3. Elsewhere(Pends(t), t.hash, brd)
    BY <2>1 DEF TabOK
  <2>4. ASSUME t.ver = brd[t.hash].ver PROVE OpenIds(Pends(t)) \intersect Ids(brd[t.hash].doc) = {}
    <3>1. H[<<t.hash, t.ver>>] = brd[t.hash].doc
      BY <2>1, <2>4 DEF HistFits
    <3> QED BY <2>1, <3>1 DEF TabOK, Explains
  <2>5. Elsewhere(Pends(t), t.hash, brd2)
    BY <1>1, <1>5, <2>1, <2>3, <2>4, ElseAfter
  <2> QED BY <2>2, <2>5
<1> QED BY <1>4, <1>5 DEF TabOK

LEMMA ServersBelow ==
  ASSUME NEW B, NEW H, NEW n, NEW brd, NEW t, NEW r, ThreadOK(B, H, n, brd, t, r), PutLike(r)
  PROVE  \A k \in ServerIds(SentOf(r)) : k \in Nat /\ k < n
<1>1. \A e \in SentOf(r) : EditFits(e, B, n)
  <2>1. CASE r.step = "put"
    BY <2>1 DEF ThreadOK, PutOK, SentOf
  <2>2. CASE r.step = "publish"
    BY <2>2 DEF ThreadOK, AnswerOK, SentOf, PutLike
  <2>3. CASE r.step = "reply"
    BY <2>3 DEF ThreadOK, AnswerOK, SentOf, PutLike
  <2> QED BY <2>1, <2>2, <2>3 DEF PutLike
<1> QED BY <1>1, OpensFit

\* What a request that wrote rows leaves for the code after the commit.
Wrote(brd, docs, n, brd2, r) ==
  /\ r.step = "publish" /\ r.op # "put" /\ r.mine = (r.op \in {"exec", "video"})
  /\ DOMAIN r.saved = DOMAIN docs /\ \A g \in DOMAIN docs : r.saved[g] = brd2[g]
  /\ r.op \in {"exec", "video"} => TellsNew(brd, docs, n, r.reply)

\* A commit of a request that is not a save.
Commits(B, n, brd, t, C, m, docs, gone, brd2) ==
  /\ Write(B, n, brd, C, m, docs, gone) /\ Fresh(n, brd, docs) /\ brd2 = Rows(brd, docs, gone, n)
  /\ PinsOnce(brd2)
  /\ t.hash \in DOMAIN docs => t.hash \in DOMAIN brd /\ (t.ver = brd[t.hash].ver \/ KeptOn(B, brd, docs, t.hash))

\* Such a commit keeps part one of the invariant.
LEMMA CommitWorld ==
  ASSUME NEW B, NEW H, NEW n, NEW brd, NEW t, NEW rq, World(B, H, n, brd, t, rq),
         NEW C, NEW m, NEW docs, NEW gone, NEW brd2, Commits(B, n, brd, t, C, m, docs, gone, brd2),
         NEW h \in Threads, NEW r, Wrote(brd, docs, n, brd2, r), NEW rq2, rq2 = [rq EXCEPT ![h] = r], DOMAIN rq = Threads
  PROVE  World(C, HistTo(H, docs, brd2), m, brd2, t, rq2)
<1> DEFINE K == HistTo(H, docs, brd2)
<1>1. /\ n \in Nat /\ BoardsFit(B, n, brd) /\ HistFits(B, H, n, brd) /\ Sound(B, brd) /\ PinsOnce(brd)
      /\ TabFits(B, n, t) /\ TabOK(H, brd, t)
      /\ ThreadsOK(B, H, n, brd, t, rq) /\ Distinct(rq, t)
  BY DEF World
<1>2. /\ Write(B, n, brd, C, m, docs, gone) /\ Fresh(n, brd, docs) /\ brd2 = Rows(brd, docs, gone, n) /\ PinsOnce(brd2)
      /\ t.hash \in DOMAIN docs => t.hash \in DOMAIN brd /\ (t.ver = brd[t.hash].ver \/ KeptOn(B, brd, docs, t.hash))
  BY DEF Commits
<1>3. RowsOK(brd, docs, gone, n, brd2)
  BY <1>1, <1>2, RowsAre
<1>4. BoardsFit(C, m, brd2)
  BY <1>1, <1>2, RowIs
<1>5. Sound(C, brd2)
  BY <1>1, <1>2, SoundAfter
<1>6. HistFits(C, K, m, brd2) /\ Later(B, H, n, brd, C, K, m, brd2)
  BY <1>1, <1>2, <1>3, <1>4, HistAfter
<1> HIDE DEF K
<1>7. m \in Nat /\ n \in Nat /\ n < m
  BY <1>2 DEF Write
<1>8. TabFits(C, m, t)
  BY <1>1, <1>6, TabLater
<1>9. TabOK(K, brd2, t)
  BY <1>1, <1>2, <1>3, <1>6, TabAfter
<1>10. rq2[h] = r /\ \A k \in Threads \ {h} : rq2[k] = rq[k]
  OBVIOUS
<1>11. ~PutLike(r) /\ (Telling(r) <=> r.op \in {"exec", "video"}) /\ r.step = "publish"
  BY DEF PutLike, Telling, Wrote
<1>12. ASSUME NEW k \in Threads \ {h} PROVE ThreadOK(C, K, m, brd2, t, rq2[k])
  <2>1. ThreadOK(B, H, n, brd, t, rq[k])
    BY <1>1 DEF ThreadsOK
  <2>2. rq[k].step = "put" /\ rq[k].hash \in DOMAIN brd2 /\ rq[k].ver = brd2[rq[k].hash].ver => Elsewhere(rq[k].sent, rq[k].hash, brd2)
    <3>1. rq[k].step = "put" => PutOK(B, H, n, brd, t, rq[k])
      BY <2>1 DEF ThreadOK
    <3> QED BY <1>1, <1>2, <1>3, <1>4, <3>1, PutAside
  <2>3. ThreadOK(C, K, m, brd2, t, rq[k])
    BY <1>1, <1>6, <2>1, <2>2, ThreadLater
  <2> QED BY <1>10, <2>3
<1>13. ThreadOK(C, K, m, brd2, t, r)
  <2>1. SavedOK(K, m, brd2, r.saved)
    <3> SUFFICES ASSUME NEW g \in DOMAIN docs
                 PROVE /\ g \in Nat /\ g < m /\ brd2[g].ver \in Nat /\ K[<<g, brd2[g].ver>>] = brd2[g].doc
                       /\ brd2[g].ver <= brd2[g].ver
      BY DEF SavedOK, Wrote
    <3>1. g \in DOMAIN brd2
      BY <1>3 DEF RowsOK
    <3>2. g \in Nat /\ g < m /\ brd2[g].ver \in Nat
      BY <1>4, <3>1 DEF BoardsFit
    <3> QED BY <1>6, <3>1, <3>2 DEF HistFits
  <2>2. Telling(r) => TellOK(C, K, m, brd2, r.reply)
    <3> HAVE Telling(r)
    <3>1. TellsNew(brd, docs, n, r.reply)
      BY <1>11 DEF Wrote
    <3> QED BY <1>1, <1>2, <1>3, <1>4, <1>6, <3>1, TellIs
  <2>3. r.op # "put" /\ r.mine = (r.op \in {"put", "exec", "video"})
    BY DEF Wrote
  <2> QED BY <1>11, <2>1, <2>2, <2>3 DEF ThreadOK
<1>14. ThreadsOK(C, K, m, brd2, t, rq2)
  BY <1>10, <1>12, <1>13 DEF ThreadsOK
<1>15. Distinct(rq2, t)
  <2>1. \A j, k \in Threads : PutLike(rq2[j]) /\ PutLike(rq2[k]) /\ rq2[j].gen = rq2[k].gen => j = k
    BY <1>1, <1>10, <1>11 DEF Distinct
  <2>2. \A j, k \in Threads : rq2[j].step = "put" /\ rq2[k].step = "put" /\ j # k =>
          OpenIds(rq2[j].sent) \intersect OpenIds(rq2[k].sent) = {}
    BY <1>1, <1>10, <1>11 DEF Distinct
  <2>3. Telling(r) => r.reply.id = n
    BY <1>11 DEF Wrote, TellsNew
  <2>4. \A k \in Threads \ {h} : Telling(rq[k]) => rq[k].reply.id # n
    <3>1. \A k \in Threads \ {h} : Telling(rq[k]) => rq[k].reply.id < n
      BY <1>1 DEF ThreadsOK, ThreadOK, TellOK
    <3>2. ~(n < n)
      BY <1>7
    <3> QED BY <3>1, <3>2
  <2>5. n \notin ServerIds(Pends(t))
    <3>1. \A e \in Pends(t) : EditFits(e, B, n)
      <4>1. t.pend \in Seq(EditSet) /\ \A i \in 1 .. Len(t.pend) : EditFits(t.pend[i], B, n)
        BY <1>1 DEF TabFits, TabSet
      <4>2. \A e \in Pends(t) : \E i \in 1 .. Len(t.pend) : e = t.pend[i]
        BY <4>1 DEF Pends, ToSet
      <4> QED BY <4>1, <4>2
    <3>2. \A k \in ServerIds(Pends(t)) : k \in Nat /\ k < n
      BY <3>1, OpensFit
    <3>3. ~(n < n)
      BY <1>7
    <3> QED BY <3>2, <3>3
  <2>6. \A k \in Threads : PutLike(rq[k]) => n \notin ServerIds(SentOf(rq[k]))
    BY <1>1, <1>7, ServersBelow DEF ThreadsOK
  <2>7. ASSUME NEW j \in Threads, Telling(rq2[j])
        PROVE /\ rq2[j].reply.id \notin ServerIds(Pends(t))
              /\ \A k \in Threads : PutLike(rq2[k]) => rq2[j].reply.id \notin ServerIds(SentOf(rq2[k]))
              /\ \A k \in Threads \ {j} : Telling(rq2[k]) => rq2[k].reply.id # rq2[j].reply.id
    <3>1. CASE j = h
      BY <1>10, <1>11, <2>3, <2>4, <2>5, <2>6, <2>7, <3>1
    <3>2. CASE j # h
      <4>1. /\ rq[j].reply.id \notin ServerIds(Pends(t))
            /\ \A k \in Threads : PutLike(rq[k]) => rq[j].reply.id \notin ServerIds(SentOf(rq[k]))
            /\ \A k \in Threads \ {j} : Telling(rq[k]) => rq[k].reply.id # rq[j].reply.id
        BY <1>1, <1>10, <2>7, <3>2 DEF Distinct
      <4>2. rq[j].reply.id # n
        BY <1>10, <2>4, <2>7, <3>2
      <4> QED BY <1>10, <1>11, <2>3, <3>2, <4>1, <4>2
    <3> QED BY <3>1, <3>2
  <2> QED BY <2>1, <2>2, <2>7 DEF Distinct
<1> QED BY <1>4, <1>5, <1>2, <1>6, <1>7, <1>8, <1>9, <1>14, <1>15 DEF World, K

\* Documents made of tiles the boards have.
Moves(n, brd, docs, gone) ==
  /\ DOMAIN docs \subseteq DOMAIN brd \union {n} /\ gone \subseteq DOMAIN brd \ {Default} /\ gone \intersect DOMAIN docs = {}
  /\ \A g \in DOMAIN docs : docs[g] \in DocSet /\ IsValid(docs[g])
  /\ \A g, b \in DOMAIN docs : \A k \in Ids(docs[g]) : k \in Ids(docs[b]) => g = b
  /\ \A g \in DOMAIN docs : \A k \in Ids(docs[g]) :
       \E b \in DOMAIN brd : /\ Touched(docs, gone, b) /\ k \in Ids(brd[b].doc)
                             /\ docs[g].tiles[k].type = brd[b].doc.tiles[k].type
                             /\ docs[g].tiles[k].uid = brd[b].doc.tiles[k].uid

\* A write that only moves tiles is one.
LEMMA MovesWrite ==
  ASSUME NEW B, NEW n \in Nat, NEW m \in Nat, n < m, NEW brd, BoardsFit(B, n, brd), NEW docs, NEW gone, Moves(n, brd, docs, gone)
  PROVE  Write(B, n, brd, B, m, docs, gone) /\ Fresh(n, brd, docs)
<1>1. ASSUME NEW g \in DOMAIN docs, NEW k \in Ids(docs[g])
      PROVE /\ k < n /\ k \in AllOf(brd) /\ B[k] = What(docs[g].tiles[k])
            /\ Kept1(brd, docs, gone, k, docs[g].tiles[k])
  <2>1. PICK b \in DOMAIN brd : /\ Touched(docs, gone, b) /\ k \in Ids(brd[b].doc)
                                /\ docs[g].tiles[k].type = brd[b].doc.tiles[k].type
                                /\ docs[g].tiles[k].uid = brd[b].doc.tiles[k].uid
    BY DEF Moves
  <2>2. k < n /\ B[k] = What(brd[b].doc.tiles[k])
    BY <2>1 DEF BoardsFit, Fit
  <2>3. What(docs[g].tiles[k]) = What(brd[b].doc.tiles[k])
    BY <2>1, WhatIs
  <2>4. k \in AllOf(brd)
    BY <2>1 DEF AllOf
  <2> QED BY <2>1, <2>2, <2>3, <2>4 DEF Kept1
<1>2. ASSUME NEW g \in DOMAIN docs PROVE Fit(docs[g], B, m)
  <2>1. docs[g] \in DocSet /\ Ids(docs[g]) \subseteq Nat
    BY DocIs DEF Moves
  <2>2. ASSUME NEW k \in Ids(docs[g]) PROVE k < m /\ B[k] = What(docs[g].tiles[k])
    <3>1. k \in Nat /\ k < n
      BY <1>1, <2>1
    <3>2. k < m
      BY <3>1
    <3> QED BY <1>1, <3>2
  <2> QED BY <2>1, <2>2 DEF Fit
<1>3. Fresh(n, brd, docs)
  BY <1>1 DEF Fresh
<1>4. \A g \in DOMAIN docs : \A k \in Ids(docs[g]) : Kept1(brd, docs, gone, k, docs[g].tiles[k])
  BY <1>1
<1>5. /\ DOMAIN docs \subseteq DOMAIN brd \union {n} /\ gone \subseteq DOMAIN brd \ {Default} /\ gone \intersect DOMAIN docs = {}
      /\ \A g \in DOMAIN docs : IsValid(docs[g])
      /\ \A g, b \in DOMAIN docs : \A k \in Ids(docs[g]) : k \in Ids(docs[b]) => g = b
  BY DEF Moves
<1> QED BY <1>2, <1>3, <1>4, <1>5 DEF Write

\* One board is written.
LEMMA OnIs == ASSUME NEW g, NEW e PROVE DOMAIN On(g, e) = {g} /\ On(g, e)[g] = e
<1> QED BY DEF On

\* A tile nobody has.
NewTile(brd, t) ==
  /\ t \in TileSet /\ ~t.bound /\ t.type \in {"terminal", "viewer", "folder"}
  /\ t.type \in {"terminal", "viewer"} =>
       \A b \in DOMAIN brd : \A l \in OfType(brd[b].doc, t.type) : brd[b].doc.tiles[l].uid # t.uid
  /\ t.type = "folder" =>
       \/ t.uid = None
       \/ t.uid = -1 /\ \A b \in DOMAIN brd : \A l \in OfType(brd[b].doc, "folder") : brd[b].doc.tiles[l].uid # -1

\* The history with the new tile.
With(B, n, t) == [k \in Nat |-> IF k = n THEN What(t) ELSE B[k]]

\* A board with one tile more is a write.
LEMMA OpenWrites ==
  ASSUME NEW B, NEW n \in Nat \ {0}, NEW brd, BoardsFit(B, n, brd), Sound(B, brd), NEW g \in DOMAIN brd, NEW t, NewTile(brd, t),
         NEW e, OpensTo(brd[g].doc, n, t, e), IsValid(e)
  PROVE  /\ Write(B, n, brd, With(B, n, t), n + 2, On(g, e), {}) /\ Fresh(n, brd, On(g, e))
         /\ PinsKept(brd, On(g, e), {})
         /\ n \notin AllOf(brd)
<1> DEFINE C == With(B, n, t)
           docs == On(g, e)
           m == n + 2
<1>0. DOMAIN docs = {g} /\ docs[g] = e
  BY OnIs
<1>1. C[n] = What(t) /\ \A k \in Nat : k < n => C[k] = B[k]
  BY DEF With
<1>2. m \in Nat /\ n < m /\ ~(n < n)
  OBVIOUS
<1> HIDE DEF C, m, docs
<1>3. ASSUME NEW b \in DOMAIN brd, NEW k \in Ids(brd[b].doc)
      PROVE k \in Nat /\ k < n /\ B[k] = What(brd[b].doc.tiles[k]) /\ k \in AllOf(brd)
  <2>1. Fit(brd[b].doc, B, n)
    BY DEF BoardsFit
  <2> QED BY <2>1, DocIs DEF Fit, AllOf
<1>4. n \notin AllOf(brd)
  BY <1>2, <1>3 DEF AllOf
<1>5. n \notin Ids(brd[g].doc) /\ Ids(e) = Ids(brd[g].doc) \union {n} /\ e \in DocSet
  BY <1>2, <1>3 DEF OpensTo
<1>6. /\ \A k \in Ids(brd[g].doc) : e.tiles[k] = brd[g].doc.tiles[k]
      /\ e.tiles[n].type = t.type /\ e.tiles[n].uid = t.uid /\ e.tiles[n].bound = t.bound /\ What(e.tiles[n]) = What(t)
  BY <1>5 DEF OpensTo, Alike
<1>7. Fit(e, C, m)
  <2>1. ASSUME NEW k \in Ids(e) PROVE k < m /\ C[k] = What(e.tiles[k])
    <3>1. CASE k = n
      BY <1>1, <1>2, <1>6, <3>1
    <3>2. CASE k \in Ids(brd[g].doc)
      <4>1. k \in Nat /\ k < n /\ B[k] = What(brd[g].doc.tiles[k])
        BY <1>3, <3>2
      <4>2. k < m
        BY <4>1, <1>2
      <4> QED BY <1>1, <1>6, <3>2, <4>1, <4>2
    <3> QED BY <1>5, <3>1, <3>2
  <2> QED BY <1>5, <2>1 DEF Fit
<1>8. ASSUME NEW k \in Ids(e) PROVE Kept1(brd, docs, {}, k, e.tiles[k]) \/ New1(brd, docs, {}, C, k, e.tiles[k])
  <2>1. CASE k \in Ids(brd[g].doc)
    BY <1>0, <1>6, <2>1 DEF Kept1, Touched
  <2>2. CASE k = n
    <3>1. ASSUME e.tiles[n].type = "folder", e.tiles[n].uid # None
          PROVE /\ e.tiles[n].uid = -1
                /\ \A b \in DOMAIN brd : \A l \in OfType(brd[b].doc, "folder") : brd[b].doc.tiles[l].uid # -1
                /\ \A b \in DOMAIN docs : \A l \in OfType(docs[b], "folder") : docs[b].tiles[l].uid = -1 => l = n
      <4>1. t.type = "folder" /\ t.uid # None
        BY <1>6, <3>1
      <4>2. /\ t.uid = -1
            /\ \A b \in DOMAIN brd : \A l \in OfType(brd[b].doc, "folder") : brd[b].doc.tiles[l].uid # -1
        BY <4>1 DEF NewTile
      <4>3. ASSUME NEW l \in OfType(e, "folder"), e.tiles[l].uid = -1, l # n PROVE FALSE
        BY <1>5, <1>6, <4>2, <4>3 DEF OfType
      <4> QED BY <1>0, <1>6, <4>2, <4>3
    <3>2. ASSUME e.tiles[n].type \in {"terminal", "viewer"}, NEW l, Stays(brd, docs, {}, l), C[l] = C[n], l # n PROVE FALSE
      <4>1. \E b \in DOMAIN brd : l \in Ids(brd[b].doc)
        BY <1>0, <1>5, <3>2 DEF Stays
      <4>2. PICK b \in DOMAIN brd : l \in Ids(brd[b].doc)
        BY <4>1
      <4>3. C[l] = What(brd[b].doc.tiles[l])
        BY <1>1, <1>3, <4>2
      <4>4. What(brd[b].doc.tiles[l]) = What(t) /\ t.type \in {"terminal", "viewer"}
        BY <1>1, <1>6, <3>2, <4>3
      <4>5. brd[b].doc.tiles[l].type = t.type /\ brd[b].doc.tiles[l].uid = t.uid
        BY <4>4 DEF What
      <4>6. l \in OfType(brd[b].doc, t.type)
        BY <4>2, <4>5 DEF OfType
      <4> QED BY <4>4, <4>5, <4>6 DEF NewTile
    <3> QED BY <1>4, <2>2, <3>1, <3>2 DEF New1
  <2> QED BY <1>5, <2>1, <2>2
<1>9. Write(B, n, brd, C, m, docs, {})
  BY <1>0, <1>1, <1>2, <1>7, <1>8 DEF Write
<1>10. Fresh(n, brd, docs)
  BY <1>0, <1>2, <1>3, <1>5 DEF Fresh
<1>11. PinsKept(brd, docs, {})
  <2>1. ASSUME NEW k \in OfType(e, "folder"), e.tiles[k].bound
        PROVE  k \in OfType(brd[g].doc, "folder") /\ brd[g].doc.tiles[k].bound /\ brd[g].doc.tiles[k].node = e.tiles[k].node
    <3>1. k # n
      BY <1>6, <2>1 DEF NewTile
    <3>2. k \in Ids(brd[g].doc)
      BY <1>5, <2>1, <3>1 DEF OfType
    <3> QED BY <1>6, <2>1, <3>2 DEF OfType
  <2> QED BY <1>0, <2>1 DEF PinsKept
<1> QED BY <1>4, <1>9, <1>10, <1>11 DEF C, m, docs

\* The same for the terminals of the processes q.
WithAll(B, n, q) == [k \in Nat |-> IF k - n \in 1 .. Len(q) THEN <<"terminal", q[k - n]>> ELSE B[k]]

AdoptsTo(B, n, brd, g, q, C, m, docs, e) ==
  /\ Write(B, n, brd, C, m, docs, {}) /\ Fresh(n, brd, docs)
  /\ PinsKept(brd, docs, {})
  /\ Ids(brd[g].doc) \subseteq Ids(e)
  /\ \A k \in Ids(e) : k \notin AllOf(brd) => \E i \in 1 .. Len(q) : e.tiles[k].uid = q[i]

LEMMA AdoptWrites ==
  ASSUME NEW B, NEW n \in Nat \ {0}, NEW brd, BoardsFit(B, n, brd), Sound(B, brd), NEW g \in DOMAIN brd,
         NEW q \in Seq(UIDs), Once(q), \A i \in 1 .. Len(q) : q[i] \notin UidsOn(brd)
  PROVE  AdoptsTo(B, n, brd, g, q, WithAll(B, n, q), n + Len(q) + 1, On(g, Adopted(brd[g].doc, n, q)), Adopted(brd[g].doc, n, q))
<1> DEFINE e == Adopted(brd[g].doc, n, q)
           C == WithAll(B, n, q)
           docs == On(g, e)
           L == Len(q)
           m == n + L + 1
<1>0. DOMAIN docs = {g} /\ docs[g] = e /\ L \in Nat
  <2>1. L \in Nat
    BY LenProperties
  <2> HIDE DEF e
  <2> QED BY <2>1, OnIs
<1>1. /\ \A i \in 1 .. L : C[n + i] = <<"terminal", q[i]>>
      /\ \A k \in Nat : k < n => C[k] = B[k]
  BY DEF WithAll
<1>2. m \in Nat /\ n < m /\ ~(n < n) /\ \A i \in 1 .. L : n + i < m /\ n + i \in Nat /\ ~(n + i < n)
  BY <1>0
<1>3. ASSUME NEW b \in DOMAIN brd, NEW k \in Ids(brd[b].doc)
      PROVE k \in Nat /\ k < n /\ B[k] = What(brd[b].doc.tiles[k]) /\ k \in AllOf(brd)
  <2>1. Fit(brd[b].doc, B, n)
    BY DEF BoardsFit
  <2> QED BY <2>1, DocIs DEF Fit, AllOf
<1>5. /\ e \in DocSet /\ IsValid(e) /\ Ids(e) = Ids(brd[g].doc) \union {n + i : i \in 1 .. L}
      /\ \A k \in Ids(brd[g].doc) : e.tiles[k] = brd[g].doc.tiles[k]
      /\ \A i \in 1 .. L : /\ What(e.tiles[n + i]) = <<"terminal", q[i]>>
                           /\ e.tiles[n + i].type = "terminal"
                           /\ e.tiles[n + i].uid = q[i] /\ ~e.tiles[n + i].bound
  <2>1. brd[g].doc \in DocSet /\ IsValid(brd[g].doc)
    BY DEF BoardsFit, Fit, Sound
  <2>2. \A k \in Ids(brd[g].doc) : k < n
    BY <1>3
  <2> HIDE DEF e
  <2> QED BY <2>1, <2>2, AdoptedIs DEF e
<1> HIDE DEF C, m, docs, e, L
<1>4. ASSUME NEW i \in 1 .. L PROVE n + i \notin AllOf(brd)
  BY <1>2, <1>3 DEF AllOf
<1>6. ASSUME NEW k \in Ids(e)
      PROVE  (k \in Ids(brd[g].doc) /\ k \in AllOf(brd) /\ k < n) \/ \E i \in 1 .. L : k = n + i /\ k \notin AllOf(brd)
  BY <1>3, <1>4, <1>5
<1>7. Fit(e, C, m)
  <2>1. ASSUME NEW k \in Ids(e) PROVE k < m /\ C[k] = What(e.tiles[k])
    <3>1. ASSUME NEW i \in 1 .. L, k = n + i PROVE k < m /\ C[k] = What(e.tiles[k])
      BY <1>1, <1>2, <1>5, <3>1
    <3>2. CASE k \in Ids(brd[g].doc)
      <4>1. k \in Nat /\ k < n /\ B[k] = What(brd[g].doc.tiles[k])
        BY <1>3, <3>2
      <4>2. k < m
        BY <4>1, <1>2
      <4> QED BY <1>1, <1>5, <3>2, <4>1, <4>2
    <3> QED BY <1>6, <3>1, <3>2
  <2> QED BY <1>5, <2>1 DEF Fit
<1>8. ASSUME NEW k \in Ids(e) PROVE Kept1(brd, docs, {}, k, e.tiles[k]) \/ New1(brd, docs, {}, C, k, e.tiles[k])
  <2>1. CASE k \in Ids(brd[g].doc)
    BY <1>0, <1>5, <2>1 DEF Kept1, Touched
  <2>2. ASSUME NEW i \in 1 .. L, k = n + i PROVE New1(brd, docs, {}, C, k, e.tiles[k])
    <3>0. e.tiles[k].type = "terminal" /\ C[k] = <<"terminal", q[i]>>
      BY <1>1, <1>5, <2>2
    <3>2. ASSUME NEW l, Stays(brd, docs, {}, l), C[l] = C[k] PROVE l = k
      <4>1. ASSUME NEW b \in DOMAIN brd, l \in Ids(brd[b].doc) PROVE FALSE
        <5>1. What(brd[b].doc.tiles[l]) = <<"terminal", q[i]>>
          BY <1>1, <1>3, <3>0, <3>2, <4>1
        <5>2. brd[b].doc.tiles[l].type = "terminal" /\ brd[b].doc.tiles[l].uid = q[i]
          BY <5>1 DEF What
        <5>3. q[i] \in UidsOn(brd)
          BY <4>1, <5>2, UidsOnHas DEF OfType
        <5> QED BY <5>3 DEF L
      <4>2. l \in Ids(e)
        BY <1>0, <3>2, <4>1 DEF Stays
      <4>3. PICK j \in 1 .. L : l = n + j
        BY <1>6, <4>1, <4>2
      <4>4. q[i] = q[j]
        BY <1>1, <3>0, <3>2, <4>3
      <4>5. i = j
        BY <4>4 DEF Once, L
      <4> QED BY <2>2, <4>3, <4>5
    <3>3. k \notin AllOf(brd)
      BY <1>4, <2>2
    <3> QED BY <3>0, <3>2, <3>3 DEF New1
  <2> QED BY <1>6, <2>1, <2>2
<1>9. Write(B, n, brd, C, m, docs, {})
  BY <1>0, <1>1, <1>2, <1>5, <1>7, <1>8 DEF Write
<1>10. Fresh(n, brd, docs)
  BY <1>0, <1>2, <1>6 DEF Fresh
<1>11. PinsKept(brd, docs, {})
  <2>1. ASSUME NEW k \in OfType(e, "folder")
        PROVE  k \in OfType(brd[g].doc, "folder") /\ e.tiles[k] = brd[g].doc.tiles[k]
    <3>2. k \in Ids(brd[g].doc)
      BY <1>5, <1>6, <2>1 DEF OfType
    <3> QED BY <1>5, <2>1, <3>2 DEF OfType
  <2> QED BY <1>0, <2>1 DEF PinsKept
<1>12. Ids(brd[g].doc) \subseteq Ids(e)
  BY <1>5
<1>13. \A k \in Ids(e) : k \notin AllOf(brd) => \E i \in 1 .. L : e.tiles[k].uid = q[i]
  BY <1>5, <1>6
<1>14. AdoptsTo(B, n, brd, g, q, C, m, docs, e)
  BY <1>9, <1>10, <1>11, <1>12, <1>13 DEF AdoptsTo, L
<1> QED BY <1>14 DEF C, m, docs, e, L

----------
(* The processes and the requests about them.                              *)

\* The request may yet put p on a board, or has yet to purge it.
AddsTo(r, p) == /\ r.step = "ask"
                /\ \/ r.op \in {"exec", "attach"} /\ r.uid = p
                   \/ r.op = "get" /\ p \in r.procs
PurgesOf(r, p) == r.uid = p /\ (r.step = "purged" \/ (r.step \in {"ask", "publish"} /\ r.op = "purge"))
ProcSet == [st : {"none", "live", "ended", "gone"}, kill : {"no", "asked", "late", "forced"}]

\* What a request before its transaction asks for.
AskOK(pr, U, r) ==
  r.step = "ask" =>
    /\ r.op \in {"get", "exec", "attach", "bind", "take", "move", "delete", "share", "video", "purge"}
    /\ r.op = "exec" => r.uid \in Own /\ r.uid \notin U
    /\ r.op = "get" => r.procs \subseteq Own
    /\ r.op = "attach" => r.uid \in Procs \ Own
    /\ r.op \in {"take", "purge"} => r.uid \in Procs /\ pr[r.uid].st # "none"
    /\ r.op = "video" => r.uid \in Videos

\* Part two of the invariant: a process on a board is there or ended, a purge is of one that
\* ended and that nobody opens, and a process whose end was asked for is on a board or in
\* the hands of a request that published its removal.
Party(pr, rq, U, sh) ==
  /\ pr \in [Procs -> ProcSet]
  /\ U \subseteq Procs /\ \A p \in U : pr[p].st \in {"live", "ended"}
  /\ \A p \in Procs : pr[p].st = "none" => pr[p].kill = "no"
  /\ \A h \in Threads, p \in Procs :
       /\ AddsTo(rq[h], p) => pr[p].st \in {"live", "ended"}
       /\ PurgesOf(rq[h], p) => pr[p].st \in {"ended", "gone"} /\ \A k \in Threads : ~AddsTo(rq[k], p)
  /\ \A h \in Threads : AskOK(pr, U, rq[h])
  /\ \A h, k \in Threads : rq[h].step = "ask" /\ rq[k].step = "ask" /\ rq[h].op = "exec" =>
       /\ rq[k].op # "get"
       /\ rq[k].op \in {"exec", "take"} /\ h # k => rq[k].uid # rq[h].uid
  /\ sh \subseteq U
  /\ \A p \in Procs : pr[p].st = "live" /\ pr[p].kill = "asked" =>
       p \in U \/ \E h \in Threads : rq[h].step = "publish" /\ p \in rq[h].closed

\* What a write does to the processes on the boards: news are those it puts
\* there, lost those it takes away.
Puts(brd, docs, gone, news, lost0) ==
  /\ \A b \in DOMAIN brd : Touched(docs, gone, b) => \A k \in OfType(brd[b].doc, "terminal") :
       (\E g \in DOMAIN docs : k \in Ids(docs[g])) \/ brd[b].doc.tiles[k].uid \in lost0
  /\ \A g \in DOMAIN docs : \A k \in OfType(docs[g], "terminal") : k \notin AllOf(brd) => docs[g].tiles[k].uid \in news

LEMMA PutsGo ==
  ASSUME NEW brd, NEW docs, NEW gone, NEW brd2, UidsGo(brd, docs, gone, brd2), NEW news, NEW lost0, Puts(brd, docs, gone, news, lost0)
  PROVE  /\ UidsOn(brd2) \subseteq UidsOn(brd) \union news
         /\ UidsOn(brd) \subseteq UidsOn(brd2) \union lost0
         /\ UNION {TerminalUIDs(docs[g]) : g \in DOMAIN docs} \subseteq UidsOn(brd2)
<1>1. ASSUME NEW p \in UidsOn(brd2), p \notin UidsOn(brd) PROVE p \in news
  BY <1>1 DEF UidsGo, Puts
<1>2. ASSUME NEW p \in UidsOn(brd), p \notin UidsOn(brd2) PROVE p \in lost0
  <2>1. PICK b \in DOMAIN brd : \E k \in OfType(brd[b].doc, "terminal") :
                                 /\ brd[b].doc.tiles[k].uid = p /\ Touched(docs, gone, b)
                                 /\ \A g \in DOMAIN docs : k \notin Ids(docs[g])
    BY <1>2 DEF UidsGo
  <2> QED BY <2>1 DEF Puts
<1>3. UNION {TerminalUIDs(docs[g]) : g \in DOMAIN docs} \subseteq UidsOn(brd2)
  BY DEF UidsGo
<1> QED BY <1>1, <1>2, <1>3

\* A request commits, and what that means to the processes.
PartyStep(pr, rq, h, r, U, U2, sh, sh2, news, lost0, wrote) ==
  /\ rq[h].step # "publish" /\ r.step = "publish" /\ r.closed = {}
  /\ \A p : PurgesOf(r, p) => PurgesOf(rq[h], p)
  /\ U2 \subseteq U \union news /\ U \subseteq U2 \union lost0 /\ wrote \subseteq U2
  /\ news \subseteq Procs /\ \A p \in news : pr[p].st \in {"live", "ended"}
  /\ \A k \in Threads \ {h} : rq[k].step = "ask" /\ rq[k].op = "exec" => rq[k].uid \notin news
  /\ \A p \in lost0 : pr[p].st # "live"
  /\ sh2 \subseteq (sh \union wrote) \ (lost0 \ U2)

\* It keeps part two of the invariant.
LEMMA CommitParty ==
  ASSUME NEW pr, NEW rq, NEW U, NEW sh, Party(pr, rq, U, sh), NEW h \in Threads, NEW r, NEW rq2, rq2 = [rq EXCEPT ![h] = r],
         DOMAIN rq = Threads, NEW U2, NEW sh2, NEW news, NEW lost0, NEW wrote,
         PartyStep(pr, rq, h, r, U, U2, sh, sh2, news, lost0, wrote)
  PROVE  Party(pr, rq2, U2, sh2)
<1>0. /\ rq[h].step # "publish" /\ r.step = "publish" /\ r.closed = {}
      /\ \A p : PurgesOf(r, p) => PurgesOf(rq[h], p)
      /\ U2 \subseteq U \union news /\ U \subseteq U2 \union lost0 /\ wrote \subseteq U2
      /\ news \subseteq Procs /\ \A p \in news : pr[p].st \in {"live", "ended"}
      /\ \A k \in Threads \ {h} : rq[k].step = "ask" /\ rq[k].op = "exec" => rq[k].uid \notin news
      /\ \A p \in lost0 : pr[p].st # "live"
      /\ sh2 \subseteq (sh \union wrote) \ (lost0 \ U2)
  BY DEF PartyStep
<1>1. rq2[h] = r /\ \A k \in Threads \ {h} : rq2[k] = rq[k]
  OBVIOUS
<1>2. U2 \subseteq Procs /\ \A p \in U2 : pr[p].st \in {"live", "ended"}
  BY <1>0 DEF Party
<1>3. \A p : ~AddsTo(r, p)
  BY <1>0 DEF AddsTo
<1>4. ASSUME NEW j \in Threads, NEW p \in Procs
      PROVE /\ AddsTo(rq2[j], p) => pr[p].st \in {"live", "ended"}
            /\ PurgesOf(rq2[j], p) => pr[p].st \in {"ended", "gone"} /\ \A k \in Threads : ~AddsTo(rq2[k], p)
  <2>1. AddsTo(rq2[j], p) => AddsTo(rq[j], p)
    BY <1>1, <1>3
  <2>2. PurgesOf(rq2[j], p) => PurgesOf(rq[j], p)
    BY <1>0, <1>1
  <2>3. \A k \in Threads : AddsTo(rq2[k], p) => AddsTo(rq[k], p)
    BY <1>1, <1>3
  <2> QED BY <2>1, <2>2, <2>3 DEF Party
<1>5. ASSUME NEW j \in Threads PROVE AskOK(pr, U2, rq2[j])
  <2>1. CASE j = h
    BY <1>0, <1>1, <2>1 DEF AskOK
  <2>2. CASE j # h
    <3>1. AskOK(pr, U, rq[j]) /\ rq2[j] = rq[j]
      BY <1>1, <2>2 DEF Party
    <3>2. rq[j].step = "ask" /\ rq[j].op = "exec" => rq[j].uid \notin news
      BY <1>0, <2>2
    <3> QED BY <1>0, <3>1, <3>2 DEF AskOK
  <2> QED BY <2>1, <2>2
<1>6. \A j, k \in Threads : rq2[j].step = "ask" /\ rq2[k].step = "ask" /\ rq2[j].op = "exec" =>
       /\ rq2[k].op # "get"
       /\ rq2[k].op \in {"exec", "take"} /\ j # k => rq2[k].uid # rq2[j].uid
  <2>1. \A j, k \in Threads : rq[j].step = "ask" /\ rq[k].step = "ask" /\ rq[j].op = "exec" =>
          /\ rq[k].op # "get"
          /\ rq[k].op \in {"exec", "take"} /\ j # k => rq[k].uid # rq[j].uid
    BY DEF Party
  <2>2. \A j \in Threads : rq2[j].step = "ask" => rq2[j] = rq[j]
    BY <1>0, <1>1
  <2> QED BY <2>1, <2>2
<1>7. sh2 \subseteq U2
  BY <1>0 DEF Party
<1>8. ASSUME NEW p \in Procs, pr[p].st = "live", pr[p].kill = "asked"
      PROVE p \in U2 \/ \E j \in Threads : rq2[j].step = "publish" /\ p \in rq2[j].closed
  <2>1. p \in U \/ \E j \in Threads : rq[j].step = "publish" /\ p \in rq[j].closed
    BY <1>8 DEF Party
  <2>2. CASE p \in U
    BY <1>0, <1>8, <2>2
  <2>3. ASSUME NEW j \in Threads, rq[j].step = "publish", p \in rq[j].closed PROVE rq2[j].step = "publish" /\ p \in rq2[j].closed
    BY <1>0, <1>1, <2>3
  <2> QED BY <2>1, <2>2, <2>3
<1>9. pr \in [Procs -> ProcSet] /\ \A p \in Procs : pr[p].st = "none" => pr[p].kill = "no"
  BY DEF Party
<1> QED BY <1>2, <1>4, <1>5, <1>6, <1>7, <1>8, <1>9 DEF Party

\* The invariant of one history, and of any.
Inv(B, H, n, brd, t, rq, pr, sh) ==
  World(B, H, n, brd, t, rq) /\ Party(pr, rq, UidsOn(brd), sh) /\ DOMAIN rq = Threads

IInv == \E B, H : Inv(B, H, next, board, tab, req, proc, shown)

\* No board is inserted while another is listed, no orphan adopted between an exec and its
\* tile, no change pushed before the answer to the tab's save, no other board loaded before
\* the answer of an exec: section 2 of README.md shows what each of them breaks.
InOrder == {"insert", "adopt", "overtake", "switch"} \intersect Windows = {}

\* Part three of the invariant: an exec speaks of the board g the tab shows, if that is
\* still one of the boards G.
HereOf(r, g, G) ==
  /\ r.step = "ask" /\ r.op = "exec" => r.hash = g
  /\ r.step \in {"publish", "reply"} /\ r.op = "exec" => r.reply.hash = g \/ g \notin G
Here == \A h \in Threads : HereOf(req[h], tab.hash, DOMAIN board)

\* Processes a request may put on a board.
MayPut(h, news) ==
  /\ news \subseteq Procs /\ \A p \in news : proc[p].st \in {"live", "ended"}
  /\ \A k \in Threads \ {h} : req[k].step = "ask" /\ req[k].op = "exec" => req[k].uid \notin news

\* What an action has to show of its commit.
CommitOK(h, docs, gone, ids, mine, reply, B, C, news) ==
  /\ req[h].step = "ask" /\ mine = (req[h].op \in {"exec", "video"})
  /\ mine => TellsNew(board, docs, next, reply)
  /\ Write(B, next, board, C, next + ids + 1, docs, gone) /\ Fresh(next, board, docs)
  /\ PinsOnce(Rows(board, docs, gone, next))
  /\ tab.hash \in DOMAIN docs => tab.hash \in DOMAIN board /\ (tab.ver = board[tab.hash].ver \/ KeptOn(B, board, docs, tab.hash))
  /\ MayPut(h, news)
  /\ Puts(board, docs, gone, news, IF req[h].op = "purge" THEN {req[h].uid} ELSE {})

\* A commit that shows it keeps the invariant.
LEMMA CommitStep ==
  ASSUME NEW B, NEW H, Inv(B, H, next, board, tab, req, proc, shown), NEW h \in Threads,
         NEW docs, NEW gone, NEW ids, NEW mine, NEW reply, Commit(h, docs, gone, ids, mine, reply),
         NEW C, NEW news, CommitOK(h, docs, gone, ids, mine, reply, B, C, news)
  PROVE  IInv'
<1>0. /\ req[h].step = "ask" /\ mine = (req[h].op \in {"exec", "video"})
      /\ mine => TellsNew(board, docs, next, reply)
      /\ Write(B, next, board, C, next + ids + 1, docs, gone) /\ Fresh(next, board, docs)
      /\ PinsOnce(Rows(board, docs, gone, next))
      /\ tab.hash \in DOMAIN docs => tab.hash \in DOMAIN board /\ (tab.ver = board[tab.hash].ver \/ KeptOn(B, board, docs, tab.hash))
      /\ MayPut(h, news)
      /\ Puts(board, docs, gone, news, IF req[h].op = "purge" THEN {req[h].uid} ELSE {})
  BY DEF CommitOK
<1> DEFINE brd2 == Rows(board, docs, gone, next)
           m == next + ids + 1
           lost0 == IF req[h].op = "purge" THEN {req[h].uid} ELSE {}
           wrote == UNION {TerminalUIDs(docs[g]) : g \in DOMAIN docs}
           saved == [g \in DOMAIN docs |-> Saved(g, docs[g])]
           r == [step |-> "publish", op |-> req[h].op, saved |-> saved, mine |-> mine,
                 closed |-> {}, uid |-> req[h].uid, reply |-> reply, gen |-> tab.gen]
<1>1. World(B, H, next, board, tab, req) /\ Party(proc, req, UidsOn(board), shown) /\ DOMAIN req = Threads
  BY DEF Inv
<1>2. /\ board' = [g \in (DOMAIN board \union DOMAIN docs) \ gone |-> IF g \in DOMAIN docs THEN saved[g] ELSE board[g]]
      /\ shown' = (shown \union wrote) \ lost0
      /\ next' = m /\ req' = [req EXCEPT ![h] = r]
      /\ UNCHANGED <<proc, tab>>
  BY DEF Commit, Done, Step
<1>3. \A g \in DOMAIN docs : saved[g] = [doc |-> Marshal(docs[g], next), ver |-> IF g \in DOMAIN board THEN board[g].ver + 1 ELSE 1]
  BY DEF Saved
<1>4. DOMAIN saved = DOMAIN docs
  OBVIOUS
<1>5. r.step = "publish" /\ r.op = req[h].op /\ r.saved = saved /\ r.mine = mine /\ r.closed = {} /\ r.uid = req[h].uid /\ r.reply = reply
  OBVIOUS
<1> HIDE DEF r, saved
<1>6. board' = brd2
  BY <1>2, <1>3 DEF Rows
<1> HIDE DEF brd2, m, lost0, wrote
<1>7. req[h].op # "put"
  BY <1>0, <1>1 DEF Party, AskOK
<1>8. Commits(B, next, board, tab, C, m, docs, gone, brd2)
  BY <1>0 DEF Commits, m, brd2
<1>9. BoardsFit(B, next, board) /\ Sound(B, board) /\ Write(B, next, board, C, m, docs, gone)
  BY <1>0, <1>1 DEF World, m
<1>10. RowsOK(board, docs, gone, next, brd2)
  BY <1>9, RowsAre DEF brd2
<1>11. \A g \in DOMAIN docs : saved[g] = brd2[g]
  <2>1. \A g \in DOMAIN docs : g \in DOMAIN brd2
    BY <1>10 DEF RowsOK
  <2> QED BY <1>3, <2>1 DEF brd2, Rows
<1>12. Wrote(board, docs, next, brd2, r)
  BY <1>0, <1>4, <1>5, <1>7, <1>11 DEF Wrote
<1>13. World(C, HistTo(H, docs, brd2), m, brd2, tab, req')
  BY <1>1, <1>2, <1>8, <1>12, CommitWorld
<1>14. /\ UidsOn(brd2) \subseteq UidsOn(board) \union news
       /\ UidsOn(board) \subseteq UidsOn(brd2) \union lost0
       /\ wrote \subseteq UidsOn(brd2)
  BY <1>0, <1>9, <1>10, UidsAfter, PutsGo DEF lost0, wrote
<1>15. \A p \in lost0 : proc[p].st # "live"
  <2> SUFFICES ASSUME req[h].op = "purge" PROVE proc[req[h].uid].st # "live"
    BY DEF lost0
  <2>1. req[h].uid \in Procs /\ PurgesOf(req[h], req[h].uid)
    BY <1>0, <1>1 DEF Party, AskOK, PurgesOf
  <2> QED BY <1>1, <2>1 DEF Party
<1>16. \A p : PurgesOf(r, p) => PurgesOf(req[h], p)
  BY <1>0, <1>5 DEF PurgesOf
<1>17. /\ news \subseteq Procs /\ \A p \in news : proc[p].st \in {"live", "ended"}
       /\ \A k \in Threads \ {h} : req[k].step = "ask" /\ req[k].op = "exec" => req[k].uid \notin news
  BY <1>0 DEF MayPut
<1>18. shown' \subseteq (shown \union wrote) \ (lost0 \ UidsOn(brd2))
  BY <1>2
<1>19. Party(proc, req', UidsOn(brd2), shown')
  <2>1. PartyStep(proc, req, h, r, UidsOn(board), UidsOn(brd2), shown, shown', news, lost0, wrote)
    BY <1>0, <1>5, <1>14, <1>15, <1>16, <1>17, <1>18 DEF PartyStep
  <2> QED BY <1>1, <1>2, <2>1, CommitParty
<1>20. DOMAIN req' = Threads
  BY <1>1, <1>2
<1>21. Inv(C, HistTo(H, docs, brd2), next', board', tab', req', proc', shown')
  BY <1>2, <1>6, <1>13, <1>19, <1>20 DEF Inv
<1> QED BY <1>21 DEF IInv

\* The same of an action that opens one tile.
OpenOK(h, g, opener, t, mine, reply) ==
  /\ g \in DOMAIN board /\ NewTile(board, t) /\ t.type \in {"terminal", "viewer", "folder"}
  /\ req[h].step = "ask" /\ req[h].op # "purge" /\ mine = (req[h].op \in {"exec", "video"})
  /\ mine => /\ t.type \in {"terminal", "viewer"}
             /\ reply = [ver |-> board[g].ver + 1, id |-> next, hash |-> g,
                         tile |-> OpenTile(board[g].doc, opener, next, t).tiles[next]]
  /\ t.type = "terminal" => MayPut(h, {t.uid})

LEMMA OpenStep ==
  ASSUME NEW B, NEW H, Inv(B, H, next, board, tab, req, proc, shown), NEW h \in Threads,
         NEW g, NEW opener, NEW t, NEW mine, NEW reply, OpenOK(h, g, opener, t, mine, reply),
         Commit(h, On(g, OpenTile(board[g].doc, opener, next, t)), {}, 1, mine, reply)
  PROVE  IInv'
<1> DEFINE e == OpenTile(board[g].doc, opener, next, t)
<1> USE DEF OpenOK
<1>1. /\ World(B, H, next, board, tab, req) /\ next \in Nat
      /\ BoardsFit(B, next, board) /\ Sound(B, board) /\ PinsOnce(board)
  BY DEF Inv, World
<1>2. next \in Nat \ {0}
  BY <1>1 DEF BoardsFit, Default
<1>3. board[g].doc \in DocSet /\ IsValid(board[g].doc) /\ next \notin Ids(board[g].doc)
  <2>1. ~(next < next)
    BY <1>1
  <2> QED BY <1>1, <2>1 DEF BoardsFit, Fit, Sound
<1>4. OpensTo(board[g].doc, next, t, e)
  BY <1>2, <1>3, OpenTileTyped DEF NewTile
<1>5. IsValid(e)
  BY <1>2, <1>3, OpenTileValid DEF NewTile
<1> DEFINE C == With(B, next, t)
           docs == On(g, e)
<1>6. /\ Write(B, next, board, C, next + 2, docs, {}) /\ Fresh(next, board, docs)
      /\ PinsKept(board, docs, {}) /\ next \notin AllOf(board)
  BY <1>1, <1>2, <1>4, <1>5, OpenWrites
<1> HIDE DEF e
<1>7. DOMAIN docs = {g} /\ docs[g] = e
  BY OnIs
<1> HIDE DEF C, docs
<1>8. next + 2 = next + 1 + 1
  BY <1>2
<1>9. PinsOnce(Rows(board, docs, {}, next))
  BY <1>1, <1>6, RowsAre, PinsAfter
<1>10. KeptOn(B, board, docs, g)
  BY <1>7 DEF KeptOn
<1>11. mine => TellsNew(board, docs, next, reply)
  <2> HAVE mine
  <2>1. /\ reply.hash = g /\ reply.ver = board[g].ver + 1 /\ reply.id = next /\ reply.tile = e.tiles[next]
        /\ t.type \in {"terminal", "viewer"}
    BY DEF e
  <2>2. /\ Ids(e) = Ids(board[g].doc) \union {next} /\ e.tiles[next].type = t.type
        /\ \A k \in OfType(e, "terminal") : k \in Ids(board[g].doc) \union {next}
    BY <1>4 DEF OpensTo, Alike, OfType
  <2> QED BY <1>7, <2>1, <2>2 DEF TellsNew
<1> DEFINE news == IF t.type = "terminal" THEN {t.uid} ELSE {}
<1>12. MayPut(h, news)
  BY DEF MayPut
<1>13. Puts(board, docs, {}, news, {})
  <2>1. ASSUME NEW b \in DOMAIN board, Touched(docs, {}, b), NEW k \in OfType(board[b].doc, "terminal") PROVE k \in Ids(docs[g])
    BY <1>4, <1>7, <2>1 DEF Touched, OpensTo, OfType
  <2>2. ASSUME NEW k \in OfType(e, "terminal"), k \notin AllOf(board) PROVE e.tiles[k].uid \in news
    <3>1. k = next
      <4>1. k \notin Ids(board[g].doc)
        BY <2>2 DEF AllOf
      <4> QED BY <1>4, <4>1 DEF OpensTo, OfType
    <3>2. e.tiles[next].type = t.type /\ e.tiles[next].uid = t.uid
      BY <1>4 DEF OpensTo, Alike
    <3> QED BY <2>2, <3>1, <3>2 DEF OfType
  <2> QED BY <1>7, <2>1, <2>2 DEF Puts
<1> HIDE DEF news
<1>14. Commit(h, docs, {}, 1, mine, reply)
  BY DEF docs, e
<1>15. Write(B, next, board, C, next + 1 + 1, docs, {})
  BY <1>6, <1>8
<1>16. tab.hash \in DOMAIN docs => tab.hash \in DOMAIN board /\ KeptOn(B, board, docs, tab.hash)
  BY <1>7, <1>10
<1>17. Puts(board, docs, {}, news, IF req[h].op = "purge" THEN {req[h].uid} ELSE {})
  BY <1>13
<1>18. CommitOK(h, docs, {}, 1, mine, reply, B, C, news)
  BY <1>6, <1>9, <1>11, <1>12, <1>15, <1>16, <1>17 DEF CommitOK
<1> QED BY <1>14, <1>18, CommitStep

\* A request that begins or ends says nothing to the tab and changes no board.
LEMMA QuietWorld ==
  ASSUME NEW B, NEW H, NEW n, NEW brd, NEW t, NEW rq, World(B, H, n, brd, t, rq), NEW h \in Threads,
         NEW r, r.step \notin {"put", "publish", "reply"}, NEW rq2, rq2 = [rq EXCEPT ![h] = r], DOMAIN rq = Threads
  PROVE  World(B, H, n, brd, t, rq2)
<1>1. rq2[h] = r /\ \A k \in Threads \ {h} : rq2[k] = rq[k]
  OBVIOUS
<1>2. ~PutLike(r) /\ ~Telling(r) /\ ThreadOK(B, H, n, brd, t, r)
  BY DEF PutLike, Telling, ThreadOK
<1>3. ThreadsOK(B, H, n, brd, t, rq2)
  BY <1>1, <1>2 DEF World, ThreadsOK
<1>4. Distinct(rq2, t)
  BY <1>1, <1>2 DEF World, Distinct
<1> QED BY <1>3, <1>4 DEF World

LEMMA QuietParty ==
  ASSUME NEW pr, NEW rq, NEW U, NEW sh, Party(pr, rq, U, sh), NEW h \in Threads, NEW r, r.step = "idle",
         NEW rq2, rq2 = [rq EXCEPT ![h] = r], DOMAIN rq = Threads, rq[h].step # "publish"
  PROVE  Party(pr, rq2, U, sh)
<1>1. rq2[h] = r /\ \A k \in Threads \ {h} : rq2[k] = rq[k]
  OBVIOUS
<1>2. \A j \in Threads : rq2[j].step = "ask" => rq2[j] = rq[j]
  BY <1>1
<1>3. \A j \in Threads, p \in Procs : (AddsTo(rq2[j], p) => AddsTo(rq[j], p)) /\ (PurgesOf(rq2[j], p) => PurgesOf(rq[j], p))
  BY <1>1 DEF AddsTo, PurgesOf
<1>4. ASSUME NEW j \in Threads, NEW p \in Procs
      PROVE /\ AddsTo(rq2[j], p) => pr[p].st \in {"live", "ended"}
            /\ PurgesOf(rq2[j], p) => pr[p].st \in {"ended", "gone"} /\ \A k \in Threads : ~AddsTo(rq2[k], p)
  BY <1>3 DEF Party
<1>5. ASSUME NEW j \in Threads PROVE AskOK(pr, U, rq2[j])
  <2>1. CASE rq2[j].step = "ask"
    BY <1>2, <2>1 DEF Party
  <2>2. CASE rq2[j].step # "ask"
    BY <2>2 DEF AskOK
  <2> QED BY <2>1, <2>2
<1>6. \A j, k \in Threads : rq2[j].step = "ask" /\ rq2[k].step = "ask" /\ rq2[j].op = "exec" =>
       /\ rq2[k].op # "get"
       /\ rq2[k].op \in {"exec", "take"} /\ j # k => rq2[k].uid # rq2[j].uid
  <2>1. \A j, k \in Threads : rq[j].step = "ask" /\ rq[k].step = "ask" /\ rq[j].op = "exec" =>
          /\ rq[k].op # "get"
          /\ rq[k].op \in {"exec", "take"} /\ j # k => rq[k].uid # rq[j].uid
    BY DEF Party
  <2> QED BY <1>2, <2>1
<1>7. ASSUME NEW p \in Procs, pr[p].st = "live", pr[p].kill = "asked"
      PROVE p \in U \/ \E j \in Threads : rq2[j].step = "publish" /\ p \in rq2[j].closed
  <2>1. p \in U \/ \E j \in Threads : rq[j].step = "publish" /\ p \in rq[j].closed
    BY <1>7 DEF Party
  <2>2. \A j \in Threads : rq[j].step = "publish" => rq2[j] = rq[j]
    BY <1>1
  <2> QED BY <2>1, <2>2
<1>8. /\ pr \in [Procs -> ProcSet] /\ \A p \in Procs : pr[p].st = "none" => pr[p].kill = "no"
      /\ U \subseteq Procs /\ (\A p \in U : pr[p].st \in {"live", "ended"}) /\ sh \subseteq U
  BY DEF Party
<1> QED BY <1>4, <1>5, <1>6, <1>7, <1>8 DEF Party

\* A request with nothing to write ends.
LEMMA NothingStep ==
  ASSUME IInv, NEW h \in Threads, Nothing(h), req[h].step # "publish"
  PROVE  IInv'
<1> PICK B, H : Inv(B, H, next, board, tab, req, proc, shown)
  BY DEF IInv
<1>1. /\ req' = [req EXCEPT ![h] = Idle] /\ UNCHANGED <<board, proc, tab, shown, next>> /\ Idle.step = "idle"
  BY DEF Nothing, End, Step, Idle
<1>2. World(B, H, next, board, tab, req')
  BY <1>1, QuietWorld DEF Inv
<1>3. Party(proc, req', UidsOn(board), shown)
  BY <1>1, QuietParty DEF Inv
<1>4. Inv(B, H, next', board', tab', req', proc', shown')
  BY <1>1, <1>2, <1>3 DEF Inv
<1> QED BY <1>4 DEF IInv

\* Without insert a request locks every board.
LEMMA LockedIs == ASSUME InOrder, NEW h PROVE Locked(h) = DOMAIN board
<1> QED BY DEF Locked, InOrder

\* A process on no board has no terminal on any.
LEMMA Free ==
  ASSUME NEW p, p \notin UidsOn(board)
  PROVE  \A b \in DOMAIN board : /\ TerminalOf(board[b].doc, p) = {}
                                 /\ \A l \in OfType(board[b].doc, "terminal") : board[b].doc.tiles[l].uid # p
<1> QED BY UidsOnHas DEF TerminalOf

TileMade(type, uid, t) == t \in TileSet /\ t.type = type /\ t.uid = uid /\ t.bound = FALSE

LEMMA TileMadeIs ==
  ASSUME NEW type \in Kinds, NEW node \in Nodes \union {None}, NEW uid \in UIDs
  PROVE  TileMade(type, uid, Tile(type, node, uid))
<1> QED BY UidsAre DEF TileMade, Tile, TileSet

\* exec: the terminal of a new process, opened by the tile it was started from.
LEMMA AppendTerminalStep ==
  ASSUME IInv, InOrder, NEW h \in Threads, AppendTerminalTile(h)
  PROVE  IInv'
<1> PICK B, H : Inv(B, H, next, board, tab, req, proc, shown)
  BY DEF IInv
<1> DEFINE p == req[h].uid
           g == IF req[h].hash \in DOMAIN board THEN req[h].hash ELSE Default
           t == Tile("terminal", None, p)
           e == OpenTile(board[g].doc, req[h].at, next, t)
           reply == [ver |-> board[g].ver + 1, id |-> next, hash |-> g, tile |-> e.tiles[next]]
<1>1. Party(proc, req, UidsOn(board), shown) /\ Default \in DOMAIN board
  BY DEF Inv, World, BoardsFit
<1>2. req[h].step = "ask" /\ req[h].op = "exec"
  BY DEF AppendTerminalTile, Holds
<1>3. p \in Own /\ p \in Procs /\ p \notin UidsOn(board)
  BY <1>1, <1>2, OwnAssumption DEF Party, AskOK
<1>4. g \in DOMAIN board
  BY <1>1
<1>5. {b \in Locked(h) : TerminalOf(board[b].doc, p) # {}} = {}
  BY <1>3, Free, LockedIs
<1>6. Commit(h, On(g, e), {}, 1, TRUE, reply)
  BY <1>5, LockedIs DEF AppendTerminalTile
<1>7. TileMade("terminal", p, t)
  <2>1. "terminal" \in Kinds /\ p \in UIDs
    BY <1>3 DEF Kinds, UIDs
  <2> QED BY <2>1, TileMadeIs, UidsAre
<1>8. MayPut(h, {p})
  <2>1. AddsTo(req[h], p)
    BY <1>2 DEF AddsTo
  <2>2. proc[p].st \in {"live", "ended"}
    BY <1>1, <1>3, <2>1 DEF Party
  <2>3. \A k \in Threads \ {h} : req[k].step = "ask" /\ req[k].op = "exec" => req[k].uid # p
    BY <1>1, <1>2 DEF Party
  <2> QED BY <1>3, <2>2, <2>3 DEF MayPut
<1> HIDE DEF p, g, t
<1>9. NewTile(board, t)
  BY <1>3, <1>7, Free DEF NewTile, TileMade
<1>10. OpenOK(h, g, req[h].at, t, TRUE, reply)
  BY <1>2, <1>4, <1>7, <1>8, <1>9 DEF OpenOK, TileMade
<1> QED BY <1>6, <1>10, OpenStep

LEMMA BindingIs ==
  ASSUME NEW docs, NEW folders, NEW c \in BindingTile(docs, folders)
  PROVE  c[1] \in DOMAIN docs
<1> DEFINE have == {i \in DOMAIN folders : FoldersOf(docs, folders[i]) # {}}
           near == CHOOSE i \in have : \A j \in have : i <= j
<1>1. c \in Receiver(docs, FoldersOf(docs, folders[near]))
  BY DEF BindingTile
<1> HIDE DEF near
<1>2. c \in FoldersOf(docs, folders[near])
  BY <1>1 DEF Receiver
<1>3. \E h \in DOMAIN docs : \E id : c = <<h, id>>
  BY <1>2 DEF FoldersOf
<1> QED BY <1>3

\* attach: the terminal of a shared process, where its folder is pinned.
LEMMA InsertTerminalStep ==
  ASSUME IInv, InOrder, NEW h \in Threads, InsertTerminal(h)
  PROVE  IInv'
<1> PICK B, H : Inv(B, H, next, board, tab, req, proc, shown)
  BY DEF IInv
<1> DEFINE p == req[h].uid
           docs == [g \in DOMAIN board |-> board[g].doc]
           at == {c \in BindingTile(docs, Folders) : c[1] = tab.hash}
           t == Tile("terminal", None, p)
<1>1. Party(proc, req, UidsOn(board), shown)
  BY DEF Inv
<1>2. req[h].step = "ask" /\ req[h].op = "attach"
  BY DEF InsertTerminal, Holds
<1>3. p \in Procs \ Own
  BY <1>1, <1>2 DEF Party, AskOK
<1>4. CASE Nothing(h)
  BY <1>2, <1>4, NothingStep
<1>5. CASE ~Nothing(h)
  <2>1. LockedUIDs(h) = UidsOn(board)
    BY LockedIs DEF LockedUIDs, UidsOn
  <2>2. p \notin UidsOn(board)
    BY <1>5, <2>1 DEF InsertTerminal
  <2>3. \E c \in at : Commit(h, On(c[1], OpenTile(docs[c[1]], c[2], next, t)), {}, 1, FALSE, NoReply)
    BY <1>5, LockedIs DEF InsertTerminal
  <2>4. PICK c \in at : Commit(h, On(c[1], OpenTile(docs[c[1]], c[2], next, t)), {}, 1, FALSE, NoReply)
    BY <2>3
  <2>5. c[1] \in DOMAIN board
    BY BindingIs
  <2>6. docs[c[1]] = board[c[1]].doc
    BY <2>5
  <2>7. TileMade("terminal", p, t)
    <3>1. "terminal" \in Kinds /\ p \in UIDs
      BY <1>3 DEF Kinds, UIDs
    <3> QED BY <3>1, TileMadeIs, UidsAre
  <2>8. MayPut(h, {p})
    <3>1. AddsTo(req[h], p)
      BY <1>2 DEF AddsTo
    <3>2. proc[p].st \in {"live", "ended"}
      BY <1>1, <1>3, <3>1 DEF Party
    <3>3. \A k \in Threads \ {h} : req[k].step = "ask" /\ req[k].op = "exec" => req[k].uid \in Own
      BY <1>1 DEF Party, AskOK
    <3> QED BY <1>3, <3>2, <3>3 DEF MayPut
  <2> HIDE DEF p, docs, at, t
  <2>9. NewTile(board, t)
    BY <2>2, <2>7, Free DEF NewTile, TileMade
  <2>10. Commit(h, On(c[1], OpenTile(board[c[1]].doc, c[2], next, t)), {}, 1, FALSE, NoReply)
    BY <2>4, <2>6
  <2>11. OpenOK(h, c[1], c[2], t, FALSE, NoReply)
    BY <1>2, <2>5, <2>7, <2>8, <2>9 DEF OpenOK, TileMade
  <2> QED BY <2>10, <2>11, OpenStep
<1> QED BY <1>4, <1>5

\* attachSharedFolder: a tile for a folder that no tile shows.
LEMMA AttachSharedStep ==
  ASSUME IInv, InOrder, NEW h \in Threads, AttachSharedFolder(h)
  PROVE  IInv'
<1> PICK B, H : Inv(B, H, next, board, tab, req, proc, shown)
  BY DEF IInv
<1> DEFINE docs == [g \in DOMAIN board |-> board[g].doc]
           known == \E g \in DOMAIN board : \E k \in OfType(docs[g], "folder") : docs[g].tiles[k].uid = -1
           uid == IF known THEN None ELSE -1
<1>1. Default \in DOMAIN board
  BY DEF Inv, World, BoardsFit
<1>2. req[h].step = "ask" /\ req[h].op = "share"
  BY DEF AttachSharedFolder, Holds
<1>4. CASE Nothing(h)
  BY <1>2, <1>4, NothingStep
<1>5. CASE ~Nothing(h)
  <2>1. PICK n \in Nodes : Commit(h, On(Default, OpenTile(docs[Default], None, next, Tile("folder", n, uid))), {}, 1, FALSE, NoReply)
    BY <1>5, LockedIs DEF AttachSharedFolder
  <2>2. docs[Default] = board[Default].doc
    BY <1>1
  <2> DEFINE t == Tile("folder", n, uid)
  <2>3. uid = None \/ (uid = -1 /\ \A b \in DOMAIN board : \A l \in OfType(board[b].doc, "folder") : board[b].doc.tiles[l].uid # -1)
    OBVIOUS
  <2>4. uid \in UIDs
    BY UidsAre
  <2> HIDE DEF uid
  <2>5. TileMade("folder", uid, t)
    <3>1. "folder" \in Kinds
      BY DEF Kinds
    <3> QED BY <2>4, <3>1, TileMadeIs
  <2> HIDE DEF docs
  <2>6. NewTile(board, t)
    BY <2>3, <2>5 DEF NewTile, TileMade
  <2>7. Commit(h, On(Default, OpenTile(board[Default].doc, None, next, t)), {}, 1, FALSE, NoReply)
    BY <2>1, <2>2
  <2> HIDE DEF t
  <2>8. OpenOK(h, Default, None, t, FALSE, NoReply)
    BY <1>1, <1>2, <2>5, <2>6 DEF OpenOK, TileMade
  <2> QED BY <2>7, <2>8, OpenStep
<1> QED BY <1>4, <1>5

\* openVideoTile: a viewer, if the account has none for the file.
LEMMA OpenVideoStep ==
  ASSUME IInv, InOrder, NEW h \in Threads, OpenVideoTile(h)
  PROVE  IInv'
<1> PICK B, H : Inv(B, H, next, board, tab, req, proc, shown)
  BY DEF IInv
<1> DEFINE v == req[h].uid
           has(b) == {k \in OfType(board[b].doc, "viewer") : board[b].doc.tiles[k].uid = v}
           g == IF req[h].hash \in DOMAIN board THEN req[h].hash ELSE Default
           t == Tile("viewer", None, v)
           e == OpenTile(board[g].doc, req[h].at, next, t)
           reply == [ver |-> board[g].ver + 1, id |-> next, hash |-> g, tile |-> e.tiles[next]]
<1>1. Party(proc, req, UidsOn(board), shown) /\ Default \in DOMAIN board
  BY DEF Inv, World, BoardsFit
<1>2. req[h].step = "ask" /\ req[h].op = "video"
  BY DEF OpenVideoTile, Holds
<1>3. v \in Videos
  BY <1>1, <1>2 DEF Party, AskOK
<1>4. CASE Nothing(h)
  BY <1>2, <1>4, NothingStep
<1>5. CASE ~Nothing(h)
  <2>1. \A b \in DOMAIN board : has(b) = {}
    BY <1>5, LockedIs DEF OpenVideoTile
  <2>2. Commit(h, On(g, e), {}, 1, TRUE, reply)
    BY <1>5, LockedIs DEF OpenVideoTile
  <2>3. \A b \in DOMAIN board : \A l \in OfType(board[b].doc, "viewer") : board[b].doc.tiles[l].uid # v
    BY <2>1
  <2>4. TileMade("viewer", v, t)
    <3>1. "viewer" \in Kinds /\ v \in UIDs
      BY <1>3 DEF Kinds, UIDs
    <3> QED BY <3>1, TileMadeIs, UidsAre
  <2>5. g \in DOMAIN board
    BY <1>1
  <2> HIDE DEF v, g, t
  <2>6. NewTile(board, t)
    BY <2>3, <2>4 DEF NewTile, TileMade
  <2>7. OpenOK(h, g, req[h].at, t, TRUE, reply)
    BY <1>2, <2>4, <2>5, <2>6 DEF OpenOK, TileMade
  <2> QED BY <2>2, <2>7, OpenStep
<1> QED BY <1>4, <1>5

\* No terminal is left behind but those to be lost.
AllKept(docs, gone, lost0) ==
  \A b \in DOMAIN board : Touched(docs, gone, b) => \A k \in OfType(board[b].doc, "terminal") :
    (\E g \in DOMAIN docs : k \in Ids(docs[g])) \/ board[b].doc.tiles[k].uid \in lost0

\* A board the tab has edited is written at the version it knows, or no folder goes to another.
TabAside(B, docs) ==
  tab.hash \in DOMAIN docs => tab.hash \in DOMAIN board /\ (tab.ver = board[tab.hash].ver \/ KeptOn(B, board, docs, tab.hash))

\* What an action that moves tiles has to show.
MovesOK(h, docs, gone, B) ==
  /\ req[h].step = "ask" /\ req[h].op \notin {"exec", "video"}
  /\ Moves(next, board, docs, gone)
  /\ PinsOnce(Rows(board, docs, gone, next))
  /\ TabAside(B, docs)
  /\ AllKept(docs, gone, IF req[h].op = "purge" THEN {req[h].uid} ELSE {})

\* An action that moves tiles.
LEMMA MovesStep ==
  ASSUME NEW B, NEW H, Inv(B, H, next, board, tab, req, proc, shown), NEW h \in Threads,
         NEW docs, NEW gone, MovesOK(h, docs, gone, B), Commit(h, docs, gone, 0, FALSE, NoReply)
  PROVE  IInv'
<1>1. BoardsFit(B, next, board) /\ next \in Nat
  BY DEF Inv, World
<1>2. next + 0 + 1 \in Nat /\ next < next + 0 + 1
  BY <1>1
<1>3. Write(B, next, board, B, next + 0 + 1, docs, gone) /\ Fresh(next, board, docs)
  BY <1>1, <1>2, MovesWrite DEF MovesOK
<1>4. MayPut(h, {})
  BY DEF MayPut
<1>5. Puts(board, docs, gone, {}, IF req[h].op = "purge" THEN {req[h].uid} ELSE {})
  <2>1. \A g \in DOMAIN docs : \A k \in Ids(docs[g]) : k \in AllOf(board)
    BY DEF MovesOK, Moves, AllOf
  <2> QED BY <2>1 DEF MovesOK, AllKept, Puts, OfType
<1>6. CommitOK(h, docs, gone, 0, FALSE, NoReply, B, B, {})
  BY <1>3, <1>4, <1>5 DEF CommitOK, MovesOK, TabAside
<1> QED BY <1>6, CommitStep

\* Tiles that change only their place.
Same(t, u) == t.type = u.type /\ t.node = u.node /\ t.uid = u.uid /\ t.bound = u.bound
Carried(brd, docs, gone, k, t) ==
  \E b \in DOMAIN brd : Touched(docs, gone, b) /\ k \in Ids(brd[b].doc) /\ Same(t, brd[b].doc.tiles[k])

\* Tiles change their place, and no terminal is left behind.
Transfer(n, brd, docs, gone) ==
  /\ DOMAIN docs \subseteq DOMAIN brd \union {n} /\ gone \subseteq DOMAIN brd \ {Default} /\ gone \intersect DOMAIN docs = {}
  /\ \A g \in DOMAIN docs : docs[g] \in DocSet /\ IsValid(docs[g])
  /\ \A g, b \in DOMAIN docs : \A k \in Ids(docs[g]) : k \in Ids(docs[b]) => g = b
  /\ \A g \in DOMAIN docs : \A k \in Ids(docs[g]) : Carried(brd, docs, gone, k, docs[g].tiles[k])

LEMMA TransferIs ==
  ASSUME NEW n, NEW brd, NEW docs, NEW gone, Transfer(n, brd, docs, gone)
  PROVE  Moves(n, brd, docs, gone) /\ PinsKept(brd, docs, gone)
<1>1. Moves(n, brd, docs, gone)
  <2>1. ASSUME NEW g \in DOMAIN docs, NEW k \in Ids(docs[g])
        PROVE \E b \in DOMAIN brd : /\ Touched(docs, gone, b) /\ k \in Ids(brd[b].doc)
                                    /\ docs[g].tiles[k].type = brd[b].doc.tiles[k].type
                                    /\ docs[g].tiles[k].uid = brd[b].doc.tiles[k].uid
    <3>1. Carried(brd, docs, gone, k, docs[g].tiles[k])
      BY DEF Transfer
    <3> QED BY <3>1 DEF Carried, Same
  <2> QED BY <2>1 DEF Transfer, Moves
<1>2. ASSUME NEW g \in DOMAIN docs, NEW k \in OfType(docs[g], "folder"), docs[g].tiles[k].bound
      PROVE \E b \in DOMAIN brd : /\ k \in OfType(brd[b].doc, "folder") /\ brd[b].doc.tiles[k].bound
                                  /\ brd[b].doc.tiles[k].node = docs[g].tiles[k].node
  <2>1. Carried(brd, docs, gone, k, docs[g].tiles[k]) /\ docs[g].tiles[k].type = "folder"
    BY DEF Transfer, OfType
  <2> QED BY <1>2, <2>1 DEF Carried, Same, OfType
<1> QED BY <1>1, <1>2 DEF PinsKept

TransferOK(h, docs, gone, B) ==
  /\ req[h].step = "ask" /\ req[h].op \notin {"exec", "video"}
  /\ Transfer(next, board, docs, gone)
  /\ TabAside(B, docs)
  /\ AllKept(docs, gone, IF req[h].op = "purge" THEN {req[h].uid} ELSE {})

LEMMA TransferStep ==
  ASSUME NEW B, NEW H, Inv(B, H, next, board, tab, req, proc, shown), NEW h \in Threads,
         NEW docs, NEW gone, TransferOK(h, docs, gone, B), Commit(h, docs, gone, 0, FALSE, NoReply)
  PROVE  IInv'
<1>1. BoardsFit(B, next, board) /\ next \in Nat /\ Sound(B, board) /\ PinsOnce(board)
  BY DEF Inv, World
<1>2. Moves(next, board, docs, gone) /\ PinsKept(board, docs, gone)
  BY TransferIs DEF TransferOK
<1>3. next + 1 \in Nat /\ next < next + 1
  BY <1>1
<1>4. Write(B, next, board, B, next + 1, docs, gone)
  BY <1>1, <1>2, <1>3, MovesWrite
<1>5. RowsOK(board, docs, gone, next, Rows(board, docs, gone, next))
  BY <1>1, <1>4, RowsAre
<1>6. PinsOnce(Rows(board, docs, gone, next))
  BY <1>1, <1>2, <1>5, PinsAfter
<1>7. MovesOK(h, docs, gone, B)
  BY <1>2, <1>6 DEF MovesOK, TransferOK
<1> QED BY <1>7, MovesStep

\* The documents of the boards, as the actions read them.
Boards(B) ==
  /\ next \in Nat /\ Default \in DOMAIN board
  /\ \A g \in DOMAIN board : /\ board[g].doc \in DocSet /\ IsValid(board[g].doc)
                             /\ \A k \in Ids(board[g].doc) : B[k] = What(board[g].doc.tiles[k])
  /\ \A g, b \in DOMAIN board : \A k \in Ids(board[g].doc) : k \in Ids(board[b].doc) => g = b

LEMMA BoardsAre ==
  ASSUME NEW B, NEW H, Inv(B, H, next, board, tab, req, proc, shown)
  PROVE  Boards(B)
<1> QED BY DEF Inv, World, BoardsFit, Sound, Fit, Boards

LEMMA SameIs ==
  ASSUME NEW t, NEW u
  PROVE  Alike(t, u) => Same(t, u)
<1> QED BY DEF Alike, Same

LEMMA TerminalNotRoot ==
  ASSUME NEW d \in DocSet, IsValid(d), NEW k \in OfType(d, "terminal")
  PROVE  k \in Ids(d) \ {d.root}
<1> QED BY DEF IsValid, CanRoot, OfType

LEMMA TheTileIs ==
  ASSUME NEW d, NEW p, TerminalOf(d, p) # {}
  PROVE  TheTile(d, p) \in OfType(d, "terminal") /\ d.tiles[TheTile(d, p)].uid = p
<1>1. TheTile(d, p) \in TerminalOf(d, p)
  BY DEF TheTile
<1> QED BY <1>1 DEF TerminalOf

\* purge: the tiles of a process that ended are removed from all boards.
LEMMA PurgeTilesStep ==
  ASSUME IInv, InOrder, NEW h \in Threads, PurgeTiles(h)
  PROVE  IInv'
<1> PICK B, H : Inv(B, H, next, board, tab, req, proc, shown)
  BY DEF IInv
<1> DEFINE p == req[h].uid
           has == {g \in DOMAIN board : TerminalOf(board[g].doc, p) # {}}
           docs == [g \in has |-> RemoveTile(board[g].doc, TheTile(board[g].doc, p))]
<1>0. Boards(B)
  BY BoardsAre
<1>1. req[h].step = "ask" /\ req[h].op = "purge" /\ Commit(h, docs, {}, 0, FALSE, NoReply)
  BY LockedIs DEF PurgeTiles, Holds
<1>2. ASSUME NEW g \in has
      PROVE  /\ TheTile(board[g].doc, p) \in Ids(board[g].doc) \ {board[g].doc.root}
             /\ board[g].doc.tiles[TheTile(board[g].doc, p)].uid = p
             /\ IsValid(docs[g]) /\ RemovesTo(board[g].doc, TheTile(board[g].doc, p), docs[g])
  <2>1. TheTile(board[g].doc, p) \in OfType(board[g].doc, "terminal") /\ board[g].doc.tiles[TheTile(board[g].doc, p)].uid = p
    BY TheTileIs
  <2>2. board[g].doc \in DocSet /\ IsValid(board[g].doc)
    BY <1>0 DEF Boards
  <2>3. TheTile(board[g].doc, p) \in Ids(board[g].doc) \ {board[g].doc.root}
    BY <2>1, <2>2, TerminalNotRoot
  <2> QED BY <2>1, <2>2, <2>3, RemoveTileTyped, RemoveTileValid
<1>3. DOMAIN docs = has
  OBVIOUS
<1> HIDE DEF docs
<1>4. ASSUME NEW g \in DOMAIN docs
      PROVE docs[g] \in DocSet /\ IsValid(docs[g]) /\ Ids(docs[g]) \subseteq Ids(board[g].doc)
  BY <1>2, <1>3 DEF RemovesTo
<1>5. ASSUME NEW g \in DOMAIN docs, NEW k \in Ids(docs[g]) PROVE Carried(board, docs, {}, k, docs[g].tiles[k])
  <2>1. Alike(docs[g].tiles[k], board[g].doc.tiles[k])
    BY <1>2, <1>3 DEF RemovesTo
  <2> QED BY <1>3, <1>4, <2>1, SameIs DEF Carried, Touched
<1>6. \A g, b \in DOMAIN docs : \A k \in Ids(docs[g]) : k \in Ids(docs[b]) => g = b
  BY <1>0, <1>3, <1>4 DEF Boards
<1>7. Transfer(next, board, docs, {})
  BY <1>3, <1>4, <1>5, <1>6 DEF Transfer
<1>8. ASSUME NEW b \in DOMAIN board, Touched(docs, {}, b), NEW k \in OfType(board[b].doc, "terminal")
      PROVE (\E g \in DOMAIN docs : k \in Ids(docs[g])) \/ board[b].doc.tiles[k].uid = p
  <2>1. b \in DOMAIN docs
    BY <1>8 DEF Touched
  <2> QED BY <1>2, <1>3, <2>1 DEF RemovesTo, OfType
<1>9. AllKept(docs, {}, IF req[h].op = "purge" THEN {req[h].uid} ELSE {})
  BY <1>1, <1>8 DEF AllKept
<1>10. TabAside(B, docs)
  <2> SUFFICES ASSUME tab.hash \in DOMAIN docs PROVE tab.hash \in DOMAIN board /\ KeptOn(B, board, docs, tab.hash)
    BY DEF TabAside
  <2> QED BY <1>0, <1>3, <1>4 DEF KeptOn, Boards
<1>11. TransferOK(h, docs, {}, B)
  BY <1>1, <1>7, <1>9, <1>10 DEF TransferOK
<1> QED BY <1>1, <1>11, TransferStep

\* One board is written, with the tiles it has.
LEMMA OneStep ==
  ASSUME NEW B, NEW H, Inv(B, H, next, board, tab, req, proc, shown), NEW h \in Threads, NEW g \in DOMAIN board, NEW e,
         req[h].step = "ask", req[h].op \notin {"exec", "video", "purge"},
         e \in DocSet, IsValid(e), Ids(e) = Ids(board[g].doc), \A k \in Ids(e) : Same(e.tiles[k], board[g].doc.tiles[k]),
         Commit(h, On(g, e), {}, 0, FALSE, NoReply)
  PROVE  IInv'
<1> DEFINE docs == On(g, e)
<1>1. DOMAIN docs = {g} /\ docs[g] = e
  BY OnIs
<1>2. Commit(h, docs, {}, 0, FALSE, NoReply)
  OBVIOUS
<1> HIDE DEF docs
<1>3. Transfer(next, board, docs, {})
  <2>1. \A k \in Ids(e) : Carried(board, docs, {}, k, e.tiles[k])
    BY <1>1 DEF Carried, Touched
  <2> QED BY <1>1, <2>1 DEF Transfer
<1>4. TabAside(B, docs)
  BY <1>1 DEF TabAside, KeptOn
<1>5. AllKept(docs, {}, IF req[h].op = "purge" THEN {req[h].uid} ELSE {})
  BY <1>1 DEF AllKept, Touched, OfType
<1>6. TransferOK(h, docs, {}, B)
  BY <1>3, <1>4, <1>5 DEF TransferOK
<1> QED BY <1>2, <1>6, TransferStep

MovedFrom(h, g, opener, b) ==
  LET id == TheTile(board[b].doc, req[h].uid)
      t == board[b].doc.tiles[id]
      rest == RemoveTile(board[b].doc, id)
  IN IF b = g /\ t.parent = opener THEN Nothing(h)
     ELSE Commit(h, [k \in {b, g} |-> IF k = g THEN OpenTile(IF b = g THEN rest ELSE board[g].doc, opener, id, t)
                                      ELSE rest], {}, 0, FALSE, NoReply)

LEMMA MovedFromStep ==
  ASSUME NEW B, NEW H, Inv(B, H, next, board, tab, req, proc, shown), NEW h \in Threads, NEW g \in DOMAIN board, NEW opener,
         req[h].step = "ask", req[h].op \notin {"exec", "video", "purge"},
         NEW b \in DOMAIN board, TerminalOf(board[b].doc, req[h].uid) # {}, MovedFrom(h, g, opener, b)
  PROVE  IInv'
<1> DEFINE d == board[b].doc
           id == TheTile(d, req[h].uid)
           t == d.tiles[id]
           rest == RemoveTile(d, id)
<1>0. Boards(B)
  BY BoardsAre
<1>1. CASE Nothing(h)
  <2>1. IInv
    BY DEF IInv
  <2> QED BY <1>1, <2>1, NothingStep
<1>2. CASE ~Nothing(h)
  <2>1. d \in DocSet /\ IsValid(d)
    BY <1>0 DEF Boards
  <2>2. id \in OfType(d, "terminal")
    BY TheTileIs
  <2>3. id \in Ids(d) \ {d.root} /\ t.type = "terminal" /\ id \in Nat \ {0} /\ t \in TileSet
    <3>1. id \in Ids(d) \ {d.root}
      BY <2>1, <2>2, TerminalNotRoot
    <3>2. d.tiles \in [Ids(d) -> TileSet] /\ Ids(d) \subseteq Nat \ {0}
      BY <2>1, DocIs
    <3> QED BY <2>2, <3>1, <3>2 DEF OfType
  <2> HIDE DEF id
  <2>4. RemovesTo(d, id, rest) /\ IsValid(rest)
    BY <2>1, <2>3, RemoveTileTyped, RemoveTileValid
  <2> HIDE DEF rest, t
  <2>5. rest \in DocSet /\ Ids(rest) = Ids(d) \ {id} /\ \A k \in Ids(rest) : Same(rest.tiles[k], d.tiles[k])
    BY <2>4, SameIs DEF RemovesTo
  <2>6. CASE b = g
    <3> DEFINE e == OpenTile(rest, opener, id, t)
    <3>1. OpensTo(rest, id, t, e) /\ IsValid(e)
      BY <2>3, <2>4, <2>5, OpenTileTyped, OpenTileValid
    <3>2. Commit(h, [k \in {b, g} |-> IF k = g THEN e ELSE rest], {}, 0, FALSE, NoReply)
      BY <1>2, <2>6 DEF MovedFrom, id, t, rest
    <3> HIDE DEF e
    <3>3. [k \in {b, g} |-> IF k = g THEN e ELSE rest] = On(g, e)
      BY <2>6 DEF On
    <3>4. e \in DocSet /\ Ids(e) = Ids(d) /\ \A k \in Ids(e) : Same(e.tiles[k], d.tiles[k])
      <4>1. e \in DocSet /\ Ids(e) = Ids(d)
        BY <2>3, <2>5, <3>1 DEF OpensTo
      <4>2. Same(e.tiles[id], t)
        BY <3>1, SameIs DEF OpensTo
      <4>3. \A k \in Ids(rest) : Same(e.tiles[k], d.tiles[k])
        BY <2>5, <3>1 DEF OpensTo
      <4>4. Same(e.tiles[id], d.tiles[id])
        BY <4>2 DEF t
      <4> QED BY <2>5, <4>1, <4>3, <4>4
    <3>5. Commit(h, On(g, e), {}, 0, FALSE, NoReply)
      BY <3>2, <3>3
    <3> QED BY <2>6, <3>1, <3>4, <3>5, OneStep
  <2>7. CASE b # g
    <3> DEFINE e == OpenTile(board[g].doc, opener, id, t)
               docs == [k \in {b, g} |-> IF k = g THEN e ELSE rest]
    <3>1. Commit(h, docs, {}, 0, FALSE, NoReply)
      BY <1>2, <2>7 DEF MovedFrom, id, t, rest
    <3>2. board[g].doc \in DocSet /\ IsValid(board[g].doc) /\ id \notin Ids(board[g].doc)
      BY <1>0, <2>3, <2>7 DEF Boards
    <3>3. OpensTo(board[g].doc, id, t, e) /\ IsValid(e)
      BY <2>3, <3>2, OpenTileTyped, OpenTileValid
    <3> HIDE DEF e
    <3>4. DOMAIN docs = {b, g} /\ docs[g] = e /\ docs[b] = rest
      BY <2>7
    <3> HIDE DEF docs
    <3>5. /\ e \in DocSet /\ Ids(e) = Ids(board[g].doc) \union {id}
          /\ Same(e.tiles[id], d.tiles[id]) /\ \A k \in Ids(board[g].doc) : Same(e.tiles[k], board[g].doc.tiles[k])
      <4>1. Same(e.tiles[id], t)
        BY <3>3, SameIs DEF OpensTo
      <4>2. \A k \in Ids(board[g].doc) : e.tiles[k] = board[g].doc.tiles[k]
        BY <3>2, <3>3 DEF OpensTo
      <4> QED BY <3>3, <4>1, <4>2 DEF OpensTo, Same, t
    <3>6. \A k \in Ids(rest) : k \notin Ids(e)
      BY <1>0, <2>5, <2>7, <3>5 DEF Boards
    <3>7. Transfer(next, board, docs, {})
      <4>1. \A k \in Ids(rest) : Carried(board, docs, {}, k, rest.tiles[k])
        BY <2>5, <3>4 DEF Carried, Touched
      <4>2. \A k \in Ids(e) : Carried(board, docs, {}, k, e.tiles[k])
        BY <2>3, <3>4, <3>5 DEF Carried, Touched
      <4> QED BY <2>4, <2>5, <3>3, <3>4, <3>5, <3>6, <4>1, <4>2 DEF Transfer
    <3>8. AllKept(docs, {}, IF req[h].op = "purge" THEN {req[h].uid} ELSE {})
      <4> SUFFICES ASSUME NEW a \in DOMAIN board, Touched(docs, {}, a), NEW k \in OfType(board[a].doc, "terminal")
                   PROVE \E c \in DOMAIN docs : k \in Ids(docs[c])
        BY DEF AllKept
      <4>1. a \in {b, g}
        BY <3>4 DEF Touched
      <4> QED BY <2>5, <3>4, <3>5, <4>1 DEF OfType
    <3>9. TabAside(B, docs)
      <4>1. B[id][1] = "terminal"
        BY <1>0, <2>3 DEF Boards, What, t
      <4>2. KeptOn(B, board, docs, b)
        BY <1>0, <2>7, <3>4, <3>5, <4>1 DEF KeptOn, Boards
      <4>3. KeptOn(B, board, docs, g)
        BY <1>0, <2>5, <2>7, <3>4 DEF KeptOn, Boards
      <4> QED BY <3>4, <4>2, <4>3 DEF TabAside
    <3>10. TransferOK(h, docs, {}, B)
      BY <3>7, <3>8, <3>9 DEF TransferOK
    <3> QED BY <3>1, <3>10, TransferStep
  <2> QED BY <2>6, <2>7
<1> QED BY <1>1, <1>2

\* bindProcessTile: the terminal of a process goes to the tile asked for, or is opened there.
LEMMA TakeStep ==
  ASSUME IInv, InOrder, NEW h \in Threads, BindProcessTile(h)
  PROVE  IInv'
<1> PICK B, H : Inv(B, H, next, board, tab, req, proc, shown)
  BY DEF IInv
<1> DEFINE p == req[h].uid
           from == {b \in DOMAIN board : TerminalOf(board[b].doc, p) # {}}
<1>1. req[h].step = "ask" /\ req[h].op = "take"
  BY DEF BindProcessTile, Holds
<1>6. PICK g \in DOMAIN board : \E at \in Ids(board[g].doc) : MoveTerminal(h, g, at)
  BY LockedIs DEF BindProcessTile
<1>2. PICK at \in Ids(board[g].doc) : MoveTerminal(h, g, at)
  BY <1>6
<1> DEFINE opener == IF at \in Ids(board[g].doc) /\ CanParent(board[g].doc.tiles[at]) THEN at ELSE board[g].doc.root
           t == Tile("terminal", None, p)
<1>3. CASE from # {}
  <2>1. \E b \in from : MovedFrom(h, g, opener, b)
    BY <1>2, <1>3, LockedIs DEF MoveTerminal, MovedFrom
  <2>2. PICK b \in from : MovedFrom(h, g, opener, b)
    BY <2>1
  <2> HIDE DEF opener
  <2>3. b \in DOMAIN board /\ TerminalOf(board[b].doc, p) # {}
    OBVIOUS
  <2> QED BY <1>1, <2>2, <2>3, MovedFromStep
<1>4. CASE from = {} /\ Nothing(h)
  BY <1>1, <1>4, NothingStep
<1>5. CASE from = {} /\ ~Nothing(h)
  <2>1. IsLive(p) /\ Commit(h, On(g, OpenTile(board[g].doc, opener, next, t)), {}, 1, FALSE, NoReply)
    BY <1>2, <1>5, LockedIs DEF MoveTerminal
  <2>2. Party(proc, req, UidsOn(board), shown)
    BY DEF Inv
  <2>3. p \in Procs
    BY <1>1, <2>2 DEF Party, AskOK
  <2>4. \A b \in DOMAIN board : \A l \in OfType(board[b].doc, "terminal") : board[b].doc.tiles[l].uid # p
    BY <1>5 DEF TerminalOf
  <2>5. TileMade("terminal", p, t)
    <3>1. "terminal" \in Kinds /\ p \in UIDs
      BY <2>3 DEF Kinds, UIDs
    <3> QED BY <3>1, TileMadeIs, UidsAre
  <2>6. MayPut(h, {p})
    <3>1. \A k \in Threads \ {h} : req[k].step = "ask" /\ req[k].op = "exec" => req[k].uid # p
      BY <1>1, <2>2 DEF Party
    <3> QED BY <2>1, <2>3, <3>1 DEF MayPut, IsLive
  <2> HIDE DEF p, opener, t
  <2>7. NewTile(board, t)
    BY <2>4, <2>5 DEF NewTile, TileMade
  <2>8. OpenOK(h, g, opener, t, FALSE, NoReply)
    BY <1>1, <2>5, <2>6, <2>7 DEF OpenOK, TileMade
  <2> QED BY <2>1, <2>8, OpenStep
<1> QED BY <1>3, <1>4, <1>5

----------
\* The documents moveWorkspaceTile writes when two boards are involved.
TakenPut(after, g, b, id) ==
  [k \in {g, b} |-> IF k = g THEN TakeOpened(board[g].doc, id) ELSE PutOpened(board[b].doc, after, board[g].doc, id)]

\* moveWorkspaceTile: a tile within its board, or with all it opened to another one.
LEMMA MoveTileStep ==
  ASSUME IInv, InOrder, NEW h \in Threads, MoveWorkspaceTile(h)
  PROVE  IInv'
<1> PICK B, H : Inv(B, H, next, board, tab, req, proc, shown)
  BY DEF IInv
<1>0. Boards(B)
  BY BoardsAre
<1>1. req[h].step = "ask" /\ req[h].op = "move"
  BY DEF MoveWorkspaceTile, Holds
<1>2. CASE Nothing(h)
  BY <1>1, <1>2, NothingStep
<1>3. CASE ~Nothing(h)
  <2>0. Locked(h) = DOMAIN board
    BY LockedIs
  <2> DEFINE P(g, b) == \E id \in Ids(board[g].doc) \ {board[g].doc.root},
               after \in Ids(board[b].doc) \union {None} :
               /\ after # id
               /\ IF g = tab.hash /\ board[g].ver # tab.ver THEN Nothing(h)
                  ELSE Commit(h, IF g = b THEN On(g, MoveAfter(board[g].doc, id, after))
                                 ELSE [k \in {g, b} |-> IF k = g THEN TakeOpened(board[g].doc, id)
                                                ELSE PutOpened(board[b].doc, after, board[g].doc, id)], {}, 0, FALSE, NoReply)
  <2>9. \E g, b \in Locked(h) : P(g, b)
    BY DEF MoveWorkspaceTile
  <2> HIDE DEF P
  <2>1. PICK g \in DOMAIN board, b \in DOMAIN board : P(g, b)
    BY <2>0, <2>9
  <2>2. PICK id \in Ids(board[g].doc) \ {board[g].doc.root}, after \in Ids(board[b].doc) \union {None} :
               /\ after # id
               /\ IF g = tab.hash /\ board[g].ver # tab.ver THEN Nothing(h)
                  ELSE Commit(h, IF g = b THEN On(g, MoveAfter(board[g].doc, id, after))
                                 ELSE [k \in {g, b} |-> IF k = g THEN TakeOpened(board[g].doc, id)
                                                ELSE PutOpened(board[b].doc, after, board[g].doc, id)], {}, 0, FALSE, NoReply)
    BY <2>1 DEF P
  <2>3. /\ g = tab.hash => board[g].ver = tab.ver
        /\ Commit(h, IF g = b THEN On(g, MoveAfter(board[g].doc, id, after)) ELSE TakenPut(after, g, b, id), {}, 0, FALSE, NoReply)
    BY <1>3, <2>2 DEF TakenPut
  <2> DEFINE d == board[g].doc
  <2>4. d \in DocSet /\ IsValid(d) /\ board[b].doc \in DocSet /\ IsValid(board[b].doc)
    BY <1>0 DEF Boards
  <2>5. CASE g = b
    <3> DEFINE e == MoveAfter(d, id, after)
    <3>1. Commit(h, On(g, e), {}, 0, FALSE, NoReply)
      BY <2>3, <2>5
    <3>2. e \in DocSet /\ IsValid(e) /\ Ids(e) = Ids(d) /\ \A k \in Ids(d) : e.tiles[k] = d.tiles[k]
      BY <2>4, MoveAfterIs
    <3> HIDE DEF e
    <3>3. \A k \in Ids(e) : Same(e.tiles[k], d.tiles[k])
      BY <3>2 DEF Same
    <3> QED BY <1>1, <3>1, <3>2, <3>3, OneStep
  <2>6. CASE g # b
    <3> DEFINE docs == TakenPut(after, g, b, id)
               e == TakeOpened(d, id)
               f == PutOpened(board[b].doc, after, d, id)
               S == Subtree(d, id)
    <3>1. Commit(h, docs, {}, 0, FALSE, NoReply)
      BY <2>3, <2>6
    <3>2. DOMAIN docs = {g, b} /\ docs[g] = e /\ docs[b] = f
      BY <2>6 DEF TakenPut
    <3> HIDE DEF docs
    <3>3. e \in DocSet /\ IsValid(e) /\ Ids(e) = Ids(d) \ S /\ \A k \in Ids(e) : e.tiles[k] = d.tiles[k]
      BY <2>4, TakeOpenedIs
    <3>4. S \subseteq Ids(d)
      BY SubtreeIs
    <3>5. S \intersect Ids(board[b].doc) = {}
      BY <1>0, <2>6, <3>4 DEF Boards
    <3>6. /\ f \in DocSet /\ IsValid(f) /\ Ids(f) = Ids(board[b].doc) \union S
          /\ \A k \in Ids(board[b].doc) : f.tiles[k] = board[b].doc.tiles[k]
          /\ \A k \in S : Alike(f.tiles[k], d.tiles[k])
      BY <2>4, <3>5, PutOpenedIs
    <3> HIDE DEF e, f, S
    <3>7. Transfer(next, board, docs, {})
      <4>1. \A k \in Ids(e) : Carried(board, docs, {}, k, e.tiles[k])
        BY <3>2, <3>3 DEF Carried, Touched, Same
      <4>2. ASSUME NEW k \in Ids(f) PROVE Carried(board, docs, {}, k, f.tiles[k])
        <5>1. CASE k \in S
          BY <3>2, <3>4, <3>6, <5>1, SameIs DEF Carried, Touched
        <5>2. CASE k \in Ids(board[b].doc)
          BY <3>2, <3>6, <5>2 DEF Carried, Touched, Same
        <5> QED BY <3>6, <5>1, <5>2
      <4>3. \A k \in Ids(e) : k \notin Ids(f)
        BY <1>0, <2>6, <3>3, <3>6 DEF Boards
      <4> QED BY <3>2, <3>3, <3>6, <4>1, <4>2, <4>3 DEF Transfer
    <3>8. AllKept(docs, {}, IF req[h].op = "purge" THEN {req[h].uid} ELSE {})
      <4> SUFFICES ASSUME NEW a \in DOMAIN board, Touched(docs, {}, a), NEW k \in OfType(board[a].doc, "terminal")
                   PROVE \E c \in DOMAIN docs : k \in Ids(docs[c])
        BY DEF AllKept
      <4>1. a \in {b, g}
        BY <3>2 DEF Touched
      <4> QED BY <3>2, <3>3, <3>6, <4>1 DEF OfType
    <3>9. TabAside(B, docs)
      <4>1. KeptOn(B, board, docs, b)
        BY <1>0, <2>6, <3>2, <3>3 DEF KeptOn, Boards
      <4> QED BY <2>3, <3>2, <4>1 DEF TabAside
    <3>10. TransferOK(h, docs, {}, B)
      BY <1>1, <3>7, <3>8, <3>9 DEF TransferOK
    <3> QED BY <3>1, <3>10, TransferStep
  <2> QED BY <2>5, <2>6
<1> QED BY <1>2, <1>3

\* deleteWorkspace: what is on the board goes to the default one.
LEMMA DeleteStep ==
  ASSUME IInv, InOrder, NEW h \in Threads, DeleteWorkspace(h)
  PROVE  IInv'
<1> PICK B, H : Inv(B, H, next, board, tab, req, proc, shown)
  BY DEF IInv
<1>0. Boards(B)
  BY BoardsAre
<1>1. req[h].step = "ask" /\ req[h].op = "delete"
  BY DEF DeleteWorkspace, Holds
<1>2. PICK g \in DOMAIN board \ {Default} :
        Commit(h, On(Default, PutOpened(board[Default].doc, None, board[g].doc, board[g].doc.root)), {g}, 0, FALSE, NoReply)
  BY LockedIs DEF DeleteWorkspace
<1> DEFINE d == board[g].doc
           to == board[Default].doc
           f == PutOpened(to, None, d, d.root)
           docs == On(Default, f)
<1>3. Default \in DOMAIN board /\ d \in DocSet /\ IsValid(d) /\ to \in DocSet /\ IsValid(to)
  BY <1>0 DEF Boards
<1>4. d.root \in Ids(d) /\ Subtree(d, d.root) = Ids(d)
  BY <1>3 DEF IsValid
<1>5. \A k \in Ids(d) : k \notin Ids(to)
  BY <1>0, <1>3 DEF Boards
<1>6. /\ f \in DocSet /\ IsValid(f) /\ Ids(f) = Ids(to) \union Subtree(d, d.root)
      /\ \A k \in Ids(to) : f.tiles[k] = to.tiles[k]
      /\ \A k \in Subtree(d, d.root) : Alike(f.tiles[k], d.tiles[k])
  BY <1>3, <1>4, <1>5, PutOpenedIs
<1> HIDE DEF f
<1>7. DOMAIN docs = {Default} /\ docs[Default] = f
  BY OnIs
<1>8. Commit(h, docs, {g}, 0, FALSE, NoReply)
  BY <1>2 DEF f
<1> HIDE DEF docs
<1>9. Transfer(next, board, docs, {g})
  <2>2. ASSUME NEW k \in Ids(f) PROVE Carried(board, docs, {g}, k, f.tiles[k])
    <3>1. CASE k \in Ids(d)
      BY <1>4, <1>6, <1>7, <3>1, SameIs DEF Carried, Touched
    <3>2. CASE k \in Ids(to)
      BY <1>3, <1>6, <1>7, <3>2 DEF Carried, Touched, Same
    <3> QED BY <1>4, <1>6, <3>1, <3>2
  <2> QED BY <1>3, <1>6, <1>7, <2>2 DEF Transfer
<1>10. AllKept(docs, {g}, IF req[h].op = "purge" THEN {req[h].uid} ELSE {})
  <2> SUFFICES ASSUME NEW a \in DOMAIN board, Touched(docs, {g}, a), NEW k \in OfType(board[a].doc, "terminal")
               PROVE \E c \in DOMAIN docs : k \in Ids(docs[c])
    BY DEF AllKept
  <2>1. a \in {Default, g}
    BY <1>7 DEF Touched
  <2> QED BY <1>4, <1>6, <1>7, <2>1 DEF OfType
<1>11. TabAside(B, docs)
  BY <1>3, <1>7 DEF TabAside, KeptOn
<1>12. TransferOK(h, docs, {g}, B)
  BY <1>1, <1>9, <1>10, <1>11 DEF TransferOK
<1> QED BY <1>8, <1>12, TransferStep

\* The documents bindTile writes.
PinsTo(docs, g, id, node) ==
  /\ DOMAIN docs \subseteq DOMAIN board
  /\ \A b \in DOMAIN docs : docs[b] = Pin(board[b].doc, b, g, id, node)
  /\ \A b \in DOMAIN board \ DOMAIN docs : Pin(board[b].doc, b, g, id, node) = board[b].doc

LEMMA PinnedIs ==
  ASSUME NEW h, Locked(h) = DOMAIN board, NEW g, NEW id, NEW node
  PROVE  PinsTo(Pinned(h, g, id, node), g, id, node)
<1> DEFINE docs == Pinned(h, g, id, node)
           all == [b \in DOMAIN board |-> Pin(board[b].doc, b, g, id, node)]
<1>1. docs = [b \in {b \in DOMAIN board : all[b] # board[b].doc} |-> all[b]]
  BY DEF Pinned, Pin
<1>2. \A b \in DOMAIN board : all[b] = Pin(board[b].doc, b, g, id, node)
  OBVIOUS
<1> HIDE DEF docs, all
<1>3. DOMAIN docs = {b \in DOMAIN board : all[b] # board[b].doc} /\ \A b \in DOMAIN docs : docs[b] = all[b]
  BY <1>1
<1>4. PinsTo(docs, g, id, node)
  BY <1>2, <1>3 DEF PinsTo
<1> QED BY <1>4 DEF docs

\* How a document looks once its pins are set.
PinnedAs(d, e, b, g, id, node) ==
  /\ e \in DocSet /\ SameShape(d, e)
  /\ \A k \in Ids(d) :
       /\ e.tiles[k].type = d.tiles[k].type /\ e.tiles[k].node = d.tiles[k].node /\ e.tiles[k].uid = d.tiles[k].uid
       /\ e.tiles[k].bound = IF d.tiles[k].type = "folder" /\ d.tiles[k].node = node THEN b = g /\ k = id ELSE d.tiles[k].bound

LEMMA PinnedAsIs ==
  ASSUME NEW d \in DocSet, NEW b, NEW g, NEW id, NEW node
  PROVE  PinnedAs(d, Pin(d, b, g, id, node), b, g, id, node)
<1> DEFINE e == Pin(d, b, g, id, node)
<1>1. /\ e \in DocSet /\ SameShape(d, e)
      /\ \A k \in Ids(d) :
              /\ What(e.tiles[k]) = What(d.tiles[k]) /\ e.tiles[k].type = d.tiles[k].type
              /\ e.tiles[k].node = d.tiles[k].node /\ e.tiles[k].uid = d.tiles[k].uid
              /\ e.tiles[k].bound = IF d.tiles[k].type = "folder" /\ d.tiles[k].node = node THEN b = g /\ k = id ELSE d.tiles[k].bound
  BY PinIs
<1> HIDE DEF e
<1>2. PinnedAs(d, e, b, g, id, node)
  BY <1>1 DEF PinnedAs
<1> QED BY <1>2 DEF e

\* bindTile: the pin of a node is set here and taken away elsewhere.
LEMMA BindStep ==
  ASSUME IInv, InOrder, NEW h \in Threads, BindTile(h)
  PROVE  IInv'
<1> PICK B, H : Inv(B, H, next, board, tab, req, proc, shown)
  BY DEF IInv
<1>0. Boards(B)
  BY BoardsAre
<1>1. req[h].step = "ask" /\ req[h].op = "bind" /\ Locked(h) = DOMAIN board
  BY LockedIs DEF BindTile, Holds
<1>2. PICK g \in DOMAIN board : \E id \in FolderTiles(board[g].doc) :
        Commit(h, Pinned(h, g, id, board[g].doc.tiles[id].node), {}, 0, FALSE, NoReply)
  BY <1>1 DEF BindTile
<1>3. PICK id \in FolderTiles(board[g].doc) :
        Commit(h, Pinned(h, g, id, board[g].doc.tiles[id].node), {}, 0, FALSE, NoReply)
  BY <1>2
<1> DEFINE node == board[g].doc.tiles[id].node
           docs == Pinned(h, g, id, node)
           brd2 == Rows(board, docs, {}, next)
<1>4. Commit(h, docs, {}, 0, FALSE, NoReply)
  BY <1>3
<1> HIDE DEF node
<1>5. /\ DOMAIN docs \subseteq DOMAIN board
      /\ \A b \in DOMAIN docs : docs[b] = Pin(board[b].doc, b, g, id, node)
      /\ \A b \in DOMAIN board \ DOMAIN docs : Pin(board[b].doc, b, g, id, node) = board[b].doc
  <2>1. PinsTo(docs, g, id, node)
    BY <1>1, PinnedIs
  <2> QED BY <2>1 DEF PinsTo
<1> HIDE DEF docs
<1>6. \A b \in DOMAIN board : PinnedAs(board[b].doc, Pin(board[b].doc, b, g, id, node), b, g, id, node)
  BY <1>0, PinnedAsIs DEF Boards
<1>7. /\ \A b \in DOMAIN docs : PinnedAs(board[b].doc, docs[b], b, g, id, node)
      /\ \A b \in DOMAIN board \ DOMAIN docs : PinnedAs(board[b].doc, board[b].doc, b, g, id, node)
  <2>1. ASSUME NEW b \in DOMAIN docs PROVE PinnedAs(board[b].doc, docs[b], b, g, id, node)
    BY <1>5, <1>6
  <2>2. ASSUME NEW b \in DOMAIN board \ DOMAIN docs PROVE PinnedAs(board[b].doc, board[b].doc, b, g, id, node)
    <3>1. PinnedAs(board[b].doc, Pin(board[b].doc, b, g, id, node), b, g, id, node)
      BY <1>6
    <3>2. Pin(board[b].doc, b, g, id, node) = board[b].doc
      BY <1>5
    <3> QED BY <3>1, <3>2
  <2> QED BY <2>1, <2>2
<1>8. Moves(next, board, docs, {})
  <2>1. ASSUME NEW b \in DOMAIN docs
        PROVE /\ docs[b] \in DocSet /\ IsValid(docs[b]) /\ Ids(docs[b]) = Ids(board[b].doc)
              /\ \A k \in Ids(docs[b]) : /\ docs[b].tiles[k].type = board[b].doc.tiles[k].type
                                         /\ docs[b].tiles[k].uid = board[b].doc.tiles[k].uid
    <3>1. PinnedAs(board[b].doc, docs[b], b, g, id, node) /\ b \in DOMAIN board
      BY <1>5, <1>7
    <3>2. docs[b] \in DocSet /\ SameShape(board[b].doc, docs[b]) /\ board[b].doc \in DocSet /\ IsValid(board[b].doc)
      BY <1>0, <3>1 DEF PinnedAs, Boards
    <3>3. IsValid(docs[b])
      BY <3>2, ShapeValid
    <3> QED BY <3>1, <3>2, <3>3 DEF PinnedAs, SameShape
  <2>2. \A b, c \in DOMAIN docs : \A k \in Ids(docs[b]) : k \in Ids(docs[c]) => b = c
    BY <1>0, <1>5, <2>1 DEF Boards
  <2> QED BY <1>5, <2>1, <2>2 DEF Moves, Touched
<1>9. BoardsFit(B, next, board) /\ Sound(B, board) /\ PinsOnce(board) /\ next \in Nat
  BY DEF Inv, World
<1>10. RowsOK(board, docs, {}, next, brd2)
  <2>1. next + 1 \in Nat /\ next < next + 1
    BY <1>9
  <2>2. Write(B, next, board, B, next + 1, docs, {})
    BY <1>8, <1>9, <2>1, MovesWrite
  <2> QED BY <1>9, <2>2, RowsAre
<1> HIDE DEF brd2
<1>11. PinsOnce(brd2)
  <2>1. ASSUME NEW b \in DOMAIN brd2, NEW k \in OfType(brd2[b].doc, "folder")
        PROVE /\ b \in DOMAIN board /\ k \in OfType(board[b].doc, "folder")
              /\ brd2[b].doc.tiles[k].node = board[b].doc.tiles[k].node
              /\ brd2[b].doc.tiles[k].bound = IF board[b].doc.tiles[k].node = node THEN b = g /\ k = id ELSE board[b].doc.tiles[k].bound
    <3>1. CASE b \in DOMAIN docs
      <4>1. k \in Ids(docs[b]) /\ docs[b].tiles[k].type = "folder"
        BY <1>10, <2>1, <3>1 DEF RowsOK, SameShape, OfType
      <4>2. PinnedAs(board[b].doc, docs[b], b, g, id, node) /\ b \in DOMAIN board
        BY <1>5, <1>7, <3>1
      <4>3. brd2[b].doc.tiles[k].node = docs[b].tiles[k].node /\ brd2[b].doc.tiles[k].bound = docs[b].tiles[k].bound
        BY <1>10, <3>1, <4>1 DEF RowsOK
      <4> QED BY <4>1, <4>2, <4>3 DEF PinnedAs, SameShape, OfType
    <3>2. CASE b \notin DOMAIN docs
      <4>1. b \in DOMAIN board /\ brd2[b] = board[b]
        BY <1>10, <3>2 DEF RowsOK
      <4>2. PinnedAs(board[b].doc, board[b].doc, b, g, id, node)
        BY <1>7, <3>2, <4>1
      <4> QED BY <2>1, <4>1, <4>2 DEF PinnedAs, OfType
    <3> QED BY <3>1, <3>2
  <2> SUFFICES ASSUME NEW a \in DOMAIN brd2, NEW b \in DOMAIN brd2,
                      NEW k \in OfType(brd2[a].doc, "folder"), NEW l \in OfType(brd2[b].doc, "folder"),
                      brd2[a].doc.tiles[k].node = brd2[b].doc.tiles[l].node,
                      brd2[a].doc.tiles[k].bound, brd2[b].doc.tiles[l].bound
               PROVE k = l
    BY DEF PinsOnce
  <2>2. /\ a \in DOMAIN board /\ k \in OfType(board[a].doc, "folder")
        /\ brd2[a].doc.tiles[k].node = board[a].doc.tiles[k].node
        /\ brd2[a].doc.tiles[k].bound = IF board[a].doc.tiles[k].node = node THEN a = g /\ k = id ELSE board[a].doc.tiles[k].bound
        /\ b \in DOMAIN board /\ l \in OfType(board[b].doc, "folder")
        /\ brd2[b].doc.tiles[l].node = board[b].doc.tiles[l].node
        /\ brd2[b].doc.tiles[l].bound = IF board[b].doc.tiles[l].node = node THEN b = g /\ l = id ELSE board[b].doc.tiles[l].bound
    BY <2>1
  <2>3. CASE board[a].doc.tiles[k].node = node
    BY <2>2, <2>3
  <2>4. CASE board[a].doc.tiles[k].node # node
    <3>1. board[a].doc.tiles[k].bound /\ board[b].doc.tiles[l].bound /\ board[a].doc.tiles[k].node = board[b].doc.tiles[l].node
      BY <2>2, <2>4
    <3> QED BY <1>9, <2>2, <3>1 DEF PinsOnce
  <2> QED BY <2>3, <2>4
<1>12. AllKept(docs, {}, IF req[h].op = "purge" THEN {req[h].uid} ELSE {})
  <2> SUFFICES ASSUME NEW a \in DOMAIN board, Touched(docs, {}, a), NEW k \in OfType(board[a].doc, "terminal")
               PROVE \E c \in DOMAIN docs : k \in Ids(docs[c])
    BY DEF AllKept
  <2>1. a \in DOMAIN docs
    BY DEF Touched
  <2>2. PinnedAs(board[a].doc, docs[a], a, g, id, node)
    BY <1>7, <2>1
  <2>3. Ids(docs[a]) = Ids(board[a].doc)
    BY <2>2 DEF PinnedAs, SameShape
  <2> QED BY <2>1, <2>3 DEF OfType
<1>13. TabAside(B, docs)
  <2>1. \A b \in DOMAIN docs : b \in DOMAIN board /\ Ids(docs[b]) = Ids(board[b].doc)
    BY <1>5, <1>7 DEF PinnedAs, SameShape
  <2> SUFFICES ASSUME tab.hash \in DOMAIN docs PROVE tab.hash \in DOMAIN board /\ KeptOn(B, board, docs, tab.hash)
    BY DEF TabAside
  <2> QED BY <1>0, <2>1 DEF KeptOn, Boards
<1>14. MovesOK(h, docs, {}, B)
  BY <1>1, <1>8, <1>11, <1>12, <1>13 DEF MovesOK, brd2
<1> QED BY <1>4, <1>14, MovesStep

----------
\* adoptOrphans gives each process without a terminal one.
LEMMA AdoptCommits ==
  ASSUME NEW h, AdoptOrphans(h), ~Nothing(h), NEW q, q = SetToSeq(req[h].procs \ LockedUIDs(h))
  PROVE  Commit(h, On(Default, Adopted(board[Default].doc, next, q)), {}, Len(q), FALSE, NoReply)
<1>1. IF q = <<>> THEN Nothing(h)
      ELSE Commit(h, On(Default, Adopted(board[Default].doc, next, q)), {}, Len(q), FALSE, NoReply)
  BY DEF AdoptOrphans, Adopted, Add
<1> QED BY <1>1

\* adoptOrphans.
LEMMA AdoptStep ==
  ASSUME IInv, InOrder, NEW h \in Threads, AdoptOrphans(h)
  PROVE  IInv'
<1> PICK B, H : Inv(B, H, next, board, tab, req, proc, shown)
  BY DEF IInv
<1> DEFINE S == req[h].procs \ UidsOn(board)
           q == SetToSeq(S)
           e == Adopted(board[Default].doc, next, q)
           docs == On(Default, e)
           news == {q[i] : i \in 1 .. Len(q)}
<1>1. req[h].step = "ask" /\ req[h].op = "get"
  BY DEF AdoptOrphans, Holds
<1>2. LockedUIDs(h) = UidsOn(board)
  BY LockedIs DEF LockedUIDs, UidsOn
<1>3. CASE Nothing(h)
  BY <1>1, <1>3, NothingStep
<1>4. CASE ~Nothing(h)
  <2>1. Commit(h, docs, {}, Len(q), FALSE, NoReply)
    BY <1>2, <1>4, AdoptCommits
  <2>2. Party(proc, req, UidsOn(board), shown) /\ BoardsFit(B, next, board) /\ Sound(B, board) /\ PinsOnce(board) /\ next \in Nat
    BY DEF Inv, World
  <2>3. req[h].procs \subseteq Own
    BY <1>1, <2>2 DEF Party, AskOK
  <2>4. IsFiniteSet(S) /\ S \subseteq Procs /\ S \subseteq UIDs
    BY <2>3, OwnAssumption, FS_Subset DEF UIDs
  <2> HIDE DEF S
  <2>5. /\ q \in Seq(UIDs) /\ Once(q)
        /\ \A i \in 1 .. Len(q) : q[i] \in S
    BY <2>4, SetToSeqIs
  <2>6. Default \in DOMAIN board /\ next \in Nat \ {0}
    BY <2>2 DEF BoardsFit, Default
  <2> HIDE DEF q
  <2>7. \A i \in 1 .. Len(q) : q[i] \notin UidsOn(board)
    BY <2>5 DEF S
  <2>8. AdoptsTo(B, next, board, Default, q, WithAll(B, next, q), next + Len(q) + 1, docs, e)
    BY <2>2, <2>5, <2>6, <2>7, AdoptWrites
  <2> DEFINE C == WithAll(B, next, q)
  <2> HIDE DEF e
  <2>9. DOMAIN docs = {Default} /\ docs[Default] = e
    BY OnIs
  <2> HIDE DEF C, docs
  <2>10. Write(B, next, board, C, next + Len(q) + 1, docs, {}) /\ Fresh(next, board, docs) /\ PinsKept(board, docs, {})
    BY <2>8 DEF AdoptsTo, C
  <2>11. PinsOnce(Rows(board, docs, {}, next))
    BY <2>2, <2>10, RowsAre, PinsAfter
  <2>12. tab.hash \in DOMAIN docs => tab.hash \in DOMAIN board /\ KeptOn(B, board, docs, tab.hash)
    BY <2>6, <2>9 DEF KeptOn
  <2>13. MayPut(h, news)
    <3>1. news \subseteq S
      BY <2>5
    <3>2. \A p \in S : p \in Procs /\ proc[p].st \in {"live", "ended"}
      BY <1>1, <2>2, <2>4 DEF Party, AddsTo, S
    <3>3. \A k \in Threads : ~(req[k].step = "ask" /\ req[k].op = "exec")
      BY <1>1, <2>2 DEF Party
    <3> QED BY <3>1, <3>2, <3>3 DEF MayPut
  <2>14. Puts(board, docs, {}, news, IF req[h].op = "purge" THEN {req[h].uid} ELSE {})
    BY <2>8, <2>9 DEF Puts, AdoptsTo, Touched, OfType
  <2>15. CommitOK(h, docs, {}, Len(q), FALSE, NoReply, B, C, news)
    BY <1>1, <2>10, <2>11, <2>12, <2>13, <2>14 DEF CommitOK
  <2> QED BY <2>1, <2>15, CommitStep
<1> QED BY <1>3, <1>4

\* What createWorkspace writes.
CreateDocs(g, id) == [b \in {g, next} |-> IF b = g THEN TakeOpened(board[g].doc, id) ELSE Detached(board[g].doc, id)]

\* createWorkspace writes two valid documents.
LEMMA CreateIs ==
  ASSUME NEW B, Boards(B), BoardsFit(B, next, board), NEW g \in DOMAIN board,
         NEW id \in Ids(board[g].doc) \ {board[g].doc.root}, CanRoot(board[g].doc.tiles[id])
  PROVE  /\ Transfer(next, board, CreateDocs(g, id), {})
         /\ Puts(board, CreateDocs(g, id), {}, {}, {})
         /\ DOMAIN CreateDocs(g, id) = {g, next} /\ next \notin DOMAIN board
<1> DEFINE d == board[g].doc
           e == TakeOpened(d, id)
           f == Detached(d, id)
           S == Subtree(d, id)
           docs == CreateDocs(g, id)
<1>1. next \notin DOMAIN board
  <2>1. next \in Nat /\ ~(next < next)
    BY DEF Boards
  <2> QED BY <2>1 DEF BoardsFit
<1>2. DOMAIN docs = {g, next} /\ docs[g] = e /\ docs[next] = f /\ g # next
  BY <1>1 DEF CreateDocs
<1> HIDE DEF docs
<1>3. d \in DocSet /\ IsValid(d)
  BY DEF Boards
<1>4. e \in DocSet /\ IsValid(e) /\ Ids(e) = Ids(d) \ S /\ \A k \in Ids(e) : e.tiles[k] = d.tiles[k]
  BY <1>3, TakeOpenedIs
<1>5. f \in DocSet /\ IsValid(f) /\ Ids(f) = S /\ \A k \in Ids(f) : Alike(f.tiles[k], d.tiles[k])
  BY <1>3, DetachedIs
<1>6. S \subseteq Ids(d)
  BY SubtreeIs
<1> HIDE DEF e, f, S, d
<1>7. \A k \in Ids(e) : Carried(board, docs, {}, k, e.tiles[k])
  BY <1>2, <1>4 DEF Carried, Touched, Same, d
<1>8. \A k \in Ids(f) : Carried(board, docs, {}, k, f.tiles[k])
  BY <1>2, <1>5, <1>6, SameIs DEF Carried, Touched, d
<1>9. Transfer(next, board, docs, {})
  BY <1>2, <1>4, <1>5, <1>7, <1>8 DEF Transfer
<1>10. Puts(board, docs, {}, {}, {})
  <2>1. ASSUME NEW b \in DOMAIN board, Touched(docs, {}, b), NEW k \in OfType(board[b].doc, "terminal")
        PROVE \E c \in DOMAIN docs : k \in Ids(docs[c])
    <3>1. b = g
      BY <1>1, <1>2, <2>1 DEF Touched
    <3>2. k \in Ids(d)
      BY <3>1 DEF OfType, d
    <3> QED BY <1>2, <1>4, <1>5, <3>2
  <2>2. \A c \in DOMAIN docs : \A k \in Ids(docs[c]) : k \in AllOf(board)
    BY <1>2, <1>4, <1>5, <1>6 DEF AllOf, d
  <2> QED BY <2>1, <2>2 DEF Puts, OfType
<1> QED BY <1>1, <1>2, <1>9, <1>10 DEF docs

\* createWorkspace: a tile and what it opened go to a new board.
LEMMA CreateWorkspaceStep ==
  ASSUME IInv, InOrder, NEW h \in Threads, NEW id, CreateWorkspace(h, id)
  PROVE  IInv'
<1> PICK B, H : Inv(B, H, next, board, tab, req, proc, shown)
  BY DEF IInv
<1> DEFINE g == tab.hash
           docs == CreateDocs(g, id)
           brd2 == Rows(board, docs, {}, next)
           saved == [b \in {g, next} |-> Saved(b, docs[b])]
           r == [step |-> "publish", op |-> "create", saved |-> saved, mine |-> FALSE,
                 closed |-> {}, uid |-> None, reply |-> NoReply, gen |-> tab.gen]
<1>1. World(B, H, next, board, tab, req) /\ Party(proc, req, UidsOn(board), shown) /\ DOMAIN req = Threads
  BY DEF Inv
<1>2. BoardsFit(B, next, board) /\ Sound(B, board) /\ PinsOnce(board) /\ Boards(B) /\ next \in Nat
  BY <1>1, BoardsAre DEF World
<1>3. /\ g \in DOMAIN board /\ board[g].ver = tab.ver /\ req[h] = Idle
      /\ id \in Ids(board[g].doc) \ {board[g].doc.root} /\ CanRoot(board[g].doc.tiles[id])
      /\ board' = [b \in DOMAIN board \union {next} |-> IF b \in {g, next} THEN saved[b] ELSE board[b]]
      /\ req' = [req EXCEPT ![h] = r] /\ next' = next + 1 /\ UNCHANGED <<proc, tab, shown>>
  BY DEF CreateWorkspace, CreateDocs, Step
<1>4. Transfer(next, board, docs, {}) /\ Puts(board, docs, {}, {}, {}) /\ DOMAIN docs = {g, next} /\ next \notin DOMAIN board
  BY <1>2, <1>3, CreateIs
<1>5. \A b \in {g, next} : saved[b] = [doc |-> Marshal(docs[b], next), ver |-> IF b \in DOMAIN board THEN board[b].ver + 1 ELSE 1]
  BY DEF Saved
<1>6. DOMAIN saved = {g, next}
  OBVIOUS
<1>7. /\ r.step = "publish" /\ r.op = "create" /\ r.saved = saved /\ r.mine = FALSE /\ r.closed = {}
  OBVIOUS
<1>7a. r.mine = (r.op \in {"exec", "video"})
  <2>1. (r.op \in {"exec", "video"}) = FALSE
    OBVIOUS
  <2> QED BY <2>1
<1> HIDE DEF docs, saved, r
<1>8. board' = brd2
  <2>1. (DOMAIN board \union DOMAIN docs) \ {} = DOMAIN board \union {next}
    BY <1>3, <1>4
  <2> QED BY <1>3, <1>4, <1>5, <2>1 DEF Rows
<1>9. Moves(next, board, docs, {}) /\ PinsKept(board, docs, {})
  BY <1>4, TransferIs
<1>10. next + 1 \in Nat /\ next < next + 1
  BY <1>2
<1>11. Write(B, next, board, B, next + 1, docs, {}) /\ Fresh(next, board, docs)
  BY <1>2, <1>9, <1>10, MovesWrite
<1>12. RowsOK(board, docs, {}, next, brd2)
  BY <1>2, <1>11, RowsAre
<1>13. PinsOnce(brd2)
  BY <1>2, <1>9, <1>12, PinsAfter
<1>14. Commits(B, next, board, tab, B, next + 1, docs, {}, brd2)
  BY <1>3, <1>11, <1>13 DEF Commits
<1>15. Wrote(board, docs, next, brd2, r)
  <2>1. \A b \in DOMAIN docs : saved[b] = brd2[b]
    <3>1. \A b \in DOMAIN docs : b \in DOMAIN brd2
      BY <1>12 DEF RowsOK
    <3> QED BY <1>4, <1>5, <3>1 DEF Rows
  <2>2. r.op # "put" /\ r.op \notin {"exec", "video"}
    BY <1>7
  <2>3. r.mine = (r.op \in {"exec", "video"})
    BY <1>7a
  <2>4. DOMAIN r.saved = DOMAIN docs /\ \A b \in DOMAIN docs : r.saved[b] = brd2[b]
    BY <1>4, <1>6, <1>7, <2>1
  <2> HIDE DEF brd2
  <2> QED BY <1>7, <2>2, <2>3, <2>4 DEF Wrote
<1>16. World(B, HistTo(H, docs, brd2), next + 1, brd2, tab, req')
  BY <1>1, <1>3, <1>14, <1>15, CommitWorld
<1>17. UidsOn(brd2) \subseteq UidsOn(board) \union {} /\ UidsOn(board) \subseteq UidsOn(brd2) \union {}
  <2>1. UidsGo(board, docs, {}, brd2)
    BY <1>2, <1>11, <1>12, UidsAfter
  <2> QED BY <1>4, <2>1, PutsGo
<1>18. Party(proc, req', UidsOn(brd2), shown)
  <2>1. req[h].step # "publish"
    BY <1>3 DEF Idle
  <2>2. \A p : ~PurgesOf(r, p)
    BY <1>7 DEF PurgesOf
  <2>3. PartyStep(proc, req, h, r, UidsOn(board), UidsOn(brd2), shown, shown, {}, {}, {})
    BY <1>7, <1>17, <2>1, <2>2 DEF PartyStep
  <2> QED BY <1>1, <1>3, <2>3, CommitParty
<1>19. DOMAIN req' = Threads
  BY <1>1, <1>3
<1>20. Inv(B, HistTo(H, docs, brd2), next', board', tab', req', proc', shown')
  BY <1>3, <1>8, <1>16, <1>18, <1>19 DEF Inv
<1> QED BY <1>20 DEF IInv

\* A save that is stored.
SaveOK(B, H, n, brd, t, r) ==
  /\ PutOK(B, H, n, brd, t, r) /\ r.hash \in DOMAIN brd /\ brd[r.hash].ver = r.ver
  /\ IsValid(r.doc) /\ OnlyStored(r.doc, brd[r.hash].doc)

SavesTo(B, n, brd, g, E, d, e) ==
  /\ Write(B, n, brd, B, n + 1, On(g, e), {})
  /\ PinsKept(brd, On(g, e), {})
  /\ Ids(e) = Ids(d) /\ \A k \in Ids(d) : e.tiles[k].type = d.tiles[k].type /\ B[k] = What(d.tiles[k])
  /\ \A k \in OfType(d, "terminal") : e.tiles[k].uid = d.tiles[k].uid
  /\ \A k \in Ids(e) : k \in Ids(brd[g].doc) \/ k \in OpenIds(E) \/ B[k][1] # "folder"

LEMMA WhatType ==
  ASSUME NEW t
  PROVE  /\ What(t)[1] = t.type
         /\ \A u : What(t) = What(u) => t.type = u.type /\ (t.type \in {"terminal", "viewer"} => t.uid = u.uid)
         /\ \A u : t.type = u.type /\ t.uid = u.uid => What(t) = What(u)
<1>1. ASSUME NEW u, What(t) = What(u) PROVE t.type = u.type /\ (t.type \in {"terminal", "viewer"} => t.uid = u.uid)
  <2>1. What(t)[1] = t.type /\ What(u)[1] = u.type
    BY DEF What
  <2>2. t.type = u.type
    BY <1>1, <2>1
  <2>3. ASSUME t.type \in {"terminal", "viewer"} PROVE t.uid = u.uid
    <3>1. What(t)[2] = t.uid /\ What(u)[2] = u.uid
      BY <2>2, <2>3 DEF What
    <3> QED BY <1>1, <3>1
  <2> QED BY <2>2, <2>3
<1>2. \A u : t.type = u.type /\ t.uid = u.uid => What(t) = What(u)
  BY DEF What
<1>3. What(t)[1] = t.type
  BY DEF What
<1> QED BY <1>1, <1>2, <1>3

\* A save at the present version is a write.
LEMMA SaveWrites ==
  ASSUME NEW B, NEW H, NEW n \in Nat, NEW brd, BoardsFit(B, n, brd), HistFits(B, H, n, brd), Sound(B, brd),
         NEW t, NEW r, SaveOK(B, H, n, brd, t, r)
  PROVE  SavesTo(B, n, brd, r.hash, r.sent, r.doc, KeepFolderMeta(r.doc, brd[r.hash].doc))
<1> DEFINE g == r.hash
           d == r.doc
           E == r.sent
           st == brd[g].doc
           e == KeepFolderMeta(d, st)
           docs == On(g, e)
<1>1. /\ g \in DOMAIN brd /\ brd[g].ver = r.ver /\ r.ver \in Nat /\ g \in Nat
      /\ Fit(d, B, n) /\ IsValid(d) /\ (\A x \in E : EditFits(x, B, n)) /\ Elsewhere(E, g, brd)
  BY DEF SaveOK, PutOK
<1>2. H[<<g, r.ver>>] = st
  BY <1>1 DEF HistFits
<1>3. Explains(d, st, E)
  BY <1>1, <1>2 DEF SaveOK, PutOK
<1>4. d \in DocSet /\ st \in DocSet /\ Fit(st, B, n) /\ IsValid(st)
  BY <1>1 DEF Fit, BoardsFit, Sound
<1>5. /\ e \in DocSet /\ SameShape(d, e)
      /\ \A k \in Ids(d) :
              /\ What(e.tiles[k]) = What(d.tiles[k]) /\ e.tiles[k].type = d.tiles[k].type
              /\ e.tiles[k].node = d.tiles[k].node
              /\ d.tiles[k].type # "folder" => e.tiles[k].uid = d.tiles[k].uid /\ ~e.tiles[k].bound
              /\ d.tiles[k].type = "folder" =>
                   IF k \in OfType(st, "folder")
                   THEN /\ e.tiles[k].uid = st.tiles[k].uid
                        /\ e.tiles[k].bound => st.tiles[k].bound /\ st.tiles[k].node = d.tiles[k].node
                   ELSE e.tiles[k].uid = None /\ ~e.tiles[k].bound
  BY <1>4, KeepMetaIs
<1> HIDE DEF e
<1>6. DOMAIN docs = {g} /\ docs[g] = e
  BY OnIs
<1>7. Ids(e) = Ids(d) /\ IsValid(e)
  BY <1>1, <1>4, <1>5, ShapeValid DEF SameShape
<1>8. /\ \A k \in Ids(d) : k < n /\ B[k] = What(d.tiles[k]) /\ B[k] = What(e.tiles[k]) /\ k \in Nat
      /\ \A k \in Ids(st) : k < n /\ B[k] = What(st.tiles[k])
  BY <1>1, <1>4, <1>5, DocIs DEF Fit
<1>9. \A k \in OpenIds(E) : B[k][1] = "folder" /\ \A b \in DOMAIN brd : k \notin Ids(brd[b].doc)
  <2>1. ASSUME NEW k \in OpenIds(E) PROVE B[k][1] = "folder"
    <3>1. B[k] = <<"folder", None>>
      BY <1>1, OpensFit
    <3> QED BY <3>1
  <2>2. ASSUME NEW k \in OpenIds(E), NEW b \in DOMAIN brd, k \in Ids(brd[b].doc) PROVE FALSE
    <3>1. CASE b = g
      BY <1>3, <2>2, <3>1 DEF Explains
    <3>2. CASE b # g
      BY <1>1, <2>2, <3>2 DEF Elsewhere
    <3> QED BY <3>1, <3>2
  <2> QED BY <2>1, <2>2
<1>10. \A k \in ServerIds(E) : B[k][1] \in {"terminal", "viewer"}
  <2> SUFFICES ASSUME NEW k \in ServerIds(E) PROVE B[k][1] \in {"terminal", "viewer"}
    OBVIOUS
  <2>1. PICK x \in E : x.do = "server" /\ k = x.id
    BY DEF ServerIds
  <2>2. B[k] = What(x.arg) /\ x.arg.type \in {"terminal", "viewer"}
    BY <1>1, <2>1 DEF EditFits
  <2> QED BY <2>2, WhatType
<1>11. \A k \in Ids(d) : B[k][1] = d.tiles[k].type /\ (k \in Ids(st) => st.tiles[k].type = d.tiles[k].type)
  <2>1. ASSUME NEW k \in Ids(d) PROVE B[k][1] = d.tiles[k].type
    BY <1>8, WhatType
  <2>2. ASSUME NEW k \in Ids(d), k \in Ids(st) PROVE st.tiles[k].type = d.tiles[k].type
    <3>1. What(st.tiles[k]) = What(d.tiles[k])
      BY <1>8, <2>2
    <3> QED BY <3>1, WhatType
  <2> QED BY <2>1, <2>2
<1>12. \A k \in Ids(e) : k \in Ids(st) \/ k \in OpenIds(E) \/ B[k][1] # "folder"
  BY <1>3, <1>7, <1>10 DEF Explains
<1>13. ASSUME NEW k \in Ids(e), k \in Ids(st) PROVE Kept1(brd, docs, {}, k, e.tiles[k])
  <2>1. e.tiles[k].type = "folder" => e.tiles[k].uid = st.tiles[k].uid
    BY <1>5, <1>7, <1>11, <1>13 DEF OfType
  <2> QED BY <1>1, <1>6, <1>13, <2>1 DEF Kept1, Touched
<1>14. ASSUME NEW k \in Ids(e), k \notin Ids(st), k \in OpenIds(E) PROVE New1(brd, docs, {}, B, k, e.tiles[k])
  <2>1. k \notin AllOf(brd)
    BY <1>9, <1>14 DEF AllOf
  <2>2. e.tiles[k].type = "folder"
    BY <1>5, <1>7, <1>9, <1>11, <1>14
  <2>3. e.tiles[k].uid = None
    BY <1>5, <1>7, <1>14, <2>2 DEF OfType
  <2> QED BY <2>1, <2>2, <2>3 DEF New1
<1>15. ASSUME NEW k \in Ids(e), k \notin Ids(st), k \notin OpenIds(E) PROVE New1(brd, docs, {}, B, k, e.tiles[k])
  <2>1. d.tiles[k].type \in {"terminal", "viewer"}
    BY <1>3, <1>7, <1>10, <1>11, <1>15 DEF Explains
  <2>2. OnlyStored(d, st)
    BY DEF SaveOK
  <2>3. k \in OfType(d, "terminal") /\ d.tiles[k].type = "terminal"
    BY <1>7, <1>15, <2>1, <2>2 DEF OnlyStored, OfType
  <2>4. d.tiles[k].uid \in TerminalUIDs(st) /\ TerminalOf(d, d.tiles[k].uid) = {k}
    BY <2>2, <2>3 DEF OnlyStored
  <2>5. PICK l \in OfType(st, "terminal") : st.tiles[l].uid = d.tiles[k].uid
    BY <2>4, UidsHas
  <2>6. B[l] = B[k] /\ B[k][1] = "terminal" /\ l \in Ids(st)
    <3>1. l \in Ids(st) /\ st.tiles[l].type = d.tiles[k].type
      BY <2>3, <2>5 DEF OfType
    <3>2. What(st.tiles[l]) = What(d.tiles[k])
      BY <2>5, <3>1, WhatType
    <3> QED BY <1>7, <1>8, <1>11, <2>3, <3>1, <3>2
  <2>7. l \in AllOf(brd)
    BY <1>1, <2>6 DEF AllOf
  <2>8. k \notin AllOf(brd)
    BY <1>15, <2>6, <2>7 DEF Sound
  <2>9. e.tiles[k].type = "terminal"
    BY <1>5, <1>7, <2>3
  <2>10. ASSUME NEW j, Stays(brd, docs, {}, j), B[j] = B[k] PROVE j = k
    <3>1. CASE \E b \in DOMAIN brd : ~Touched(docs, {}, b) /\ j \in Ids(brd[b].doc)
      <4>1. PICK b \in DOMAIN brd : ~Touched(docs, {}, b) /\ j \in Ids(brd[b].doc)
        BY <3>1
      <4>2. j \in AllOf(brd) /\ b # g
        BY <1>6, <4>1 DEF AllOf, Touched
      <4>3. j = l
        BY <2>6, <2>7, <2>10, <4>2 DEF Sound
      <4> QED BY <1>1, <2>6, <4>1, <4>2, <4>3 DEF Sound
    <3>2. CASE \E b \in DOMAIN docs : j \in Ids(docs[b])
      <4>1. j \in Ids(d)
        BY <1>6, <1>7, <3>2
      <4>2. What(d.tiles[j]) = What(d.tiles[k])
        BY <1>7, <1>8, <2>10, <4>1
      <4>3. d.tiles[j].type = "terminal" /\ d.tiles[j].uid = d.tiles[k].uid
        BY <2>3, <4>2, WhatType
      <4> QED BY <2>4, <4>1, <4>3 DEF TerminalOf, OfType
    <3> QED BY <2>10, <3>1, <3>2 DEF Stays
  <2> QED BY <2>8, <2>9, <2>10 DEF New1
<1>16. ASSUME NEW k \in Ids(e) PROVE Kept1(brd, docs, {}, k, e.tiles[k]) \/ New1(brd, docs, {}, B, k, e.tiles[k])
  BY <1>13, <1>14, <1>15
<1>17. Fit(e, B, n + 1)
  <2>1. \A k \in Ids(e) : k < n + 1
    BY <1>7, <1>8
  <2> QED BY <1>5, <1>7, <1>8, <2>1 DEF Fit
<1> HIDE DEF docs
<1>18. Write(B, n, brd, B, n + 1, docs, {})
  <2>1. n + 1 \in Nat /\ n < n + 1
    OBVIOUS
  <2> QED BY <1>1, <1>6, <1>7, <1>16, <1>17, <2>1 DEF Write
<1>19. PinsKept(brd, docs, {})
  <2> SUFFICES ASSUME NEW k \in OfType(e, "folder"), e.tiles[k].bound
               PROVE /\ k \in OfType(st, "folder") /\ st.tiles[k].bound
                     /\ st.tiles[k].node = e.tiles[k].node
    BY <1>1, <1>6 DEF PinsKept
  <2>1. k \in Ids(d) /\ d.tiles[k].type = "folder"
    BY <1>5, <1>7 DEF OfType
  <2> QED BY <1>5, <2>1
<1>20. \A k \in OfType(d, "terminal") : e.tiles[k].uid = d.tiles[k].uid
  BY <1>5 DEF OfType
<1>21. \A k \in Ids(d) : e.tiles[k].type = d.tiles[k].type /\ B[k] = What(d.tiles[k])
  BY <1>5, <1>8
<1>22. SavesTo(B, n, brd, g, E, d, e)
  BY <1>7, <1>12, <1>18, <1>19, <1>20, <1>21 DEF SavesTo, docs
<1> QED BY <1>22 DEF e

\* What a save leaves for the code after the commit.
SavedAs(r, r2, brd2) ==
  /\ r2.step = "publish" /\ r2.op = "put" /\ r2.gen = r.gen /\ r2.mine = TRUE
  /\ DOMAIN r2.saved = {r.hash} /\ r2.saved[r.hash] = brd2[r.hash]
  /\ r2.reply.step = "reply" /\ r2.reply.op = "put" /\ r2.reply.ok = TRUE
  /\ r2.reply.ver = brd2[r.hash].ver /\ r2.reply.doc = brd2[r.hash].doc
  /\ r2.reply.sent = r.sent /\ r2.reply.gen = r.gen

\* The folders of other edits are on no other board after a save.
LEMMA SaveElse ==
  ASSUME NEW B, NEW n, NEW brd, NEW g, NEW E, NEW d, NEW e, SavesTo(B, n, brd, g, E, d, e),
         NEW brd2, RowsOK(brd, On(g, e), {}, n, brd2), g \in DOMAIN brd,
         NEW F, NEW f, \A x \in F : EditFits(x, B, n), Elsewhere(F, f, brd),
         f = g \/ OpenIds(E) \intersect OpenIds(F) = {}
  PROVE  Elsewhere(F, f, brd2)
<1>0. DOMAIN On(g, e) = {g} /\ On(g, e)[g] = e
  BY OnIs
<1> SUFFICES ASSUME NEW b \in DOMAIN brd2, b # f, NEW k \in OpenIds(F), k \in Ids(brd2[b].doc) PROVE FALSE
  BY DEF Elsewhere
<1>1. B[k] = <<"folder", None>>
  BY OpensFit
<1>2. B[k][1] = "folder"
  BY <1>1
<1>3. CASE b # g
  BY <1>0, <1>3 DEF Elsewhere, RowsOK
<1>4. CASE b = g
  <2>1. k \in Ids(e)
    BY <1>0, <1>4 DEF RowsOK, SameShape
  <2>2. k \in Ids(brd[g].doc) \/ k \in OpenIds(E)
    BY <1>2, <2>1 DEF SavesTo
  <2> QED BY <1>4, <2>2 DEF Elsewhere
<1> QED BY <1>3, <1>4

LEMMA PendsFit ==
  ASSUME NEW B, NEW n, NEW t, TabFits(B, n, t)
  PROVE  \A e \in Pends(t) : EditFits(e, B, n)
<1>1. t.pend \in Seq(EditSet) /\ \A i \in 1 .. Len(t.pend) : EditFits(t.pend[i], B, n)
  BY DEF TabFits, TabSet
<1>2. \A e \in Pends(t) : \E i \in 1 .. Len(t.pend) : e = t.pend[i]
  BY <1>1 DEF Pends, ToSet
<1> QED BY <1>1, <1>2

\* A document that has the same tiles is explained by the same edits.
LEMMA ExplainsSame ==
  ASSUME NEW d, NEW base, NEW base2, NEW E, Explains(d, base, E), Ids(base2) = Ids(base),
         OfType(base2, "terminal") \subseteq OfType(base, "terminal")
  PROVE  Explains(d, base2, E)
<1> QED BY DEF Explains

LEMMA SaveAnswer ==
  ASSUME NEW B, NEW H, NEW n, NEW brd, NEW t, NEW r, SaveOK(B, H, n, brd, t, r), NEW K, NEW brd2,
         BoardsFit(B, n, brd), BoardsFit(B, n + 1, brd2), TabOK(H, brd, t), TabFits(B, n, t), n \in Nat,
         HistFits(B, K, n + 1, brd2),
         NEW e, SavesTo(B, n, brd, r.hash, r.sent, r.doc, e), RowsOK(brd, On(r.hash, e), {}, n, brd2),
         NEW a, a.step = "reply", a.op = "put", a.ok = TRUE, a.ver = brd2[r.hash].ver, a.doc = brd2[r.hash].doc,
         a.sent = r.sent, a.gen = r.gen
  PROVE  AnswerOK(B, K, n + 1, brd2, t, a)
<1> DEFINE g == r.hash
<1>0. DOMAIN On(g, e) = {g} /\ On(g, e)[g] = e
  BY DEF On
<1>1. /\ g \in DOMAIN brd /\ brd[g].ver = r.ver /\ r.ver \in Nat /\ PutOK(B, H, n, brd, t, r)
  BY DEF SaveOK, PutOK
<1>2. g \in DOMAIN brd2 /\ brd2[g].ver = r.ver + 1 /\ SameShape(e, brd2[g].doc)
  <2> DEFINE docs == On(g, e)
  <2>1. g \in DOMAIN docs /\ docs[g] = e /\ RowsOK(brd, docs, {}, n, brd2)
    BY <1>0
  <2> HIDE DEF docs
  <2>2. /\ g \in DOMAIN brd2 /\ SameShape(docs[g], brd2[g].doc)
        /\ brd2[g].ver = IF g \in DOMAIN brd THEN brd[g].ver + 1 ELSE 1
    BY <2>1 DEF RowsOK
  <2> QED BY <1>1, <2>1, <2>2
<1>3. \A x \in a.sent : EditFits(x, B, n + 1)
  <2>1. n + 1 \in Nat /\ n <= n + 1
    OBVIOUS
  <2>2. \A x \in r.sent : EditFits(x, B, n)
    BY <1>1 DEF PutOK
  <2> QED BY <2>1, <2>2, EditFitsLater
<1>4. ASSUME a.gen = t.gen
      PROVE /\ K[<<t.hash, a.ver>>] = a.doc /\ a.ver <= brd2[t.hash].ver
            /\ a.ver = t.ver + 1 /\ Explains(t.doc, a.doc, Pends(t) \ a.sent)
  <2>1. t.hash = g /\ r.ver <= t.ver
    BY <1>1, <1>4 DEF PutOK
  <2>2. t.ver <= r.ver /\ t.ver \in Nat
    BY <1>1, <2>1 DEF TabOK, TabFits, TabSet
  <2>3. t.ver = r.ver
    BY <1>1, <2>1, <2>2
  <2>4. Explains(t.doc, r.doc, Pends(t) \ r.sent)
    BY <1>1, <1>4, <2>3 DEF PutOK
  <2>5. Ids(a.doc) = Ids(r.doc) /\ OfType(a.doc, "terminal") \subseteq OfType(r.doc, "terminal")
    BY <1>2 DEF SavesTo, SameShape, OfType
  <2>6. Explains(t.doc, a.doc, Pends(t) \ a.sent)
    BY <2>4, <2>5, ExplainsSame
  <2>7. K[<<t.hash, a.ver>>] = a.doc
    BY <1>2, <2>1 DEF HistFits
  <2> QED BY <1>1, <1>2, <2>1, <2>2, <2>3, <2>6, <2>7
<1>5. a.ver \in Nat /\ a.ok \in BOOLEAN
  <2>1. a.ver \in Nat
    BY <1>1, <1>2
  <2>2. a.ok \in BOOLEAN
    OBVIOUS
  <2> QED BY <2>1, <2>2
<1> QED BY <1>3, <1>4, <1>5 DEF AnswerOK

LEMMA SaveWorld ==
  ASSUME NEW B, NEW H, NEW n, NEW brd, NEW t, NEW rq, World(B, H, n, brd, t, rq), NEW h \in Threads, DOMAIN rq = Threads,
         rq[h].step = "put", SaveOK(B, H, n, brd, t, rq[h]),
         NEW e, SavesTo(B, n, brd, rq[h].hash, rq[h].sent, rq[h].doc, e),
         NEW brd2, brd2 = Rows(brd, On(rq[h].hash, e), {}, n),
         NEW r2, SavedAs(rq[h], r2, brd2), NEW rq2, rq2 = [rq EXCEPT ![h] = r2]
  PROVE  World(B, HistTo(H, On(rq[h].hash, e), brd2), n + 1, brd2, t, rq2)
<1> DEFINE r == rq[h]
           g == r.hash
           docs == On(g, e)
           K == HistTo(H, docs, brd2)
           m == n + 1
<1>0. DOMAIN docs = {g} /\ docs[g] = e
  BY DEF On
<1>1. /\ n \in Nat /\ BoardsFit(B, n, brd) /\ HistFits(B, H, n, brd) /\ Sound(B, brd) /\ PinsOnce(brd)
      /\ TabFits(B, n, t) /\ TabOK(H, brd, t) /\ ThreadsOK(B, H, n, brd, t, rq) /\ Distinct(rq, t)
  BY DEF World
<1>2. Write(B, n, brd, B, m, docs, {}) /\ PinsKept(brd, docs, {})
  BY DEF SavesTo
<1>3. RowsOK(brd, docs, {}, n, brd2)
  BY <1>1, <1>2, RowsAre
<1>4. BoardsFit(B, m, brd2)
  BY <1>1, <1>2, RowIs
<1>5. Sound(B, brd2) /\ PinsOnce(brd2)
  BY <1>1, <1>2, <1>3, SoundAfter, PinsAfter
<1>6. HistFits(B, K, m, brd2) /\ Later(B, H, n, brd, B, K, m, brd2)
  BY <1>1, <1>2, <1>3, <1>4, HistAfter
<1> HIDE DEF K
<1>7. rq2[h] = r2 /\ \A k \in Threads \ {h} : rq2[k] = rq[k]
  OBVIOUS
<1>8. PutOK(B, H, n, brd, t, r) /\ g \in DOMAIN brd /\ brd[g].ver = r.ver
  BY DEF SaveOK
<1>9. TabFits(B, m, t)
  BY <1>1, <1>6, TabLater
<1>10. TabOK(K, brd2, t)
  <2>1. /\ t.hash \in Nat /\ t.hash < n /\ t.ver \in Nat
    BY <1>1 DEF TabFits, TabSet
  <2>2. t.hash \in DOMAIN brd => t.ver <= brd[t.hash].ver
    BY <1>1 DEF TabOK
  <2>3. K[<<t.hash, t.ver>>] = H[<<t.hash, t.ver>>]
    BY <1>6, <2>1, <2>2 DEF Later
  <2>4. ASSUME t.hash \in DOMAIN brd2 PROVE Explains(t.doc, K[<<t.hash, t.ver>>], Pends(t))
    <3>1. t.hash \in DOMAIN brd
      BY <1>6, <2>1, <2>4 DEF Later
    <3> QED BY <1>1, <2>3, <3>1 DEF TabOK
  <2>5. ASSUME t.hash \in DOMAIN brd2 PROVE t.ver <= brd2[t.hash].ver /\ Elsewhere(Pends(t), t.hash, brd2)
    <3>1. t.hash \in DOMAIN brd /\ brd[t.hash].ver <= brd2[t.hash].ver /\ brd[t.hash].ver \in Nat /\ brd2[t.hash].ver \in Nat
      BY <1>6, <2>1, <2>5 DEF Later
    <3>2. t.ver <= brd2[t.hash].ver
      BY <2>1, <2>2, <3>1
    <3>3. Elsewhere(Pends(t), t.hash, brd)
      BY <1>1, <3>1 DEF TabOK
    <3>4. t.hash = g \/ OpenIds(r.sent) \intersect OpenIds(Pends(t)) = {}
      BY <1>8 DEF PutOK
    <3>5. \A x \in Pends(t) : EditFits(x, B, n)
      BY <1>1, PendsFit
    <3>6. Elsewhere(Pends(t), t.hash, brd2)
      BY <1>3, <1>8, <3>3, <3>4, <3>5, SaveElse
    <3> QED BY <3>2, <3>6
  <2> QED BY <2>4, <2>5 DEF TabOK
<1>11. ASSUME NEW k \in Threads \ {h} PROVE ThreadOK(B, K, m, brd2, t, rq2[k])
  <2>1. ThreadOK(B, H, n, brd, t, rq[k])
    BY <1>1 DEF ThreadsOK
  <2>2. ASSUME rq[k].step = "put", rq[k].hash \in DOMAIN brd2, rq[k].ver = brd2[rq[k].hash].ver
        PROVE Elsewhere(rq[k].sent, rq[k].hash, brd2)
    <3>1. PutOK(B, H, n, brd, t, rq[k])
      BY <2>1, <2>2 DEF ThreadOK
    <3>2. rq[k].hash \in Nat /\ rq[k].hash < n /\ rq[k].ver \in Nat
      BY <3>1 DEF PutOK
    <3>3. rq[k].hash \in DOMAIN brd /\ brd[rq[k].hash].ver \in Nat
      BY <1>6, <2>2, <3>2 DEF Later
    <3>4. rq[k].ver <= brd[rq[k].hash].ver
      BY <3>1, <3>3 DEF PutOK
    <3>5. rq[k].hash # g
      <4> SUFFICES ASSUME rq[k].hash = g PROVE FALSE
        OBVIOUS
      <4>1. brd2[g].ver = brd[g].ver + 1
        BY <1>0, <1>3, <1>8 DEF RowsOK
      <4> QED BY <2>2, <3>3, <3>4, <4>1
    <3>6. brd2[rq[k].hash] = brd[rq[k].hash]
      BY <1>0, <1>3, <2>2, <3>5 DEF RowsOK
    <3>7. Elsewhere(rq[k].sent, rq[k].hash, brd) /\ \A x \in rq[k].sent : EditFits(x, B, n)
      BY <2>2, <3>1, <3>3, <3>6 DEF PutOK
    <3>8. OpenIds(r.sent) \intersect OpenIds(rq[k].sent) = {}
      BY <1>1, <2>2 DEF Distinct
    <3> QED BY <1>3, <1>8, <3>7, <3>8, SaveElse
  <2>3. ThreadOK(B, K, m, brd2, t, rq[k])
    BY <1>1, <1>6, <2>1, <2>2, ThreadLater
  <2> QED BY <1>7, <2>3
<1>12. ThreadOK(B, K, m, brd2, t, r2)
  <2>0. /\ r2.step = "publish" /\ r2.op = "put" /\ r2.gen = r.gen /\ r2.mine = TRUE
        /\ DOMAIN r2.saved = {g} /\ r2.saved[g] = brd2[g]
    BY DEF SavedAs
  <2>1. r2.gen \in Nat /\ r2.gen <= t.gen
    <3>1. ThreadOK(B, H, n, brd, t, r) /\ PutLike(r)
      BY <1>1, <1>8 DEF ThreadsOK, PutLike, PutOK
    <3> QED BY <2>0, <3>1 DEF ThreadOK
  <2>2. SavedOK(K, m, brd2, r2.saved)
    <3>1. g \in DOMAIN brd2
      BY <1>0, <1>3 DEF RowsOK
    <3>2. g \in Nat /\ g < m /\ brd2[g].ver \in Nat
      BY <1>4, <3>1 DEF BoardsFit
    <3>3. K[<<g, brd2[g].ver>>] = brd2[g].doc
      BY <1>6, <3>1 DEF HistFits
    <3> QED BY <2>0, <3>2, <3>3 DEF SavedOK
  <2>3. AnswerOK(B, K, m, brd2, t, r2.reply)
    BY <1>1, <1>3, <1>4, <1>6, SaveAnswer DEF SavedAs
  <2>4. r2.reply.ok /\ r2.reply.gen = r2.gen
    BY DEF SavedAs
  <2>5. ~Telling(r2)
    BY <2>0 DEF Telling
  <2>6. r2.mine = (r2.op \in {"put", "exec", "video"})
    BY <2>0
  <2> QED BY <2>0, <2>1, <2>2, <2>3, <2>4, <2>5, <2>6 DEF ThreadOK
<1>13. ThreadsOK(B, K, m, brd2, t, rq2)
  BY <1>7, <1>11, <1>12 DEF ThreadsOK
<1>14. Distinct(rq2, t)
  <2>1. PutLike(r) /\ PutLike(r2) /\ ~Telling(r2) /\ ~Telling(r) /\ r2.gen = r.gen /\ SentOf(r2) = SentOf(r) /\ r2.step # "put"
    BY <1>8 DEF SavedAs, PutLike, Telling, SentOf, PutOK
  <2>2. \A k \in Threads : PutLike(rq2[k]) => PutLike(rq[k]) /\ rq2[k].gen = rq[k].gen /\ SentOf(rq2[k]) = SentOf(rq[k])
    BY <1>7, <2>1
  <2>3. \A k \in Threads : Telling(rq2[k]) => rq2[k] = rq[k]
    BY <1>7, <2>1
  <2>4. \A k \in Threads : rq2[k].step = "put" => rq2[k] = rq[k]
    BY <1>7, <2>1
  <2>5. \A j, k \in Threads : PutLike(rq2[j]) /\ PutLike(rq2[k]) /\ rq2[j].gen = rq2[k].gen => j = k
    BY <1>1, <2>2 DEF Distinct
  <2>6. \A j, k \in Threads : rq2[j].step = "put" /\ rq2[k].step = "put" /\ j # k =>
          OpenIds(rq2[j].sent) \intersect OpenIds(rq2[k].sent) = {}
    BY <1>1, <2>4 DEF Distinct
  <2>7. ASSUME NEW j \in Threads, Telling(rq2[j])
        PROVE /\ rq2[j].reply.id \notin ServerIds(Pends(t))
              /\ \A k \in Threads : PutLike(rq2[k]) => rq2[j].reply.id \notin ServerIds(SentOf(rq2[k]))
              /\ \A k \in Threads \ {j} : Telling(rq2[k]) => rq2[k].reply.id # rq2[j].reply.id
    <3>1. Telling(rq[j]) /\ rq2[j] = rq[j]
      BY <2>3, <2>7
    <3>2. /\ rq[j].reply.id \notin ServerIds(Pends(t))
          /\ \A k \in Threads : PutLike(rq[k]) => rq[j].reply.id \notin ServerIds(SentOf(rq[k]))
          /\ \A k \in Threads \ {j} : Telling(rq[k]) => rq[k].reply.id # rq[j].reply.id
      BY <1>1, <3>1 DEF Distinct
    <3> QED BY <2>2, <2>3, <3>1, <3>2
  <2> QED BY <2>5, <2>6, <2>7 DEF Distinct
<1>15. m \in Nat
  BY <1>1
<1> QED BY <1>4, <1>5, <1>6, <1>9, <1>10, <1>13, <1>14, <1>15 DEF World, K

\* A request that goes on, or ends, and what it does to the processes.
PartyMove(pr, pr2, rq, h, r, U, U2, sh2) ==
  /\ r.step # "ask" /\ U2 \subseteq U /\ sh2 \subseteq U2
  /\ pr2 \in [Procs -> ProcSet]
  /\ \A p \in Procs : /\ pr2[p].st = "none" => pr2[p].kill = "no"
                      /\ pr[p].st # "none" => pr2[p].st # "none"
                      /\ pr[p].st \in {"ended", "gone"} => pr2[p].st \in {"ended", "gone"}
                      /\ pr[p].st \in {"live", "ended"} /\ (p \in U2 \/ \E k \in Threads \ {h} : AddsTo(rq[k], p))
                           => pr2[p].st \in {"live", "ended"}
  /\ \A p : PurgesOf(r, p) => PurgesOf(rq[h], p)
  /\ \A p \in Procs : pr2[p].st = "live" /\ pr2[p].kill = "asked" =>
       /\ pr[p].st = "live" /\ pr[p].kill = "asked"
       /\ p \in U \ U2 => r.step = "publish" /\ p \in r.closed
       /\ rq[h].step = "publish" /\ p \in rq[h].closed => p \in U2 \/ (r.step = "publish" /\ p \in r.closed)

LEMMA MoveParty ==
  ASSUME NEW pr, NEW rq, NEW U, NEW sh, Party(pr, rq, U, sh), NEW h \in Threads, NEW r, NEW rq2, rq2 = [rq EXCEPT ![h] = r],
         DOMAIN rq = Threads, NEW pr2, NEW U2, NEW sh2, PartyMove(pr, pr2, rq, h, r, U, U2, sh2)
  PROVE  Party(pr2, rq2, U2, sh2)
<1>1. rq2[h] = r /\ \A k \in Threads \ {h} : rq2[k] = rq[k]
  OBVIOUS
<1>2. U2 \subseteq Procs /\ \A p \in U2 : pr2[p].st \in {"live", "ended"}
  BY DEF Party, PartyMove
<1>3. \A p : ~AddsTo(r, p)
  BY DEF AddsTo, PartyMove
<1>4. ASSUME NEW j \in Threads, NEW p \in Procs
      PROVE /\ AddsTo(rq2[j], p) => pr2[p].st \in {"live", "ended"}
            /\ PurgesOf(rq2[j], p) => pr2[p].st \in {"ended", "gone"} /\ \A k \in Threads : ~AddsTo(rq2[k], p)
  <2>1. AddsTo(rq2[j], p) => j # h /\ AddsTo(rq[j], p)
    BY <1>1, <1>3
  <2>2. PurgesOf(rq2[j], p) => PurgesOf(rq[j], p)
    BY <1>1 DEF PartyMove
  <2>3. \A k \in Threads : AddsTo(rq2[k], p) => AddsTo(rq[k], p)
    BY <1>1, <1>3
  <2>4. AddsTo(rq2[j], p) => pr2[p].st \in {"live", "ended"}
    BY <2>1 DEF Party, PartyMove
  <2>5. PurgesOf(rq2[j], p) => pr2[p].st \in {"ended", "gone"}
    BY <2>2 DEF Party, PartyMove
  <2>6. PurgesOf(rq2[j], p) => \A k \in Threads : ~AddsTo(rq2[k], p)
    BY <2>2, <2>3 DEF Party
  <2> QED BY <2>4, <2>5, <2>6
<1>5. ASSUME NEW j \in Threads PROVE AskOK(pr2, U2, rq2[j])
  <2>1. CASE j = h
    BY <1>1, <2>1 DEF AskOK, PartyMove
  <2>2. CASE j # h
    <3>1. AskOK(pr, U, rq[j]) /\ rq2[j] = rq[j]
      BY <1>1, <2>2 DEF Party
    <3>2. U2 \subseteq U /\ \A p \in Procs : pr[p].st # "none" => pr2[p].st # "none"
      BY DEF PartyMove
    <3> QED BY <3>1, <3>2 DEF AskOK
  <2> QED BY <2>1, <2>2
<1>6. \A j, k \in Threads : rq2[j].step = "ask" /\ rq2[k].step = "ask" /\ rq2[j].op = "exec" =>
       /\ rq2[k].op # "get"
       /\ rq2[k].op \in {"exec", "take"} /\ j # k => rq2[k].uid # rq2[j].uid
  <2>1. \A j, k \in Threads : rq[j].step = "ask" /\ rq[k].step = "ask" /\ rq[j].op = "exec" =>
          /\ rq[k].op # "get"
          /\ rq[k].op \in {"exec", "take"} /\ j # k => rq[k].uid # rq[j].uid
    BY DEF Party
  <2>2. \A j \in Threads : rq2[j].step = "ask" => rq2[j] = rq[j]
    BY <1>1 DEF PartyMove
  <2> QED BY <2>1, <2>2
<1>7. sh2 \subseteq U2
  BY DEF PartyMove
<1>8. ASSUME NEW p \in Procs, pr2[p].st = "live", pr2[p].kill = "asked"
      PROVE p \in U2 \/ \E j \in Threads : rq2[j].step = "publish" /\ p \in rq2[j].closed
  <2>1. /\ pr[p].st = "live" /\ pr[p].kill = "asked"
        /\ p \in U \ U2 => r.step = "publish" /\ p \in r.closed
        /\ rq[h].step = "publish" /\ p \in rq[h].closed => p \in U2 \/ (r.step = "publish" /\ p \in r.closed)
    BY <1>8 DEF PartyMove
  <2>2. p \in U \/ \E j \in Threads : rq[j].step = "publish" /\ p \in rq[j].closed
    BY <2>1 DEF Party
  <2>3. CASE p \in U
    BY <1>1, <2>1, <2>3
  <2>4. ASSUME NEW j \in Threads, rq[j].step = "publish", p \in rq[j].closed
        PROVE  p \in U2 \/ \E i \in Threads : rq2[i].step = "publish" /\ p \in rq2[i].closed
    BY <1>1, <2>1, <2>4
  <2> QED BY <2>2, <2>3, <2>4
<1>9. pr2 \in [Procs -> ProcSet] /\ \A p \in Procs : pr2[p].st = "none" => pr2[p].kill = "no"
  BY DEF PartyMove
<1> QED BY <1>2, <1>4, <1>5, <1>6, <1>7, <1>8, <1>9 DEF Party

\* The same when no process changes and no board.
LEMMA RestParty ==
  ASSUME NEW pr, NEW rq, NEW U, NEW sh, Party(pr, rq, U, sh), NEW h \in Threads, NEW r, NEW rq2, rq2 = [rq EXCEPT ![h] = r],
         DOMAIN rq = Threads, r.step # "ask", rq[h].step # "publish", \A p : PurgesOf(r, p) => PurgesOf(rq[h], p)
  PROVE  Party(pr, rq2, U, sh)
<1>1. PartyMove(pr, pr, rq, h, r, U, U, sh)
  BY DEF PartyMove, Party
<1> QED BY <1>1, MoveParty

\* The terminals a save takes from a board.
LEMMA SaveUids ==
  ASSUME NEW B, NEW H, NEW n, NEW brd, NEW t, NEW r, SaveOK(B, H, n, brd, t, r), HistFits(B, H, n, brd), BoardsFit(B, n, brd),
         NEW e, SavesTo(B, n, brd, r.hash, r.sent, r.doc, e), NEW brd2, RowsOK(brd, On(r.hash, e), {}, n, brd2), NEW U2, U2 = UidsOn(brd2)
  PROVE  /\ U2 \subseteq UidsOn(brd)
         /\ UidsOn(brd) \ U2 \subseteq Closed(brd[r.hash].doc, r.doc)
         /\ \A p \in UidsOn(brd) \ U2 : \E k \in CloseIds(r.sent) : k \in OfType(brd[r.hash].doc, "terminal") /\ brd[r.hash].doc.tiles[k].uid = p
<1> DEFINE g == r.hash
           st == brd[g].doc
           d == r.doc
<1>0. DOMAIN On(g, e) = {g} /\ On(g, e)[g] = e
  BY DEF On
<1>1. /\ g \in DOMAIN brd /\ g \in DOMAIN brd2 /\ SameShape(e, brd2[g].doc)
      /\ \A k \in Ids(e) : brd2[g].doc.tiles[k].type = e.tiles[k].type
      /\ \A k \in OfType(e, "terminal") : brd2[g].doc.tiles[k].uid = e.tiles[k].uid
      /\ DOMAIN brd2 = DOMAIN brd /\ \A b \in DOMAIN brd2 : b # g => brd2[b] = brd[b]
  <2> DEFINE docs == On(g, e)
  <2>1. DOMAIN docs = {g} /\ docs[g] = e /\ RowsOK(brd, docs, {}, n, brd2) /\ g \in DOMAIN brd
    BY <1>0 DEF SaveOK
  <2> HIDE DEF docs
  <2>0. /\ DOMAIN brd2 = (DOMAIN brd \union DOMAIN docs) \ {}
        /\ \A b \in DOMAIN brd2 : b \notin DOMAIN docs => brd2[b] = brd[b]
        /\ g \in DOMAIN docs
    BY <2>1 DEF RowsOK
  <2>7. DOMAIN docs = {g} /\ g \in DOMAIN brd
    BY <2>1
  <2>2. DOMAIN brd2 = DOMAIN brd /\ \A b \in DOMAIN brd2 : b # g => brd2[b] = brd[b]
    BY <2>0, <2>7
  <2>6. /\ g \in DOMAIN brd2 /\ SameShape(docs[g], brd2[g].doc)
        /\ \A k \in Ids(docs[g]) :
             /\ brd2[g].doc.tiles[k].type = docs[g].tiles[k].type
             /\ brd2[g].doc.tiles[k].uid =
                  IF docs[g].tiles[k].type = "folder" /\ docs[g].tiles[k].uid = None THEN k ELSE docs[g].tiles[k].uid
    BY <2>0, <2>1 DEF RowsOK
  <2>3. SameShape(e, brd2[g].doc) /\ g \in DOMAIN brd2
    BY <2>1, <2>6
  <2>4. \A k \in Ids(e) : brd2[g].doc.tiles[k].type = e.tiles[k].type
    BY <2>1, <2>6
  <2>5. \A k \in OfType(e, "terminal") : brd2[g].doc.tiles[k].uid = e.tiles[k].uid
    BY <2>1, <2>6 DEF OfType
  <2> QED BY <2>1, <2>2, <2>3, <2>4, <2>5
<1>2. /\ Ids(e) = Ids(d) /\ \A k \in Ids(d) : e.tiles[k].type = d.tiles[k].type /\ B[k] = What(d.tiles[k])
      /\ \A k \in OfType(d, "terminal") : e.tiles[k].uid = d.tiles[k].uid
  BY DEF SavesTo
<1>3. TerminalUIDs(brd2[g].doc) = TerminalUIDs(d)
  <2>1. OfType(brd2[g].doc, "terminal") = OfType(d, "terminal") /\ OfType(e, "terminal") = OfType(d, "terminal")
    BY <1>1, <1>2 DEF SameShape, OfType
  <2>2. \A k \in OfType(d, "terminal") : brd2[g].doc.tiles[k].uid = d.tiles[k].uid
    BY <1>1, <1>2, <2>1
  <2> QED BY <2>1, <2>2 DEF TerminalUIDs
<1>4. \A p : p \in U2 <=> p \in TerminalUIDs(d) \/ \E b \in DOMAIN brd : b # g /\ p \in TerminalUIDs(brd[b].doc)
  <2>1. \A p : p \in U2 <=> \E b \in DOMAIN brd2 : p \in TerminalUIDs(brd2[b].doc)
    BY DEF UidsOn
  <2> QED BY <1>1, <1>3, <2>1
<1>5. \A p : p \in UidsOn(brd) <=> \E b \in DOMAIN brd : p \in TerminalUIDs(brd[b].doc)
  BY DEF UidsOn
<1>6. TerminalUIDs(d) \subseteq TerminalUIDs(st)
  <2> SUFFICES ASSUME NEW p \in TerminalUIDs(d) PROVE p \in TerminalUIDs(st)
    OBVIOUS
  <2>1. PICK k \in OfType(d, "terminal") : d.tiles[k].uid = p
    BY UidsHas
  <2> QED BY <2>1 DEF SaveOK, OnlyStored
<1>7. U2 \subseteq UidsOn(brd)
  BY <1>1, <1>4, <1>5, <1>6
<1>8. \A p \in UidsOn(brd) \ U2 : p \in TerminalUIDs(st) /\ p \notin TerminalUIDs(d)
  BY <1>4, <1>5
<1>9. ASSUME NEW p \in UidsOn(brd) \ U2
      PROVE \E k \in CloseIds(r.sent) : k \in OfType(st, "terminal") /\ st.tiles[k].uid = p
  <2>1. PICK k \in OfType(st, "terminal") : st.tiles[k].uid = p
    BY <1>8, UidsHas
  <2>2. B[k] = What(st.tiles[k]) /\ k \in Ids(st) /\ st.tiles[k].type = "terminal"
    BY <1>1, <2>1 DEF BoardsFit, Fit, OfType
  <2>3. k \notin Ids(d)
    <3> SUFFICES ASSUME k \in Ids(d) PROVE FALSE
      OBVIOUS
    <3>1. What(st.tiles[k]) = What(d.tiles[k])
      BY <1>2, <2>2
    <3>2. d.tiles[k].type = "terminal" /\ d.tiles[k].uid = p
      BY <2>1, <2>2, <3>1, WhatType
    <3>3. p \in TerminalUIDs(d)
      BY <3>2, UidsHas DEF OfType
    <3> QED BY <1>8, <3>3
  <2>4. Explains(d, st, r.sent)
    <3>1. H[<<g, r.ver>>] = st
      BY <1>1 DEF HistFits, SaveOK
    <3> QED BY <3>1 DEF SaveOK, PutOK
  <2> QED BY <2>1, <2>3, <2>4 DEF Explains
<1> QED BY <1>7, <1>8, <1>9 DEF Closed

\* A save that is not stored is answered with the board as it is.
LEMMA RefusedWorld ==
  ASSUME NEW B, NEW H, NEW n, NEW brd, NEW t, NEW rq, World(B, H, n, brd, t, rq), NEW h \in Threads, DOMAIN rq = Threads,
         rq[h].step = "put", rq[h].hash \in DOMAIN brd,
         NEW r2, r2 = [step |-> "reply", op |-> "put", ok |-> FALSE, ver |-> brd[rq[h].hash].ver, doc |-> brd[rq[h].hash].doc,
                       sent |-> rq[h].sent, gen |-> rq[h].gen],
         NEW rq2, rq2 = [rq EXCEPT ![h] = r2]
  PROVE  World(B, H, n, brd, t, rq2)
<1> DEFINE r == rq[h]
<1>1. /\ BoardsFit(B, n, brd) /\ HistFits(B, H, n, brd) /\ TabFits(B, n, t)
      /\ ThreadsOK(B, H, n, brd, t, rq) /\ Distinct(rq, t)
  BY DEF World
<1>2. rq2[h] = r2 /\ \A k \in Threads \ {h} : rq2[k] = rq[k]
  OBVIOUS
<1>3. /\ r2.step = "reply" /\ r2.op = "put" /\ r2.ver = brd[r.hash].ver /\ r2.doc = brd[r.hash].doc /\ r2.sent = r.sent /\ r2.gen = r.gen
  OBVIOUS
<1>4. r2.ok = FALSE
  OBVIOUS
<1>5. PutOK(B, H, n, brd, t, r) /\ ThreadOK(B, H, n, brd, t, r)
  BY <1>1 DEF ThreadsOK, ThreadOK
<1>6. PutLike(r) /\ PutLike(r2) /\ ~Telling(r2) /\ SentOf(r2) = SentOf(r)
  BY <1>3, <1>5 DEF PutLike, Telling, SentOf, PutOK
<1>7. AnswerOK(B, H, n, brd, t, r2)
  <2>1. \A e \in r2.sent : EditFits(e, B, n)
    BY <1>3, <1>5 DEF PutOK
  <2>2. r2.ver \in Nat
    BY <1>1, <1>3 DEF BoardsFit
  <2>3. ASSUME r2.gen = t.gen PROVE H[<<t.hash, r2.ver>>] = r2.doc /\ r2.ver <= brd[t.hash].ver
    <3>1. r.hash = t.hash
      BY <1>3, <1>5, <2>3 DEF PutOK
    <3> QED BY <1>1, <1>3, <2>2, <3>1 DEF HistFits
  <2>4. r2.ok \in BOOLEAN
    BY <1>4
  <2>5. ~r2.ok
    BY <1>4
  <2> QED BY <1>3, <2>1, <2>2, <2>3, <2>4, <2>5 DEF AnswerOK
<1>8. ThreadOK(B, H, n, brd, t, r2)
  <2>1. r2.gen \in Nat /\ r2.gen <= t.gen
    BY <1>3, <1>5, <1>6 DEF ThreadOK
  <2> QED BY <1>3, <1>6, <1>7, <2>1 DEF ThreadOK
<1>9. ThreadsOK(B, H, n, brd, t, rq2)
  BY <1>1, <1>2, <1>8 DEF ThreadsOK
<1>10. Distinct(rq2, t)
  <2>1. \A k \in Threads : PutLike(rq2[k]) => PutLike(rq[k]) /\ rq2[k].gen = rq[k].gen /\ SentOf(rq2[k]) = SentOf(rq[k])
    BY <1>2, <1>3, <1>6
  <2>2. \A k \in Threads : Telling(rq2[k]) => rq2[k] = rq[k]
    BY <1>2, <1>6
  <2>3. \A k \in Threads : rq2[k].step = "put" => rq2[k] = rq[k]
    BY <1>2, <1>3
  <2>4. \A j, k \in Threads : PutLike(rq2[j]) /\ PutLike(rq2[k]) /\ rq2[j].gen = rq2[k].gen => j = k
    BY <1>1, <2>1 DEF Distinct
  <2>5. \A j, k \in Threads : rq2[j].step = "put" /\ rq2[k].step = "put" /\ j # k =>
          OpenIds(rq2[j].sent) \intersect OpenIds(rq2[k].sent) = {}
    BY <1>1, <2>3 DEF Distinct
  <2>6. ASSUME NEW j \in Threads, Telling(rq2[j])
        PROVE /\ rq2[j].reply.id \notin ServerIds(Pends(t))
              /\ \A k \in Threads : PutLike(rq2[k]) => rq2[j].reply.id \notin ServerIds(SentOf(rq2[k]))
              /\ \A k \in Threads \ {j} : Telling(rq2[k]) => rq2[k].reply.id # rq2[j].reply.id
    <3>1. Telling(rq[j]) /\ rq2[j] = rq[j]
      BY <2>2, <2>6
    <3>2. /\ rq[j].reply.id \notin ServerIds(Pends(t))
          /\ \A k \in Threads : PutLike(rq[k]) => rq[j].reply.id \notin ServerIds(SentOf(rq[k]))
          /\ \A k \in Threads \ {j} : Telling(rq[k]) => rq[k].reply.id # rq[j].reply.id
      <4>1. Distinct(rq, t)
        BY <1>1
      <4> QED BY <3>1, <4>1 DEF Distinct
    <3>3. rq2[j].reply.id = rq[j].reply.id
      BY <3>1
    <3>4. ASSUME NEW k \in Threads, PutLike(rq2[k]) PROVE rq2[j].reply.id \notin ServerIds(SentOf(rq2[k]))
      <4>1. PutLike(rq[k]) /\ SentOf(rq2[k]) = SentOf(rq[k])
        BY <2>1, <3>4
      <4>2. rq[j].reply.id \notin ServerIds(SentOf(rq[k]))
        BY <3>2, <4>1
      <4> QED BY <3>3, <4>1, <4>2
    <3>5. \A k \in Threads \ {j} : Telling(rq2[k]) => rq2[k].reply.id # rq2[j].reply.id
      BY <2>2, <3>2, <3>3
    <3> QED BY <3>2, <3>3, <3>4, <3>5
  <2> QED BY <2>4, <2>5, <2>6 DEF Distinct
<1> QED BY <1>9, <1>10 DEF World

\* What the action does when the save is stored.
Stores(h) ==
  LET r == req[h]
      rec == board[r.hash]
      e == KeepFolderMeta(r.doc, rec.doc)
      saved == [doc |-> Marshal(e, next), ver |-> board[r.hash].ver + 1]
      closed == {x.id : x \in {x \in r.sent : x.do = "close"}}
  IN /\ r.hash \in DOMAIN board /\ board[r.hash].ver = r.ver /\ IsValid(r.doc) /\ OnlyStored(r.doc, rec.doc)
     /\ board' = [board EXCEPT ![r.hash] = saved]
     /\ shown' = shown \ {rec.doc.tiles[k].uid : k \in closed \intersect OfType(rec.doc, "terminal")}
     /\ next' = next + 1
     /\ req' = [req EXCEPT ![h] = [step |-> "publish", op |-> "put", saved |-> On(r.hash, saved), mine |-> TRUE,
                                  closed |-> Closed(rec.doc, r.doc), uid |-> None, reply |-> Answer(r, TRUE, saved), gen |-> r.gen]]
     /\ UNCHANGED <<proc, tab>>

Refuses(h) ==
  /\ req[h].hash \in DOMAIN board
  /\ req' = [req EXCEPT ![h] = Answer(req[h], FALSE, board[req[h].hash])]
  /\ UNCHANGED <<board, proc, tab, shown, next>>

\* putTiles stores or refuses.
LEMMA PutIs ==
  ASSUME NEW h, PutTiles(h)
  PROVE  req[h].step = "put" /\ (Nothing(h) \/ Refuses(h) \/ Stores(h))
<1>1. CASE \/ ~IsValid(req[h].doc) \/ req[h].hash \notin DOMAIN board
           \/ SameVersion(req[h]) /\ ~OnlyStored(req[h].doc, board[req[h].hash].doc)
  BY <1>1 DEF PutTiles
<1>2. CASE ~ \/ ~IsValid(req[h].doc) \/ req[h].hash \notin DOMAIN board
             \/ SameVersion(req[h]) /\ ~OnlyStored(req[h].doc, board[req[h].hash].doc)
  <2>1. CASE ~SameVersion(req[h])
    BY <1>2, <2>1 DEF PutTiles, Refuses, Step
  <2>2. CASE SameVersion(req[h])
    BY <1>2, <2>2 DEF PutTiles, Stores, Step, SameVersion, Saved
  <2> QED BY <2>1, <2>2
<1> QED BY <1>1, <1>2

LEMMA RefusesStep ==
  ASSUME IInv, NEW h \in Threads, req[h].step = "put", Refuses(h)
  PROVE  IInv'
<1> PICK B, H : Inv(B, H, next, board, tab, req, proc, shown)
  BY DEF IInv
<1> DEFINE r2 == Answer(req[h], FALSE, board[req[h].hash])
<1>1. /\ req' = [req EXCEPT ![h] = r2] /\ req[h].hash \in DOMAIN board
      /\ UNCHANGED <<board, proc, tab, shown, next>>
  BY DEF Refuses
<1>2. r2 = [step |-> "reply", op |-> "put", ok |-> FALSE, ver |-> board[req[h].hash].ver, doc |-> board[req[h].hash].doc,
            sent |-> req[h].sent, gen |-> req[h].gen]
  BY DEF Answer
<1>3. r2.step = "reply"
  BY DEF Answer
<1> HIDE DEF r2
<1>4. World(B, H, next, board, tab, req')
  BY <1>1, <1>2, RefusedWorld DEF Inv
<1>5. \A p : ~PurgesOf(r2, p)
  BY <1>3 DEF PurgesOf
<1>6. Party(proc, req', UidsOn(board), shown)
  BY <1>1, <1>3, <1>5, RestParty DEF Inv
<1>7. Inv(B, H, next', board', tab', req', proc', shown')
  BY <1>1, <1>4, <1>6 DEF Inv
<1> QED BY <1>7 DEF IInv

LEMMA StoresStep ==
  ASSUME IInv, NEW h \in Threads, req[h].step = "put", Stores(h)
  PROVE  IInv'
<1> PICK B, H : Inv(B, H, next, board, tab, req, proc, shown)
  BY DEF IInv
<1> DEFINE r == req[h]
           g == r.hash
           st == board[g].doc
           e == KeepFolderMeta(r.doc, st)
           docs == On(g, e)
           brd2 == Rows(board, docs, {}, next)
           saved == [doc |-> Marshal(e, next), ver |-> board[g].ver + 1]
           a == Answer(r, TRUE, saved)
           r2 == [step |-> "publish", op |-> "put", saved |-> On(g, saved), mine |-> TRUE,
                  closed |-> Closed(st, r.doc), uid |-> None, reply |-> a, gen |-> r.gen]
           gone == {st.tiles[k].uid : k \in CloseIds(r.sent) \intersect OfType(st, "terminal")}
<1>1. /\ g \in DOMAIN board /\ board[g].ver = r.ver /\ IsValid(r.doc) /\ OnlyStored(r.doc, st)
      /\ board' = [board EXCEPT ![g] = saved]
      /\ shown' = shown \ gone
      /\ next' = next + 1 /\ req' = [req EXCEPT ![h] = r2] /\ UNCHANGED <<proc, tab>>
  BY DEF Stores, CloseIds
<1>2. World(B, H, next, board, tab, req) /\ Party(proc, req, UidsOn(board), shown) /\ DOMAIN req = Threads
  BY DEF Inv
<1>3. /\ next \in Nat /\ BoardsFit(B, next, board) /\ HistFits(B, H, next, board) /\ Sound(B, board)
      /\ PutOK(B, H, next, board, tab, r)
  BY <1>2 DEF World, ThreadsOK, ThreadOK
<1>4. SaveOK(B, H, next, board, tab, r)
  BY <1>1, <1>3 DEF SaveOK
<1>5. SavesTo(B, next, board, g, r.sent, r.doc, e)
  BY <1>3, <1>4, SaveWrites
<1>6. DOMAIN docs = {g} /\ docs[g] = e /\ DOMAIN On(g, saved) = {g} /\ On(g, saved)[g] = saved
  BY DEF On
<1>7. saved.doc = Marshal(e, next) /\ saved.ver = board[g].ver + 1
  OBVIOUS
<1>8. /\ r2.step = "publish" /\ r2.op = "put" /\ r2.gen = r.gen /\ r2.saved = On(g, saved)
      /\ r2.reply = a /\ r2.closed = Closed(st, r.doc)
  OBVIOUS
<1>9. r2.mine = TRUE
  OBVIOUS
<1>10. /\ a.step = "reply" /\ a.op = "put" /\ a.ver = saved.ver /\ a.doc = saved.doc /\ a.sent = r.sent /\ a.gen = r.gen
  BY DEF Answer
<1>11. a.ok = TRUE
  BY DEF Answer
<1>12. saved = [doc |-> Marshal(docs[g], next), ver |-> IF g \in DOMAIN board THEN board[g].ver + 1 ELSE 1]
  BY <1>1, <1>6
<1> HIDE DEF e, docs, saved, a, r2
<1>13. board' = brd2
  <2>1. (DOMAIN board \union DOMAIN docs) \ {} = DOMAIN board
    BY <1>1, <1>6
  <2> QED BY <1>1, <1>6, <1>12, <2>1 DEF Rows
<1>14. g \in DOMAIN board' /\ board'[g] = saved
  BY <1>1
<1>15. SavedAs(r, r2, brd2)
  <2> HIDE DEF brd2
  <2>1. brd2[g] = saved
    BY <1>13, <1>14
  <2> QED BY <1>6, <1>8, <1>9, <1>10, <1>11, <2>1 DEF SavedAs
<1>16. World(B, HistTo(H, docs, brd2), next + 1, brd2, tab, req')
  <2>1. brd2 = Rows(board, On(r.hash, e), {}, next)
    BY DEF docs
  <2> HIDE DEF brd2
  <2>2. req' = [req EXCEPT ![h] = r2] /\ req[h].step = "put"
    BY <1>1
  <2>3. World(B, H, next, board, tab, req) /\ DOMAIN req = Threads
    BY <1>2
  <2>4. World(B, HistTo(H, On(r.hash, e), brd2), next + 1, brd2, tab, req')
    BY <1>4, <1>5, <1>15, <2>1, <2>2, <2>3, SaveWorld
  <2> QED BY <2>4 DEF docs
<1>17. RowsOK(board, docs, {}, next, brd2)
  BY <1>3, <1>5, RowsAre DEF SavesTo, docs
<1> DEFINE U2 == UidsOn(brd2)
<1> HIDE DEF brd2
<1>18. /\ U2 \subseteq UidsOn(board)
       /\ UidsOn(board) \ U2 \subseteq Closed(st, r.doc)
       /\ \A p \in UidsOn(board) \ U2 : \E k \in CloseIds(r.sent) : k \in OfType(st, "terminal") /\ st.tiles[k].uid = p
  BY <1>3, <1>4, <1>5, <1>17, SaveUids DEF docs
<1> HIDE DEF U2
<1>19. shown' \subseteq U2
  <2>1. UidsOn(board) \ U2 \subseteq gone
    BY <1>18
  <2>2. shown \subseteq UidsOn(board)
    BY <1>2 DEF Party
  <2> HIDE DEF gone
  <2> QED BY <1>1, <2>1, <2>2
<1>20. PartyMove(proc, proc, req, h, r2, UidsOn(board), U2, shown')
  <2>1. \A p : ~PurgesOf(r2, p)
    BY <1>8 DEF PurgesOf
  <2> QED BY <1>2, <1>8, <1>18, <1>19, <2>1 DEF PartyMove, Party
<1>21. Party(proc, req', U2, shown')
  BY <1>1, <1>2, <1>20, MoveParty
<1>22. DOMAIN req' = Threads
  BY <1>1, <1>2
<1>23. Inv(B, HistTo(H, docs, brd2), next', board', tab', req', proc', shown')
  BY <1>1, <1>13, <1>16, <1>21, <1>22 DEF Inv, U2
<1> QED BY <1>23 DEF IInv

\* putTiles keeps the invariant.
LEMMA PutTilesStep ==
  ASSUME IInv, InOrder, NEW h \in Threads, PutTiles(h)
  PROVE  IInv'
<1>1. req[h].step = "put" /\ (Nothing(h) \/ Refuses(h) \/ Stores(h))
  BY PutIs
<1> QED BY <1>1, NothingStep, RefusesStep, StoresStep

\* What is left of a request when it goes on.
GoesOn(r, r2) ==
  /\ r2.step # "put"
  /\ PutLike(r2) => PutLike(r) /\ r2.gen = r.gen /\ SentOf(r2) = SentOf(r)
  /\ Telling(r2) => Telling(r) /\ r2.reply = r.reply

LEMMA DistinctOn ==
  ASSUME NEW rq, NEW t, Distinct(rq, t), NEW t2, Pends(t2) \subseteq Pends(t), NEW h \in Threads, DOMAIN rq = Threads,
         NEW r2, GoesOn(rq[h], r2), NEW rq2, rq2 = [rq EXCEPT ![h] = r2]
  PROVE  Distinct(rq2, t2)
<1>1. rq2[h] = r2 /\ \A k \in Threads \ {h} : rq2[k] = rq[k]
  OBVIOUS
<1>2. \A k \in Threads : PutLike(rq2[k]) => PutLike(rq[k]) /\ rq2[k].gen = rq[k].gen /\ SentOf(rq2[k]) = SentOf(rq[k])
  BY <1>1 DEF GoesOn
<1>3. \A k \in Threads : Telling(rq2[k]) => Telling(rq[k]) /\ rq2[k].reply = rq[k].reply
  BY <1>1 DEF GoesOn
<1>4. \A k \in Threads : rq2[k].step = "put" => rq2[k] = rq[k]
  BY <1>1 DEF GoesOn
<1>5. \A j, k \in Threads : PutLike(rq2[j]) /\ PutLike(rq2[k]) /\ rq2[j].gen = rq2[k].gen => j = k
  BY <1>2 DEF Distinct
<1>6. \A j, k \in Threads : rq2[j].step = "put" /\ rq2[k].step = "put" /\ j # k =>
        OpenIds(rq2[j].sent) \intersect OpenIds(rq2[k].sent) = {}
  BY <1>4 DEF Distinct
<1>7. ServerIds(Pends(t2)) \subseteq ServerIds(Pends(t))
  BY DEF ServerIds
<1>8. ASSUME NEW j \in Threads, Telling(rq2[j])
      PROVE /\ rq2[j].reply.id \notin ServerIds(Pends(t2))
            /\ \A k \in Threads : PutLike(rq2[k]) => rq2[j].reply.id \notin ServerIds(SentOf(rq2[k]))
            /\ \A k \in Threads \ {j} : Telling(rq2[k]) => rq2[k].reply.id # rq2[j].reply.id
  <2>1. Telling(rq[j]) /\ rq2[j].reply = rq[j].reply
    BY <1>3, <1>8
  <2>2. /\ rq[j].reply.id \notin ServerIds(Pends(t))
        /\ \A k \in Threads : PutLike(rq[k]) => rq[j].reply.id \notin ServerIds(SentOf(rq[k]))
        /\ \A k \in Threads \ {j} : Telling(rq[k]) => rq[k].reply.id # rq[j].reply.id
    BY <2>1 DEF Distinct
  <2> QED BY <1>2, <1>3, <1>7, <2>1, <2>2
<1> QED BY <1>5, <1>6, <1>8 DEF Distinct

\* The tab goes to a later version of its board.
Renewed(t, t2) ==
  /\ t2.hash = t.hash /\ t2.gen = t.gen /\ t.ver \in Nat /\ t2.ver \in Nat /\ t.ver < t2.ver
  /\ Pends(t2) \subseteq Pends(t)

LEMMA ThreadRenewed ==
  ASSUME NEW B, NEW H, NEW n, NEW brd, NEW t, NEW t2, Renewed(t, t2), NEW r, ThreadOK(B, H, n, brd, t, r),
         PutLike(r) /\ r.gen = t.gen => r.step = "put"
  PROVE  ThreadOK(B, H, n, brd, t2, r)
<1>1. OpenIds(Pends(t2)) \subseteq OpenIds(Pends(t))
  BY DEF Renewed, OpenIds
<1>2. ASSUME r.step = "put" PROVE PutOK(B, H, n, brd, t2, r)
  <2>1. PutOK(B, H, n, brd, t, r)
    BY <1>2 DEF ThreadOK
  <2>2. ASSUME r.gen = t.gen PROVE r.hash = t2.hash /\ r.ver <= t2.ver /\ r.ver # t2.ver
    <3>1. r.hash = t.hash /\ r.ver <= t.ver /\ r.ver \in Nat
      BY <2>1, <2>2 DEF PutOK
    <3> QED BY <3>1 DEF Renewed
  <2>3. r.gen # t.gen => OpenIds(r.sent) \intersect OpenIds(Pends(t2)) = {}
    BY <1>1, <2>1 DEF PutOK
  <2>4. t2.gen = t.gen
    BY DEF Renewed
  <2> QED BY <2>1, <2>2, <2>3, <2>4 DEF PutOK
<1>3. t2.gen = t.gen
  BY DEF Renewed
<1>4. ASSUME r.step = "publish", r.op = "put" PROVE AnswerOK(B, H, n, brd, t2, r.reply)
  <2>1. AnswerOK(B, H, n, brd, t, r.reply) /\ r.reply.gen = r.gen
    BY <1>4 DEF ThreadOK
  <2>2. r.gen # t.gen
    BY <1>4 DEF PutLike
  <2> QED BY <1>3, <2>1, <2>2 DEF AnswerOK
<1>5. ASSUME r.step = "reply", r.op = "put" PROVE AnswerOK(B, H, n, brd, t2, r)
  <2>1. AnswerOK(B, H, n, brd, t, r)
    BY <1>5 DEF ThreadOK
  <2>2. r.gen # t.gen
    BY <1>5 DEF PutLike
  <2> QED BY <1>3, <2>1, <2>2 DEF AnswerOK
<1> QED BY <1>2, <1>3, <1>4, <1>5 DEF ThreadOK

\* What the tab has when it did its edits again on a later document.
RebasesTo(B, H, n, brd, t, t2) == Renewed(t, t2) /\ TabFits(B, n, t2) /\ TabOK(H, brd, t2)

LEMMA RebasesIs ==
  ASSUME NEW B, NEW H, NEW n \in Nat, NEW brd, NEW t, TabFits(B, n, t), TabOK(H, brd, t),
         NEW ver \in Nat, t.ver < ver, NEW doc, doc = H[<<t.hash, ver>>], Fit(doc, B, n),
         t.hash \in DOMAIN brd => ver <= brd[t.hash].ver
  PROVE  RebasesTo(B, H, n, brd, t, Rebased(t, ver, doc))
<1> DEFINE t2 == Rebased(t, ver, doc)
<1>1. /\ t = [hash |-> t.hash, ver |-> t.ver, doc |-> t.doc, pend |-> t.pend, gen |-> t.gen]
      /\ t.hash \in Nat /\ t.ver \in Nat /\ t.pend \in Seq(EditSet) /\ t.gen \in Nat /\ 0 < t.hash /\ t.hash < n
      /\ (\A i \in 1 .. Len(t.pend) : EditFits(t.pend[i], B, n)) /\ NoReopen(t.pend)
  BY DEF TabFits, TabSet
<1>2. PICK s : /\ Edited(s, B, n, t.pend, doc, Len(t.pend))
               /\ t2 = [t EXCEPT !.ver = ver, !.doc = s.doc, !.pend = s.pend]
  <2>1. RebaseIs(B, n, t, ver, doc)
    <3>1. Doable(B, n, t)
      BY DEF TabFits, TabSet, Doable
    <3> QED BY <3>1, RebasedIs
  <2> QED BY <2>1 DEF RebaseIs
<1>3. t2 = [hash |-> t.hash, ver |-> ver, doc |-> s.doc, pend |-> s.pend, gen |-> t.gen]
  BY <1>1, <1>2
<1> HIDE DEF t2
<1>4. t2.hash = t.hash /\ t2.ver = ver /\ t2.doc = s.doc /\ t2.pend = s.pend /\ t2.gen = t.gen
  BY <1>3
<1>5. /\ Fit(s.doc, B, n) /\ Kept(s.pend, t.pend, Len(t.pend)) /\ Explains(s.doc, doc, ToSet(s.pend))
  BY <1>2 DEF Edited
<1>6. s.doc \in DocSet /\ s.pend \in Seq(EditSet)
  BY <1>5 DEF Fit, Kept
<1>7. \A m \in 1 .. Len(s.pend) : \E i \in 1 .. Len(t.pend) : s.pend[m] = t.pend[i]
  BY <1>5 DEF Kept
<1>8. Pends(t2) \subseteq Pends(t)
  <2>1. \A x \in Pends(t2) : \E m \in 1 .. Len(s.pend) : x = s.pend[m]
    BY <1>4, <1>6 DEF Pends, ToSet
  <2>2. \A i \in 1 .. Len(t.pend) : t.pend[i] \in Pends(t)
    BY <1>1 DEF Pends, ToSet
  <2> SUFFICES ASSUME NEW x \in Pends(t2) PROVE x \in Pends(t)
    OBVIOUS
  <2>3. PICK m \in 1 .. Len(s.pend) : x = s.pend[m]
    BY <2>1
  <2>4. PICK i \in 1 .. Len(t.pend) : s.pend[m] = t.pend[i]
    BY <1>7
  <2> QED BY <2>2, <2>3, <2>4
<1>9. Renewed(t, t2)
  BY <1>1, <1>4, <1>8 DEF Renewed
<1>10. NoReopen(t2.pend)
  <2> SUFFICES ASSUME NEW l \in 1 .. Len(s.pend), NEW m \in 1 .. Len(s.pend), l < m, s.pend[l].do = "close", s.pend[m].do = "open"
               PROVE  s.pend[l].id # s.pend[m].n
    BY <1>4 DEF NoReopen
  <2>1. PICK i \in 1 .. Len(t.pend), j \in 1 .. Len(t.pend) : i < j /\ s.pend[l] = t.pend[i] /\ s.pend[m] = t.pend[j]
    BY <1>5 DEF Kept
  <2> QED BY <1>1, <2>1 DEF NoReopen
<1>11. TabFits(B, n, t2)
  <2>1. t2 \in TabSet
    BY <1>1, <1>3, <1>6 DEF TabSet
  <2>2. \A i \in 1 .. Len(t2.pend) : EditFits(t2.pend[i], B, n)
    BY <1>1, <1>4, <1>7
  <2> QED BY <1>1, <1>4, <1>5, <1>10, <2>1, <2>2 DEF TabFits
<1>12. TabOK(H, brd, t2)
  <2>1. Pends(t2) = ToSet(s.pend)
    BY <1>4 DEF Pends
  <2>2. Explains(t2.doc, H[<<t2.hash, t2.ver>>], Pends(t2))
    BY <1>4, <1>5, <2>1
  <2>3. ASSUME t2.hash \in DOMAIN brd PROVE t2.ver <= brd[t2.hash].ver /\ Elsewhere(Pends(t2), t2.hash, brd)
    <3>1. Elsewhere(Pends(t), t.hash, brd)
      BY <1>4, <2>3 DEF TabOK
    <3>2. OpenIds(Pends(t2)) \subseteq OpenIds(Pends(t))
      BY <1>8 DEF OpenIds
    <3> QED BY <1>4, <2>3, <3>1, <3>2 DEF Elsewhere
  <2> QED BY <2>2, <2>3 DEF TabOK
<1>13. RebasesTo(B, H, n, brd, t, t2)
  BY <1>9, <1>11, <1>12 DEF RebasesTo
<1> QED BY <1>13 DEF t2

\* A request goes on while the tab goes to a later version.
LEMMA RebaseWorld ==
  ASSUME NEW B, NEW H, NEW n, NEW brd, NEW t, NEW rq, World(B, H, n, brd, t, rq), NEW h \in Threads, DOMAIN rq = Threads,
         NEW t2, RebasesTo(B, H, n, brd, t, t2), NEW r2, GoesOn(rq[h], r2), ThreadOK(B, H, n, brd, t2, r2),
         \A k \in Threads \ {h} : PutLike(rq[k]) /\ rq[k].gen = t.gen => rq[k].step = "put",
         NEW rq2, rq2 = [rq EXCEPT ![h] = r2]
  PROVE  World(B, H, n, brd, t2, rq2)
<1>1. rq2[h] = r2 /\ \A k \in Threads \ {h} : rq2[k] = rq[k]
  OBVIOUS
<1>2. ThreadsOK(B, H, n, brd, t2, rq2)
  <2>1. ASSUME NEW k \in Threads \ {h} PROVE ThreadOK(B, H, n, brd, t2, rq2[k])
    BY <1>1, ThreadRenewed DEF World, ThreadsOK, RebasesTo
  <2> QED BY <1>1, <2>1 DEF ThreadsOK
<1>3. Distinct(rq2, t2)
  BY DistinctOn DEF World, RebasesTo, Renewed
<1> QED BY <1>2, <1>3 DEF World, RebasesTo

\* A request goes on and the tab stays.
LEMMA StayWorld ==
  ASSUME NEW B, NEW H, NEW n, NEW brd, NEW t, NEW rq, World(B, H, n, brd, t, rq), NEW h \in Threads, DOMAIN rq = Threads,
         NEW r2, GoesOn(rq[h], r2), ThreadOK(B, H, n, brd, t, r2), NEW rq2, rq2 = [rq EXCEPT ![h] = r2]
  PROVE  World(B, H, n, brd, t, rq2)
<1>1. rq2[h] = r2 /\ \A k \in Threads \ {h} : rq2[k] = rq[k]
  OBVIOUS
<1>2. ThreadsOK(B, H, n, brd, t, rq2)
  BY <1>1 DEF World, ThreadsOK
<1>3. Distinct(rq2, t)
  BY DistinctOn DEF World
<1> QED BY <1>2, <1>3 DEF World

\* What comes after publishTiles.
Told(r, r2) ==
  \/ r.op = "put" /\ r2 = r.reply
  \/ r.op # "put" /\ r.mine /\ r2 = [step |-> "reply", op |-> r.op, reply |-> r.reply, gen |-> r.gen]
  \/ r.op = "purge" /\ ~r.mine /\ r2 = [step |-> "purged", op |-> r.op, uid |-> r.uid]
  \/ r2 = Idle

LEMMA PublishIs ==
  ASSUME NEW h, Publish(h)
  PROVE  /\ req[h].step = "publish" /\ Ordered(h)
         /\ tab' = Heard(tab, req[h].saved, req[h].mine)
         /\ proc' = [p \in Procs |-> IF p \in Abandoned(req[h].closed) THEN [proc[p] EXCEPT !.kill = "forced"] ELSE proc[p]]
         /\ \E r2 : Told(req[h], r2) /\ req' = [req EXCEPT ![h] = r2]
         /\ UNCHANGED <<board, shown, next>>
<1> DEFINE r == req[h]
<1>1. /\ req[h].step = "publish" /\ Ordered(h)
      /\ tab' = Heard(tab, req[h].saved, req[h].mine)
      /\ proc' = [p \in Procs |-> IF p \in Abandoned(req[h].closed) THEN [proc[p] EXCEPT !.kill = "forced"] ELSE proc[p]]
      /\ UNCHANGED <<board, shown, next>>
  BY DEF Publish
<1>2. CASE r.op = "put"
  <2>1. req' = [req EXCEPT ![h] = r.reply]
    BY <1>2 DEF Publish, Step
  <2>2. Told(r, r.reply)
    BY <1>2 DEF Told
  <2> QED BY <1>1, <2>1, <2>2
<1>3. CASE r.op # "put" /\ r.mine
  <2> DEFINE r2 == [step |-> "reply", op |-> r.op, reply |-> r.reply, gen |-> r.gen]
  <2>1. req' = [req EXCEPT ![h] = r2]
    BY <1>3 DEF Publish, Step
  <2>2. Told(r, r2)
    BY <1>3 DEF Told
  <2> QED BY <1>1, <2>1, <2>2
<1>4. CASE r.op = "purge" /\ ~r.mine
  <2> DEFINE r2 == [step |-> "purged", op |-> r.op, uid |-> r.uid]
  <2>1. req' = [req EXCEPT ![h] = r2]
    BY <1>4 DEF Publish, Step
  <2>2. Told(r, r2)
    BY <1>4 DEF Told
  <2> QED BY <1>1, <2>1, <2>2
<1>5. CASE r.op # "put" /\ ~r.mine /\ r.op # "purge"
  <2>1. req' = [req EXCEPT ![h] = Idle]
    BY <1>5 DEF Publish, Step, End
  <2>2. Told(r, Idle)
    BY DEF Told
  <2> QED BY <1>1, <2>1, <2>2
<1> QED BY <1>2, <1>3, <1>4, <1>5

LEMMA ToldIs ==
  ASSUME NEW B, NEW H, NEW n, NEW brd, NEW t, NEW r, r.step = "publish", ThreadOK(B, H, n, brd, t, r), NEW r2, Told(r, r2)
  PROVE  /\ GoesOn(r, r2) /\ ThreadOK(B, H, n, brd, t, r2)
         /\ r2.step \in {"reply", "purged", "idle"}
         /\ ~r.mine => r2.step \in {"purged", "idle"}
         /\ \A p : PurgesOf(r2, p) => PurgesOf(r, p)
<1>0. /\ r.mine = (r.op \in {"put", "exec", "video"})
      /\ PutLike(r) => r.gen \in Nat /\ r.gen <= t.gen
      /\ r.op = "put" => AnswerOK(B, H, n, brd, t, r.reply) /\ r.reply.gen = r.gen
      /\ Telling(r) => TellOK(B, H, n, brd, r.reply)
  BY DEF ThreadOK
<1>1. CASE r.op = "put" /\ r2 = r.reply
  <2>1. r2.step = "reply" /\ r2.op = "put" /\ r2.gen = r.gen /\ SentOf(r2) = SentOf(r) /\ AnswerOK(B, H, n, brd, t, r2) /\ PutLike(r)
    BY <1>0, <1>1 DEF AnswerOK, SentOf, PutLike
  <2>2. ~Telling(r2)
    BY <2>1 DEF Telling
  <2>3. ThreadOK(B, H, n, brd, t, r2)
    BY <1>0, <2>1, <2>2 DEF ThreadOK
  <2>4. GoesOn(r, r2)
    BY <2>1, <2>2 DEF GoesOn
  <2>5. r.mine
    BY <1>0, <1>1
  <2> QED BY <2>1, <2>3, <2>4, <2>5 DEF PurgesOf
<1>2. CASE r.op # "put" /\ r.mine /\ r2 = [step |-> "reply", op |-> r.op, reply |-> r.reply, gen |-> r.gen]
  <2>1. r2.step = "reply" /\ r2.op = r.op /\ r2.reply = r.reply /\ r.op # "put"
    BY <1>2
  <2>2. r.op \in {"exec", "video"}
    BY <1>0, <1>2
  <2>3. ~PutLike(r2) /\ Telling(r2) /\ Telling(r)
    BY <2>1, <2>2 DEF PutLike, Telling
  <2>4. ThreadOK(B, H, n, brd, t, r2)
    BY <1>0, <2>1, <2>2, <2>3 DEF ThreadOK
  <2>5. GoesOn(r, r2)
    BY <2>1, <2>3 DEF GoesOn
  <2>6. r.mine
    BY <1>2
  <2> QED BY <2>1, <2>4, <2>5, <2>6 DEF PurgesOf
<1>3. CASE r.op = "purge" /\ ~r.mine /\ r2 = [step |-> "purged", op |-> r.op, uid |-> r.uid]
  <2>1. r2.step = "purged" /\ r2.op = r.op /\ r2.uid = r.uid
    BY <1>3
  <2>2. ~PutLike(r2) /\ ~Telling(r2)
    BY <2>1 DEF PutLike, Telling
  <2>3. \A p : PurgesOf(r2, p) => PurgesOf(r, p)
    BY <1>3, <2>1 DEF PurgesOf
  <2> QED BY <2>1, <2>2, <2>3 DEF GoesOn, ThreadOK
<1>4. CASE r2 = Idle
  <2>1. r2.step = "idle"
    BY <1>4 DEF Idle
  <2>2. ~PutLike(r2) /\ ~Telling(r2)
    BY <2>1 DEF PutLike, Telling
  <2> QED BY <2>1, <2>2 DEF GoesOn, ThreadOK, PurgesOf
<1> QED BY <1>1, <1>2, <1>3, <1>4 DEF Told

\* The map that comes to the tab.
LEMMA HeardWorld ==
  ASSUME NEW B, NEW H, NEW n, NEW brd, NEW t, NEW rq, World(B, H, n, brd, t, rq), NEW h \in Threads, DOMAIN rq = Threads,
         rq[h].step = "publish", NEW r2, Told(rq[h], r2),
         \A k \in Threads \ {h} : PutLike(rq[k]) => rq[k].step = "put",
         NEW rq2, rq2 = [rq EXCEPT ![h] = r2]
  PROVE  World(B, H, n, brd, Heard(t, rq[h].saved, rq[h].mine), rq2)
<1> DEFINE r == rq[h]
           ver == r.saved[t.hash].ver
           doc == r.saved[t.hash].doc
<1>1. /\ ThreadOK(B, H, n, brd, t, r) /\ TabFits(B, n, t) /\ TabOK(H, brd, t) /\ n \in Nat
      /\ \A g, v \in Nat : Fit(H[<<g, v>>], B, n)
  BY DEF World, ThreadsOK, HistFits
<1>2. /\ GoesOn(r, r2) /\ ThreadOK(B, H, n, brd, t, r2)
      /\ ~r.mine => r2.step \in {"purged", "idle"}
  BY <1>1, ToldIs
<1>3. World(B, H, n, brd, t, rq2)
  BY <1>2, StayWorld
<1>4. CASE Heard(t, r.saved, r.mine) = t
  BY <1>3, <1>4
<1>5. CASE Heard(t, r.saved, r.mine) # t
  <2>1. ~r.mine /\ t.hash \in DOMAIN r.saved /\ ver > t.ver /\ Heard(t, r.saved, r.mine) = Rebased(t, ver, doc)
    BY <1>5 DEF Heard
  <2>2. SavedOK(H, n, brd, r.saved)
    BY <1>1 DEF ThreadOK
  <2>3. /\ t.hash \in Nat /\ ver \in Nat /\ H[<<t.hash, ver>>] = doc
        /\ t.hash \in DOMAIN brd => ver <= brd[t.hash].ver
    BY <2>1, <2>2 DEF SavedOK
  <2>4. t.ver \in Nat
    BY <1>1 DEF TabFits, TabSet
  <2> HIDE DEF ver, doc
  <2>5. Fit(doc, B, n) /\ t.ver < ver
    BY <1>1, <2>1, <2>3, <2>4
  <2> DEFINE t2 == Rebased(t, ver, doc)
  <2>6. RebasesTo(B, H, n, brd, t, t2)
    BY <1>1, <2>3, <2>5, RebasesIs
  <2> HIDE DEF t2
  <2>7. ThreadOK(B, H, n, brd, t2, r2)
    BY <1>2, <2>1 DEF ThreadOK, PutLike, Telling
  <2>8. World(B, H, n, brd, t2, rq2)
    BY <1>2, <2>6, <2>7, RebaseWorld
  <2> QED BY <2>1, <2>8 DEF t2
<1> QED BY <1>4, <1>5

\* forceAbandoned.
Forced(closed, pr2) ==
  pr2 = [p \in Procs |-> IF p \in Abandoned(closed) THEN [proc[p] EXCEPT !.kill = "forced"] ELSE proc[p]]
Follows(r, r2) == r2.step \in {"reply", "purged", "idle"} /\ \A p : PurgesOf(r2, p) => PurgesOf(r, p)

LEMMA ForcedParty ==
  ASSUME Party(proc, req, UidsOn(board), shown), NEW h \in Threads, DOMAIN req = Threads,
         req[h].step = "publish", NEW r2, Follows(req[h], r2),
         NEW rq2, rq2 = [req EXCEPT ![h] = r2],
         NEW pr2, Forced(req[h].closed, pr2)
  PROVE  Party(pr2, rq2, UidsOn(board), shown)
<1> USE DEF Forced, Follows
<1> DEFINE U == UidsOn(board)
<1>1. OnBoards = U
  BY DEF OnBoards, UidsOn
<1> HIDE DEF U
<1>2. proc \in [Procs -> ProcSet] /\ shown \subseteq U /\ \A p \in Procs : proc[p].st = "none" => proc[p].kill = "no"
  BY DEF Party, U
<1>3. ASSUME NEW p \in Procs
      PROVE /\ pr2[p] \in ProcSet /\ pr2[p].st = proc[p].st
            /\ pr2[p].kill = IF p \in Abandoned(req[h].closed) THEN "forced" ELSE proc[p].kill
  <2> DEFINE x == [proc[p] EXCEPT !.kill = "forced"]
  <2>1. proc[p] \in ProcSet
    BY <1>2
  <2>2. x \in ProcSet /\ x.st = proc[p].st /\ x.kill = "forced"
    BY <2>1 DEF ProcSet
  <2>3. pr2[p] = IF p \in Abandoned(req[h].closed) THEN x ELSE proc[p]
    OBVIOUS
  <2> HIDE DEF x
  <2> QED BY <2>1, <2>2, <2>3
<1>4. pr2 \in [Procs -> ProcSet]
  <2>1. pr2 = [p \in Procs |-> pr2[p]]
    OBVIOUS
  <2> QED BY <1>3, <2>1
<1>5. \A p \in Procs : p \in Abandoned(req[h].closed) => proc[p].st = "live" /\ p \notin U
  BY <1>1 DEF Abandoned, IsLive
<1>6. \A p \in Procs : proc[p].st = "live" /\ proc[p].kill = "asked" /\ p \in req[h].closed /\ p \notin U =>
         p \in Abandoned(req[h].closed)
  BY <1>1 DEF Abandoned, IsLive
<1>7. ASSUME NEW p \in Procs
      PROVE  /\ pr2[p].st = "none" => pr2[p].kill = "no"
             /\ proc[p].st # "none" => pr2[p].st # "none"
             /\ proc[p].st \in {"ended", "gone"} => pr2[p].st \in {"ended", "gone"}
             /\ proc[p].st \in {"live", "ended"} => pr2[p].st \in {"live", "ended"}
  BY <1>2, <1>3, <1>5
<1>8. ASSUME NEW p \in Procs, pr2[p].st = "live", pr2[p].kill = "asked"
      PROVE  /\ proc[p].st = "live" /\ proc[p].kill = "asked"
             /\ p \in req[h].closed => p \in U
  BY <1>3, <1>6, <1>8
<1>9. PartyMove(proc, pr2, req, h, r2, U, U, shown)
  BY <1>2, <1>4, <1>7, <1>8 DEF PartyMove
<1> QED BY <1>9, MoveParty DEF U

\* publishTiles: the documents are pushed, abandoned processes are forced to end.
LEMMA PublishStep ==
  ASSUME IInv, InOrder, NEW h \in Threads, Publish(h)
  PROVE  IInv'
<1> PICK B, H : Inv(B, H, next, board, tab, req, proc, shown)
  BY DEF IInv
<1>1. /\ World(B, H, next, board, tab, req) /\ Party(proc, req, UidsOn(board), shown) /\ DOMAIN req = Threads
  BY DEF Inv
<1>2. PICK r2 : Told(req[h], r2) /\ req' = [req EXCEPT ![h] = r2]
  BY PublishIs
<1>3. /\ req[h].step = "publish" /\ Ordered(h)
      /\ tab' = Heard(tab, req[h].saved, req[h].mine)
      /\ proc' = [p \in Procs |-> IF p \in Abandoned(req[h].closed) THEN [proc[p] EXCEPT !.kill = "forced"] ELSE proc[p]]
      /\ UNCHANGED <<board, shown, next>>
  BY PublishIs
<1>4. ASSUME NEW k \in Threads \ {h}, PutLike(req[k]) PROVE req[k].step = "put"
  <2>1. k \in Busy
    BY <1>4 DEF Busy, PutLike, Idle
  <2>2. "overtake" \notin Windows
    BY DEF InOrder
  <2> QED BY <1>3, <1>4, <2>1, <2>2 DEF Ordered, PutLike
<1>5. World(B, H, next, board, tab', req')
  BY <1>1, <1>2, <1>3, <1>4, HeardWorld
<1>6. ThreadOK(B, H, next, board, tab, req[h])
  BY <1>1 DEF World, ThreadsOK
<1>7. r2.step \in {"reply", "purged", "idle"} /\ \A p : PurgesOf(r2, p) => PurgesOf(req[h], p)
  BY <1>2, <1>3, <1>6, ToldIs
<1>8. Party(proc', req', UidsOn(board), shown)
  <2>1. Follows(req[h], r2)
    BY <1>7 DEF Follows
  <2>2. Forced(req[h].closed, proc')
    BY <1>3 DEF Forced
  <2> QED BY <1>1, <1>2, <1>3, <2>1, <2>2, ForcedParty
<1>9. DOMAIN req' = Threads
  BY <1>1, <1>2
<1>10. Inv(B, H, next', board', tab', req', proc', shown')
  BY <1>3, <1>5, <1>8, <1>9 DEF Inv
<1> QED BY <1>10 DEF IInv

\* Facts about the tab's edits.
LEMMA PendIs ==
  ASSUME NEW B, NEW n, NEW t, TabFits(B, n, t)
  PROVE  /\ t = [hash |-> t.hash, ver |-> t.ver, doc |-> t.doc, pend |-> t.pend, gen |-> t.gen]
         /\ t.hash \in Nat /\ t.ver \in Nat /\ t.doc \in DocSet /\ t.pend \in Seq(EditSet) /\ t.gen \in Nat
         /\ 0 < t.hash /\ t.hash < n
         /\ \A y : y \in Pends(t) <=> \E i \in 1 .. Len(t.pend) : t.pend[i] = y
<1>1. t \in TabSet /\ 0 < t.hash /\ t.hash < n
  BY DEF TabFits
<1>2. t.pend \in Seq(EditSet)
  BY <1>1 DEF TabSet
<1>3. \A y : y \in Pends(t) <=> \E i \in 1 .. Len(t.pend) : t.pend[i] = y
  BY <1>2 DEF Pends, ToSet
<1> QED BY <1>1, <1>3 DEF TabSet

\* The answer of a save that was stored.
LEMMA ConfirmedTo ==
  ASSUME NEW B, NEW H, NEW n \in Nat, NEW brd, NEW t, TabFits(B, n, t), TabOK(H, brd, t),
         NEW r, AnswerOK(B, H, n, brd, t, r), r.gen = t.gen, r.ok
  PROVE  RebasesTo(B, H, n, brd, t, Confirmed(t, r))
<1> DEFINE t2 == Confirmed(t, r)
           q == Drop(t.pend, r.sent)
<1>1. /\ t = [hash |-> t.hash, ver |-> t.ver, doc |-> t.doc, pend |-> t.pend, gen |-> t.gen]
      /\ t.hash \in Nat /\ t.ver \in Nat /\ t.doc \in DocSet /\ t.pend \in Seq(EditSet) /\ t.gen \in Nat
      /\ 0 < t.hash /\ t.hash < n
      /\ \A y : y \in Pends(t) <=> \E i \in 1 .. Len(t.pend) : t.pend[i] = y
  BY PendIs
<1>2. /\ H[<<t.hash, r.ver>>] = r.doc /\ r.ver = t.ver + 1
      /\ t.hash \in DOMAIN brd => r.ver <= brd[t.hash].ver
      /\ Explains(t.doc, r.doc, Pends(t) \ r.sent)
  BY DEF AnswerOK
<1>3. t2 = [t EXCEPT !.ver = r.ver, !.pend = q]
  <2>1. t.ver < r.ver
    BY <1>1, <1>2
  <2> HIDE DEF q
  <2>2. t2 = [t EXCEPT !.ver = IF t.ver < r.ver THEN r.ver ELSE t.ver, !.pend = q]
    BY DEF Confirmed, q
  <2> QED BY <2>1, <2>2
<1>4. /\ q \in Seq(EditSet)
      /\ \A m \in 1 .. Len(q) : \E i \in 1 .. Len(t.pend) : q[m] = t.pend[i] /\ t.pend[i] \notin r.sent
      /\ \A i \in 1 .. Len(t.pend) : t.pend[i] \notin r.sent => \E m \in 1 .. Len(q) : q[m] = t.pend[i]
      /\ \A l, m \in 1 .. Len(q) : l < m =>
           \E i, j \in 1 .. Len(t.pend) : i < j /\ q[l] = t.pend[i] /\ q[m] = t.pend[j]
  <2>1. DropsTo(EditSet, t.pend, r.sent, q)
    BY <1>1, DropTo
  <2> HIDE DEF q
  <2> QED BY <2>1 DEF DropsTo
<1> HIDE DEF q, t2
<1>5. t2 = [hash |-> t.hash, ver |-> r.ver, doc |-> t.doc, pend |-> q, gen |-> t.gen]
  BY <1>1, <1>3
<1>6. t2.hash = t.hash /\ t2.ver = r.ver /\ t2.doc = t.doc /\ t2.pend = q /\ t2.gen = t.gen
  BY <1>5
<1>7. Pends(t2) = Pends(t) \ r.sent
  <2>1. \A y : y \in Pends(t2) <=> \E m \in 1 .. Len(q) : q[m] = y
    <3>1. q \in Seq(EditSet)
      BY <1>4
    <3> QED BY <1>6, <3>1 DEF Pends, ToSet
  <2>2. ASSUME NEW y \in Pends(t2) PROVE y \in Pends(t) /\ y \notin r.sent
    <3>1. PICK m \in 1 .. Len(q) : q[m] = y
      BY <2>1
    <3>2. PICK i \in 1 .. Len(t.pend) : q[m] = t.pend[i] /\ t.pend[i] \notin r.sent
      BY <1>4
    <3> QED BY <1>1, <3>1, <3>2
  <2>3. ASSUME NEW y \in Pends(t), y \notin r.sent PROVE y \in Pends(t2)
    <3>1. PICK i \in 1 .. Len(t.pend) : t.pend[i] = y
      BY <1>1
    <3>2. PICK m \in 1 .. Len(q) : q[m] = t.pend[i]
      BY <1>4, <2>3, <3>1
    <3> QED BY <2>1, <3>1, <3>2
  <2> QED BY <2>2, <2>3
<1>8. Renewed(t, t2)
  BY <1>1, <1>2, <1>6, <1>7 DEF Renewed
<1>9. TabFits(B, n, t2)
  <2>1. t2 \in TabSet
    BY <1>1, <1>2, <1>4, <1>5 DEF TabSet
  <2>2. \A i \in 1 .. Len(q) : EditFits(q[i], B, n)
    BY <1>4 DEF TabFits
  <2>3. NoReopen(q)
    <3> SUFFICES ASSUME NEW l \in 1 .. Len(q), NEW m \in 1 .. Len(q), l < m, q[l].do = "close", q[m].do = "open"
                 PROVE  q[l].id # q[m].n
      BY DEF NoReopen
    <3>1. PICK i \in 1 .. Len(t.pend), j \in 1 .. Len(t.pend) : i < j /\ q[l] = t.pend[i] /\ q[m] = t.pend[j]
      BY <1>4
    <3>2. NoReopen(t.pend)
      BY DEF TabFits
    <3> QED BY <3>1, <3>2 DEF NoReopen
  <2>4. Fit(t.doc, B, n)
    BY DEF TabFits
  <2> QED BY <1>1, <1>6, <2>1, <2>2, <2>3, <2>4 DEF TabFits
<1>10. TabOK(H, brd, t2)
  <2>1. Explains(t2.doc, H[<<t2.hash, t2.ver>>], Pends(t2))
    BY <1>2, <1>6, <1>7
  <2>2. ASSUME t2.hash \in DOMAIN brd PROVE t2.ver <= brd[t2.hash].ver /\ Elsewhere(Pends(t2), t2.hash, brd)
    <3>1. Elsewhere(Pends(t), t.hash, brd)
      BY <1>6, <2>2 DEF TabOK
    <3>2. OpenIds(Pends(t2)) \subseteq OpenIds(Pends(t))
      BY <1>7 DEF OpenIds
    <3> QED BY <1>2, <1>6, <2>2, <3>1, <3>2 DEF Elsewhere
  <2> QED BY <2>1, <2>2 DEF TabOK
<1> QED BY <1>8, <1>9, <1>10 DEF RebasesTo, t2

\* applyServerTile as an edit.
ServerEdit(x) == [do |-> "server", id |-> x.id, arg |-> x.tile, n |-> 0]

Serves(B, n, d, x, e) ==
  /\ EditFits(ServerEdit(x), B, n) /\ Fit(e, B, n)
  /\ Ids(d) \subseteq Ids(e) /\ Ids(e) \subseteq Ids(d) \union {x.id} /\ x.id \in Ids(e)

LEMMA ServerEditIs ==
  ASSUME NEW B, NEW H, NEW n \in Nat, NEW brd, NEW x, TellOK(B, H, n, brd, x), NEW d, Fit(d, B, n)
  PROVE  Serves(B, n, d, x, Applied(d, ServerEdit(x)))
<1> DEFINE e == ServerEdit(x)
           y == Applied(d, e)
<1>1. /\ x.id \in Nat \ {0} /\ x.id < n
      /\ x.tile \in TileSet /\ x.tile.type \in {"terminal", "viewer"} /\ B[x.id] = What(x.tile)
  BY DEF TellOK
<1>2. e.do = "server" /\ e.id = x.id /\ e.arg = x.tile /\ e.n = 0
  BY DEF ServerEdit
<1>3. e \in EditSet
  BY <1>1 DEF ServerEdit, EditSet
<1> HIDE DEF e
<1>4. EditFits(e, B, n)
  <2>1. 0 < e.id /\ e.n < n
    BY <1>1, <1>2
  <2> QED BY <1>1, <1>2, <1>3, <2>1 DEF EditFits
<1>5. Applies(d, e)
  BY <1>2 DEF Applies
<1>6. Effect(B, n, d, e, y)
  BY <1>4, <1>5, AppliedIs
<1>7. x.id \in Ids(y)
  <2>1. y = IF x.id \in Ids(d) THEN d ELSE OpenTile(d, x.tile.parent, x.id, x.tile)
    BY <1>2 DEF Applied
  <2>2. OpensTo(d, x.id, x.tile, OpenTile(d, x.tile.parent, x.id, x.tile))
    <3>1. d \in DocSet
      BY DEF Fit
    <3> QED BY <1>1, <3>1, OpenTileTyped
  <2> HIDE DEF y
  <2> QED BY <2>1, <2>2 DEF OpensTo
<1> HIDE DEF y
<1> QED BY <1>2, <1>4, <1>6, <1>7 DEF Serves, Effect, y, e

LEMMA TabChange ==
  ASSUME NEW t, t = [hash |-> t.hash, ver |-> t.ver, doc |-> t.doc, pend |-> t.pend, gen |-> t.gen], NEW d, NEW v, NEW q
  PROVE  /\ [t EXCEPT !.doc = d, !.ver = v] = [hash |-> t.hash, ver |-> v, doc |-> d, pend |-> t.pend, gen |-> t.gen]
         /\ [t EXCEPT !.doc = d, !.pend = q] = [hash |-> t.hash, ver |-> t.ver, doc |-> d, pend |-> q, gen |-> t.gen]
<1> DEFINE x == [t EXCEPT !.doc = d, !.ver = v]
           y == [t EXCEPT !.doc = d, !.pend = q]
<1>1. x = [t EXCEPT !.doc = d, !.ver = v] /\ y = [t EXCEPT !.doc = d, !.pend = q]
  OBVIOUS
<1> HIDE DEF x, y
<1>2. x = [hash |-> t.hash, ver |-> v, doc |-> d, pend |-> t.pend, gen |-> t.gen]
  BY <1>1
<1>3. y = [hash |-> t.hash, ver |-> t.ver, doc |-> d, pend |-> q, gen |-> t.gen]
  BY <1>1
<1> QED BY <1>1, <1>2, <1>3

\* The next version of the board, by its one new tile.
LEMMA TileNext ==
  ASSUME NEW B, NEW H, NEW n \in Nat, NEW brd, \A g, v \in Nat : Fit(H[<<g, v>>], B, n),
         NEW t, TabFits(B, n, t), TabOK(H, brd, t),
         NEW x, TellOK(B, H, n, brd, x), x.hash = t.hash \/ t.hash \notin DOMAIN brd,
         x.ver = t.ver + 1, t.pend = <<>>
  PROVE  RebasesTo(B, H, n, brd, t, [t EXCEPT !.doc = Applied(t.doc, ServerEdit(x)), !.ver = x.ver])
<1> DEFINE d == Applied(t.doc, ServerEdit(x))
           t2 == [t EXCEPT !.doc = d, !.ver = x.ver]
           old == H[<<t.hash, t.ver>>]
           new == H[<<t.hash, x.ver>>]
<1>1. /\ t = [hash |-> t.hash, ver |-> t.ver, doc |-> t.doc, pend |-> t.pend, gen |-> t.gen]
      /\ t.hash \in Nat /\ t.ver \in Nat /\ t.doc \in DocSet /\ t.pend \in Seq(EditSet) /\ t.gen \in Nat
      /\ 0 < t.hash /\ t.hash < n
      /\ \A y : y \in Pends(t) <=> \E i \in 1 .. Len(t.pend) : t.pend[i] = y
  BY PendIs
<1>2. Fit(t.doc, B, n) /\ NoReopen(t.pend) /\ \A i \in 1 .. Len(t.pend) : EditFits(t.pend[i], B, n)
  BY DEF TabFits
<1>3. Serves(B, n, t.doc, x, d)
  BY <1>2, ServerEditIs
<1> HIDE DEF d
<1>4. t2 = [hash |-> t.hash, ver |-> x.ver, doc |-> d, pend |-> t.pend, gen |-> t.gen]
  <2>1. t = [hash |-> t.hash, ver |-> t.ver, doc |-> t.doc, pend |-> t.pend, gen |-> t.gen]
    BY <1>1
  <2> QED BY <2>1, TabChange
<1> HIDE DEF t2
<1>5. t2.hash = t.hash /\ t2.ver = x.ver /\ t2.doc = d /\ t2.pend = t.pend /\ t2.gen = t.gen /\ x.ver \in Nat
  BY <1>1, <1>4
<1>6. Pends(t2) = Pends(t) /\ Pends(t) = {}
  <2>1. Pends(t2) = Pends(t)
    BY <1>5 DEF Pends
  <2>2. Len(t.pend) = 0
    OBVIOUS
  <2> QED BY <1>1, <2>1, <2>2
<1>7. Renewed(t, t2)
  BY <1>1, <1>5, <1>6 DEF Renewed
<1>8. TabFits(B, n, t2)
  <2>1. d \in DocSet /\ Fit(d, B, n)
    BY <1>3 DEF Serves, Fit
  <2>2. t2 \in TabSet
    BY <1>1, <1>4, <1>5, <2>1 DEF TabSet
  <2> QED BY <1>1, <1>2, <1>5, <2>1, <2>2 DEF TabFits
<1>9. ASSUME t.hash \in DOMAIN brd PROVE Explains(d, new, {})
  <2>1. /\ x.id \in Ids(new) /\ Ids(old) \subseteq Ids(new) /\ OfType(new, "terminal") \subseteq Ids(old) \union {x.id}
    <3>1. x.ver - 1 = t.ver
      BY <1>1
    <3> QED BY <1>9, <3>1 DEF TellOK
  <2>2. Explains(t.doc, old, {})
    BY <1>6, <1>9 DEF TabOK
  <2>3. /\ Ids(t.doc) \subseteq Ids(old) /\ OfType(old, "terminal") \subseteq Ids(t.doc)
    BY <2>2 DEF Explains, OpenIds, ServerIds, CloseIds
  <2>4. Ids(d) \subseteq Ids(new)
    BY <1>3, <2>1, <2>3 DEF Serves
  <2>5. OfType(new, "terminal") \subseteq Ids(d)
    <3> SUFFICES ASSUME NEW k \in OfType(new, "terminal"), k # x.id PROVE k \in Ids(d)
      BY <1>3 DEF Serves
    <3>1. k \in Ids(old) /\ k \in Ids(new) /\ new.tiles[k].type = "terminal"
      BY <2>1 DEF OfType
    <3>2. Fit(old, B, n) /\ Fit(new, B, n)
      BY <1>1, <1>5
    <3>3. What(old.tiles[k]) = What(new.tiles[k])
      BY <3>1, <3>2 DEF Fit
    <3>4. old.tiles[k].type = "terminal"
      BY <3>1, <3>3, WhatType
    <3> QED BY <1>3, <2>3, <3>1, <3>4 DEF OfType, Serves
  <2> QED BY <2>4, <2>5 DEF Explains, OpenIds
<1>10. TabOK(H, brd, t2)
  <2>1. t2.hash \in DOMAIN brd => Explains(t2.doc, H[<<t2.hash, t2.ver>>], Pends(t2))
    BY <1>5, <1>6, <1>9
  <2>2. ASSUME t2.hash \in DOMAIN brd PROVE t2.ver <= brd[t2.hash].ver
    BY <1>5, <2>2 DEF TellOK
  <2>3. \A b : OpenIds({}) \intersect b = {}
    BY DEF OpenIds
  <2> QED BY <1>6, <2>1, <2>2, <2>3 DEF TabOK, Elsewhere
<1> QED BY <1>7, <1>8, <1>10 DEF RebasesTo, t2, d

\* The tab with a tile of the server it keeps as an edit.
Grows(B, n, t, t2, x) ==
  /\ TabFits(B, n, t2) /\ t2.hash = t.hash /\ t2.gen = t.gen /\ t2.ver = t.ver
  /\ Pends(t2) = Pends(t) \union {ServerEdit(x)}
  /\ Ids(t.doc) \subseteq Ids(t2.doc) /\ Ids(t2.doc) \subseteq Ids(t.doc) \union {x.id}

LEMMA TileGrown ==
  ASSUME NEW B, NEW H, NEW n \in Nat, NEW brd, NEW t, TabFits(B, n, t), NEW x, TellOK(B, H, n, brd, x)
  PROVE  Grows(B, n, t, [t EXCEPT !.doc = Applied(t.doc, ServerEdit(x)), !.pend = Append(@, ServerEdit(x))], x)
<1> DEFINE e == ServerEdit(x)
           d == Applied(t.doc, e)
           q == t.pend
           p == Append(q, e)
           t2 == [t EXCEPT !.doc = d, !.pend = p]
<1>1. /\ t = [hash |-> t.hash, ver |-> t.ver, doc |-> t.doc, pend |-> t.pend, gen |-> t.gen]
      /\ t.hash \in Nat /\ t.ver \in Nat /\ t.doc \in DocSet /\ q \in Seq(EditSet) /\ t.gen \in Nat
      /\ 0 < t.hash /\ t.hash < n
      /\ \A y : y \in Pends(t) <=> \E i \in 1 .. Len(q) : q[i] = y
  BY PendIs
<1>2. Fit(t.doc, B, n) /\ NoReopen(q) /\ \A i \in 1 .. Len(q) : EditFits(q[i], B, n)
  BY DEF TabFits
<1>3. Serves(B, n, t.doc, x, d)
  BY <1>2, ServerEditIs
<1>4. e.do = "server"
  BY DEF ServerEdit
<1>5. EditFits(e, B, n) /\ e \in EditSet
  BY <1>3 DEF Serves, EditFits
<1> HIDE DEF e, d
<1>6. /\ q \in Seq(EditSet) /\ p \in Seq(EditSet) /\ Len(p) = Len(q) + 1 /\ Len(q) \in Nat /\ p[Len(q) + 1] = e
      /\ \A m \in 1 .. Len(q) : p[m] = q[m]
  <2> HIDE DEF q
  <2> QED BY <1>1, <1>5
<1> HIDE DEF p
<1>7. t2 = [hash |-> t.hash, ver |-> t.ver, doc |-> d, pend |-> p, gen |-> t.gen]
  <2>1. t = [hash |-> t.hash, ver |-> t.ver, doc |-> t.doc, pend |-> t.pend, gen |-> t.gen]
    BY <1>1
  <2> QED BY <2>1, TabChange
<1> HIDE DEF t2
<1>8. t2.hash = t.hash /\ t2.ver = t.ver /\ t2.doc = d /\ t2.pend = p /\ t2.gen = t.gen
  BY <1>7
<1> HIDE DEF q
<1>9. \A m \in 1 .. Len(p) : m = Len(q) + 1 \/ m \in 1 .. Len(q)
  BY <1>6
<1>10. Len(q) + 1 \in 1 .. Len(p) /\ \A m \in 1 .. Len(q) : m \in 1 .. Len(p)
  BY <1>6
<1>11. Pends(t2) = Pends(t) \union {e}
  <2>1. \A y : y \in Pends(t2) <=> \E m \in 1 .. Len(p) : p[m] = y
    <3>1. p \in Seq(EditSet)
      BY <1>6
    <3> QED BY <1>8, <3>1 DEF Pends, ToSet
  <2> QED BY <1>1, <1>6, <1>9, <1>10, <2>1
<1>12. NoReopen(p)
  <2> SUFFICES ASSUME NEW l \in 1 .. Len(p), NEW m \in 1 .. Len(p), l < m, p[l].do = "close", p[m].do = "open"
               PROVE  p[l].id # p[m].n
    BY DEF NoReopen
  <2>1. m \in 1 .. Len(q)
    BY <1>4, <1>6, <1>9
  <2>2. l \in 1 .. Len(q)
    BY <1>6, <2>1
  <2> QED BY <1>2, <1>6, <2>1, <2>2 DEF NoReopen
<1>13. \A m \in 1 .. Len(p) : EditFits(p[m], B, n)
  BY <1>2, <1>5, <1>6, <1>9
<1>14. TabFits(B, n, t2)
  <2>1. d \in DocSet /\ Fit(d, B, n)
    BY <1>3 DEF Serves, Fit
  <2>2. t2 \in TabSet
    BY <1>1, <1>6, <1>7, <2>1 DEF TabSet
  <2> QED BY <1>1, <1>8, <1>12, <1>13, <2>1, <2>2 DEF TabFits
<1>15. Grows(B, n, t, t2, x)
  BY <1>3, <1>8, <1>11, <1>14 DEF Grows, Serves, e
<1> QED BY <1>15 DEF t2, p, q, d, e

LEMMA ExplainsMore ==
  ASSUME NEW B, NEW n, NEW t, NEW t2, NEW x, Grows(B, n, t, t2, x), NEW base, NEW S, Explains(t.doc, base, Pends(t) \ S),
         x.id \notin ServerIds(S)
  PROVE  Explains(t2.doc, base, Pends(t2) \ S)
<1> DEFINE e == ServerEdit(x)
           E == Pends(t) \ S
           F == Pends(t2) \ S
<1>1. e.do = "server" /\ e.id = x.id
  BY DEF ServerEdit
<1> HIDE DEF e
<1>2. e \notin S
  BY <1>1 DEF ServerIds
<1>3. F = E \union {e}
  BY <1>2 DEF Grows, e
<1> HIDE DEF E, F
<1>4. OpenIds(F) = OpenIds(E) /\ ServerIds(F) = ServerIds(E) \union {x.id} /\ CloseIds(F) = CloseIds(E)
  BY <1>1, <1>3 DEF OpenIds, ServerIds, CloseIds
<1>5. Explains(t.doc, base, E)
  BY DEF E
<1>6. Explains(t2.doc, base, F)
  BY <1>4, <1>5 DEF Explains, Grows
<1> QED BY <1>6 DEF F

LEMMA ThreadGrown ==
  ASSUME NEW B, NEW H, NEW n, NEW brd, NEW t, NEW t2, NEW x, Grows(B, n, t, t2, x), NEW r, ThreadOK(B, H, n, brd, t, r),
         PutLike(r) => x.id \notin ServerIds(SentOf(r))
  PROVE  ThreadOK(B, H, n, brd, t2, r)
<1>1. t2.hash = t.hash /\ t2.gen = t.gen /\ t2.ver = t.ver /\ OpenIds(Pends(t2)) = OpenIds(Pends(t))
  BY DEF Grows, OpenIds, ServerEdit
<1>2. ASSUME r.step = "put" PROVE PutOK(B, H, n, brd, t2, r)
  <2>1. PutOK(B, H, n, brd, t, r)
    BY <1>2 DEF ThreadOK
  <2>2. PutLike(r) /\ SentOf(r) = r.sent
    BY <1>2, <2>1 DEF PutLike, SentOf, PutOK
  <2>3. ASSUME r.gen = t.gen, r.ver = t.ver PROVE Explains(t2.doc, r.doc, Pends(t2) \ r.sent)
    <3>1. Explains(t.doc, r.doc, Pends(t) \ r.sent)
      BY <2>1, <2>3 DEF PutOK
    <3>2. x.id \notin ServerIds(r.sent)
      BY <2>2
    <3> QED BY <3>1, <3>2, ExplainsMore
  <2> QED BY <1>1, <2>1, <2>3 DEF PutOK
<1>3. ASSUME NEW a, AnswerOK(B, H, n, brd, t, a), x.id \notin ServerIds(a.sent) PROVE AnswerOK(B, H, n, brd, t2, a)
  <2>1. ASSUME a.gen = t.gen, a.ok PROVE Explains(t2.doc, a.doc, Pends(t2) \ a.sent)
    <3>1. Explains(t.doc, a.doc, Pends(t) \ a.sent)
      BY <1>3, <2>1 DEF AnswerOK
    <3> QED BY <1>3, <3>1, ExplainsMore
  <2>2. a.ok => a.ok = TRUE
    BY <1>3 DEF AnswerOK
  <2> QED BY <1>1, <1>3, <2>1, <2>2 DEF AnswerOK
<1>4. ASSUME r.step = "publish", r.op = "put" PROVE AnswerOK(B, H, n, brd, t2, r.reply)
  BY <1>3, <1>4 DEF ThreadOK, PutLike, SentOf
<1>5. ASSUME r.step = "reply", r.op = "put" PROVE AnswerOK(B, H, n, brd, t2, r)
  BY <1>3, <1>5 DEF ThreadOK, PutLike, SentOf
<1> QED BY <1>1, <1>2, <1>4, <1>5 DEF ThreadOK

LEMMA GrowWorld ==
  ASSUME NEW B, NEW H, NEW n, NEW brd, NEW t, NEW rq, World(B, H, n, brd, t, rq), NEW h \in Threads, DOMAIN rq = Threads,
         rq[h].step = "reply", Telling(rq[h]), NEW t2, Grows(B, n, t, t2, rq[h].reply),
         NEW r2, r2.step = "idle", NEW rq2, rq2 = [rq EXCEPT ![h] = r2]
  PROVE  World(B, H, n, brd, t2, rq2)
<1> DEFINE x == rq[h].reply
<1>1. rq2[h] = r2 /\ \A k \in Threads \ {h} : rq2[k] = rq[k]
  OBVIOUS
<1>2. ThreadsOK(B, H, n, brd, t, rq) /\ Distinct(rq, t) /\ TabOK(H, brd, t)
  BY DEF World
<1>3. \A k \in Threads : PutLike(rq[k]) => x.id \notin ServerIds(SentOf(rq[k]))
  BY <1>2 DEF Distinct
<1>4. x.id \notin ServerIds(Pends(t)) /\ \A k \in Threads \ {h} : Telling(rq[k]) => rq[k].reply.id # x.id
  BY <1>2 DEF Distinct
<1> HIDE DEF x
<1>5. Grows(B, n, t, t2, x)
  BY DEF x
<1>6. ~PutLike(r2) /\ ~Telling(r2) /\ ThreadOK(B, H, n, brd, t2, r2)
  BY DEF PutLike, Telling, ThreadOK
<1>7. ThreadsOK(B, H, n, brd, t2, rq2)
  <2>1. ASSUME NEW k \in Threads \ {h} PROVE ThreadOK(B, H, n, brd, t2, rq[k])
    BY <1>2, <1>3, <1>5, ThreadGrown DEF ThreadsOK
  <2> QED BY <1>1, <1>6, <2>1 DEF ThreadsOK
<1>8. TabOK(H, brd, t2)
  <2>1. ASSUME t.hash \in DOMAIN brd PROVE Explains(t2.doc, H[<<t.hash, t.ver>>], Pends(t2) \ {})
    <3>1. Explains(t.doc, H[<<t.hash, t.ver>>], Pends(t) \ {})
      BY <1>2, <2>1 DEF TabOK
    <3>2. x.id \notin ServerIds({})
      BY DEF ServerIds
    <3> QED BY <1>5, <3>1, <3>2, ExplainsMore
  <2>2. OpenIds(Pends(t2)) = OpenIds(Pends(t)) /\ t2.hash = t.hash /\ t2.ver = t.ver
    BY <1>5 DEF Grows, OpenIds, ServerEdit
  <2> QED BY <1>2, <2>1, <2>2 DEF TabOK, Elsewhere
<1>9. Distinct(rq2, t2)
  <2>1. \A k \in Threads : PutLike(rq2[k]) \/ Telling(rq2[k]) \/ rq2[k].step = "put" => k # h /\ rq2[k] = rq[k]
    BY <1>1, <1>6 DEF PutLike
  <2>2. ServerIds(Pends(t2)) = ServerIds(Pends(t)) \union {x.id}
    <3> DEFINE e == ServerEdit(x)
    <3>1. e.do = "server" /\ e.id = x.id
      BY DEF ServerEdit
    <3>2. Pends(t2) = Pends(t) \union {e}
      BY <1>5 DEF Grows
    <3> HIDE DEF e
    <3>3. \A y : y \in ServerIds(Pends(t2)) <=> y \in ServerIds(Pends(t)) \/ y = x.id
      BY <3>1, <3>2 DEF ServerIds
    <3> QED BY <3>3
  <2>3. \A j, k \in Threads : PutLike(rq2[j]) /\ PutLike(rq2[k]) /\ rq2[j].gen = rq2[k].gen => j = k
    BY <1>2, <2>1 DEF Distinct
  <2>4. \A j, k \in Threads : rq2[j].step = "put" /\ rq2[k].step = "put" /\ j # k =>
          OpenIds(rq2[j].sent) \intersect OpenIds(rq2[k].sent) = {}
    BY <1>2, <2>1 DEF Distinct
  <2>5. ASSUME NEW j \in Threads, Telling(rq2[j])
        PROVE /\ rq2[j].reply.id \notin ServerIds(Pends(t2))
              /\ \A k \in Threads : PutLike(rq2[k]) => rq2[j].reply.id \notin ServerIds(SentOf(rq2[k]))
              /\ \A k \in Threads \ {j} : Telling(rq2[k]) => rq2[k].reply.id # rq2[j].reply.id
    <3>1. j # h /\ rq2[j] = rq[j] /\ Telling(rq[j])
      BY <2>1, <2>5
    <3>2. /\ rq[j].reply.id \notin ServerIds(Pends(t))
          /\ \A k \in Threads : PutLike(rq[k]) => rq[j].reply.id \notin ServerIds(SentOf(rq[k]))
          /\ \A k \in Threads \ {j} : Telling(rq[k]) => rq[k].reply.id # rq[j].reply.id
      BY <1>2, <3>1 DEF Distinct
    <3>3. rq[j].reply.id # x.id
      BY <1>4, <3>1
    <3> QED BY <2>1, <2>2, <3>1, <3>2, <3>3
  <2> QED BY <2>3, <2>4, <2>5 DEF Distinct
<1>10. TabFits(B, n, t2)
  BY <1>5 DEF Grows
<1> QED BY <1>7, <1>8, <1>9, <1>10 DEF World

LEMMA IdleIs ==
  ASSUME NEW B, NEW H, NEW n, NEW brd, NEW t, NEW r
  PROVE  /\ GoesOn(r, Idle) /\ ThreadOK(B, H, n, brd, t, Idle) /\ Idle.step = "idle" /\ \A p : ~PurgesOf(Idle, p)
         /\ ~PutLike(Idle) /\ ~Telling(Idle)
<1>1. Idle.step = "idle"
  BY DEF Idle
<1> QED BY <1>1 DEF GoesOn, ThreadOK, PurgesOf, PutLike, Telling

\* What an answer does to the tab.
ReplyTo(t, r, inFlight, t2) ==
  \/ t2 = t
  \/ /\ r.op = "put" /\ r.gen = t.gen /\ r.ok /\ t2 = Confirmed(t, r)
  \/ /\ r.op = "put" /\ r.gen = t.gen /\ ~r.ok /\ r.ver > t.ver /\ t2 = Rebased(t, r.ver, r.doc)
  \/ /\ r.op # "put" /\ (r.op = "video" => r.reply.hash = t.hash)
     /\ \/ /\ r.reply.ver = t.ver + 1 /\ t.pend = <<>> /\ ~inFlight
           /\ t2 = [t EXCEPT !.doc = Applied(t.doc, ServerEdit(r.reply)), !.ver = r.reply.ver]
        \/ t2 = [t EXCEPT !.doc = Applied(t.doc, ServerEdit(r.reply)), !.pend = Append(@, ServerEdit(r.reply))]

LEMMA WithTileIs ==
  ASSUME NEW t, NEW x
  PROVE  \/ WithTile(t, x) = t
         \/ /\ x.ver = t.ver + 1 /\ t.pend = <<>> /\ ~InFlight
            /\ WithTile(t, x) = [t EXCEPT !.doc = Applied(t.doc, ServerEdit(x)), !.ver = x.ver]
         \/ WithTile(t, x) = [t EXCEPT !.doc = Applied(t.doc, ServerEdit(x)), !.pend = Append(@, ServerEdit(x))]
<1>1. CASE x.ver <= t.ver
  BY <1>1 DEF WithTile
<1>2. CASE ~(x.ver <= t.ver) /\ (x.ver = t.ver + 1 /\ t.pend = <<>> /\ ~InFlight)
  BY <1>2 DEF WithTile, ServerEdit
<1>3. CASE ~(x.ver <= t.ver) /\ ~(x.ver = t.ver + 1 /\ t.pend = <<>> /\ ~InFlight)
  BY <1>3 DEF WithTile, ServerEdit
<1> QED BY <1>1, <1>2, <1>3

LEMMA ReplyIs ==
  ASSUME NEW h, Reply(h)
  PROVE  /\ req[h].step = "reply" /\ ReplyTo(tab, req[h], InFlight, tab')
         /\ req' = [req EXCEPT ![h] = Idle] /\ UNCHANGED <<board, proc, shown, next>>
<1> DEFINE r == req[h]
<1>1. /\ r.step = "reply" /\ req' = [req EXCEPT ![h] = Idle] /\ UNCHANGED <<board, proc, shown, next>>
      /\ tab' = IF ~Takes(tab, r) THEN tab ELSE IF r.op = "put" THEN Confirmed(tab, r) ELSE WithTile(tab, r.reply)
  BY DEF Reply, End, Step
<1>2. CASE ~Takes(tab, r)
  BY <1>1, <1>2 DEF ReplyTo
<1>3. CASE Takes(tab, r) /\ r.op = "put"
  <2>0. r.gen = tab.gen
    BY <1>3 DEF Takes
  <2>1. tab' = Confirmed(tab, r)
    BY <1>1, <1>3
  <2>2. CASE r.ok
    BY <1>1, <1>3, <2>0, <2>1, <2>2 DEF ReplyTo
  <2>3. CASE ~r.ok
    <3>1. tab' = IF r.ver > tab.ver THEN Rebased(tab, r.ver, r.doc) ELSE tab
      BY <2>1, <2>3 DEF Confirmed
    <3> QED BY <1>1, <1>3, <2>0, <2>3, <3>1 DEF ReplyTo
  <2> QED BY <2>2, <2>3
<1>4. CASE Takes(tab, r) /\ r.op # "put"
  <2>1. tab' = WithTile(tab, r.reply) /\ (r.op = "video" => r.reply.hash = tab.hash)
    BY <1>1, <1>4 DEF Takes
  <2> QED BY <1>1, <1>4, <2>1, WithTileIs DEF ReplyTo
<1> QED BY <1>2, <1>3, <1>4

LEMMA ReplyWorld ==
  ASSUME NEW B, NEW H, NEW n, NEW brd, NEW t, NEW rq, World(B, H, n, brd, t, rq), NEW h \in Threads, DOMAIN rq = Threads,
         rq[h].step = "reply", NEW f, f <=> \E k \in Threads : rq[k].step \in {"put", "publish", "reply"} /\ rq[k].op = "put" /\ rq[k].gen = t.gen,
         rq[h].op = "exec" => rq[h].reply.hash = t.hash \/ t.hash \notin DOMAIN brd,
         NEW t2, ReplyTo(t, rq[h], f, t2), NEW rq2, rq2 = [rq EXCEPT ![h] = Idle]
  PROVE  World(B, H, n, brd, t2, rq2)
<1> DEFINE r == rq[h]
<1>1. /\ ThreadOK(B, H, n, brd, t, r) /\ TabFits(B, n, t) /\ TabOK(H, brd, t) /\ n \in Nat /\ Distinct(rq, t)
      /\ \A g, v \in Nat : Fit(H[<<g, v>>], B, n)
  BY DEF World, ThreadsOK, HistFits
<1>2. /\ GoesOn(r, Idle) /\ ThreadOK(B, H, n, brd, t, Idle) /\ ThreadOK(B, H, n, brd, t2, Idle) /\ Idle.step = "idle"
  BY IdleIs
<1>3. CASE t2 = t
  BY <1>2, <1>3, StayWorld
<1>4. r.op \in {"put", "exec", "video"}
  BY <1>1 DEF ThreadOK
<1>5. ASSUME r.op = "put" PROVE AnswerOK(B, H, n, brd, t, r)
  BY <1>1, <1>5 DEF ThreadOK
<1>6. ASSUME r.op = "put", r.gen = t.gen PROVE \A k \in Threads \ {h} : PutLike(rq[k]) /\ rq[k].gen = t.gen => rq[k].step = "put"
  <2>1. PutLike(r)
    BY <1>6 DEF PutLike
  <2> QED BY <1>1, <1>6, <2>1 DEF Distinct
<1>7. CASE r.op = "put" /\ r.gen = t.gen /\ r.ok /\ t2 = Confirmed(t, r)
  <2>1. RebasesTo(B, H, n, brd, t, t2)
    BY <1>1, <1>5, <1>7, ConfirmedTo
  <2>2. \A k \in Threads \ {h} : PutLike(rq[k]) /\ rq[k].gen = t.gen => rq[k].step = "put"
    BY <1>6, <1>7
  <2> QED BY <1>2, <2>1, <2>2, RebaseWorld
<1>8. CASE r.op = "put" /\ r.gen = t.gen /\ ~r.ok /\ r.ver > t.ver /\ t2 = Rebased(t, r.ver, r.doc)
  <2>1. /\ r.ver \in Nat /\ H[<<t.hash, r.ver>>] = r.doc
        /\ t.hash \in DOMAIN brd => r.ver <= brd[t.hash].ver
    BY <1>5, <1>8 DEF AnswerOK
  <2>2. t.ver \in Nat /\ t.hash \in Nat
    BY <1>1 DEF TabFits, TabSet
  <2>3. Fit(r.doc, B, n) /\ t.ver < r.ver
    BY <1>1, <1>8, <2>1, <2>2
  <2> DEFINE ver == r.ver
             doc == r.doc
  <2>4. /\ ver \in Nat /\ doc = H[<<t.hash, ver>>] /\ Fit(doc, B, n) /\ t.ver < ver /\ t2 = Rebased(t, ver, doc)
        /\ t.hash \in DOMAIN brd => ver <= brd[t.hash].ver
    BY <1>8, <2>1, <2>3
  <2> HIDE DEF ver, doc
  <2>5. RebasesTo(B, H, n, brd, t, t2)
    BY <1>1, <2>4, RebasesIs
  <2>6. \A k \in Threads \ {h} : PutLike(rq[k]) /\ rq[k].gen = t.gen => rq[k].step = "put"
    BY <1>6, <1>8
  <2> QED BY <1>2, <2>5, <2>6, RebaseWorld
<1> DEFINE x == r.reply
<1>9. ASSUME r.op # "put" PROVE TellOK(B, H, n, brd, x) /\ Telling(r)
  <2>1. Telling(r)
    BY <1>4, <1>9 DEF Telling
  <2> QED BY <1>1, <2>1 DEF ThreadOK
<1>10. CASE /\ r.op # "put" /\ (r.op = "video" => x.hash = t.hash) /\ x.ver = t.ver + 1 /\ t.pend = <<>> /\ ~f
            /\ t2 = [t EXCEPT !.doc = Applied(t.doc, ServerEdit(x)), !.ver = x.ver]
  <2>1. TellOK(B, H, n, brd, x) /\ (x.hash = t.hash \/ t.hash \notin DOMAIN brd)
    BY <1>4, <1>9, <1>10
  <2> HIDE DEF x
  <2>2. RebasesTo(B, H, n, brd, t, t2)
    BY <1>1, <1>10, <2>1, TileNext
  <2>3. \A k \in Threads \ {h} : PutLike(rq[k]) /\ rq[k].gen = t.gen => rq[k].step = "put"
    BY <1>10 DEF PutLike
  <2> QED BY <1>2, <2>2, <2>3, RebaseWorld
<1>11. CASE r.op # "put" /\ t2 = [t EXCEPT !.doc = Applied(t.doc, ServerEdit(x)), !.pend = Append(@, ServerEdit(x))]
  <2>1. TellOK(B, H, n, brd, x) /\ Telling(r)
    BY <1>9, <1>11
  <2> HIDE DEF x
  <2>2. Grows(B, n, t, t2, x)
    BY <1>1, <1>11, <2>1, TileGrown
  <2>3. Grows(B, n, t, t2, rq[h].reply)
    BY <2>2 DEF x
  <2> QED BY <1>2, <2>1, <2>3, GrowWorld
<1> QED BY <1>3, <1>7, <1>8, <1>10, <1>11 DEF ReplyTo

\* The answer to a request of the tab arrives.
LEMMA ReplyStep ==
  ASSUME IInv, Here, NEW h \in Threads, Reply(h)
  PROVE  IInv'
<1> PICK B, H : Inv(B, H, next, board, tab, req, proc, shown)
  BY DEF IInv
<1>1. /\ World(B, H, next, board, tab, req) /\ Party(proc, req, UidsOn(board), shown) /\ DOMAIN req = Threads
  BY DEF Inv
<1>2. /\ req[h].step = "reply" /\ ReplyTo(tab, req[h], InFlight, tab')
      /\ req' = [req EXCEPT ![h] = Idle] /\ UNCHANGED <<board, proc, shown, next>>
  BY ReplyIs
<1>3. World(B, H, next, board, tab', req')
  BY <1>1, <1>2, ReplyWorld DEF InFlight, Here, HereOf
<1>4. Party(proc, req', UidsOn(board), shown)
  BY <1>1, <1>2, IdleIs, QuietParty
<1>5. DOMAIN req' = Threads
  BY <1>1, <1>2
<1>6. Inv(B, H, next', board', tab', req', proc', shown')
  BY <1>2, <1>3, <1>4, <1>5 DEF Inv
<1> QED BY <1>6 DEF IInv

\* The answer to a save is lost, or the transaction of an exec fails.
LEMMA LoseStep ==
  ASSUME IInv, NEW h \in Threads, Lose(h)
  PROVE  IInv'
<1> PICK B, H : Inv(B, H, next, board, tab, req, proc, shown)
  BY DEF IInv
<1> DEFINE u == req[h].uid
           pr2 == [proc EXCEPT ![u].st = "ended"]
           U == UidsOn(board)
<1>1. /\ World(B, H, next, board, tab, req) /\ Party(proc, req, U, shown) /\ DOMAIN req = Threads
  BY DEF Inv
<1>2. /\ req' = [req EXCEPT ![h] = Idle] /\ UNCHANGED <<board, tab, shown, next>>
      /\ <<req[h].step, req[h].op>> \in {<<"reply", "put">>, <<"ask", "exec">>}
  BY DEF Lose, End, Step
<1>3. proc' = proc \/ (req[h].op = "exec" /\ proc' = pr2)
  BY DEF Lose
<1>4. req[h].step # "publish" /\ (req[h].op = "exec" => req[h].step = "ask")
  <2>1. CASE <<req[h].step, req[h].op>> = <<"reply", "put">>
    BY <2>1
  <2>2. CASE <<req[h].step, req[h].op>> = <<"ask", "exec">>
    BY <2>2
  <2> QED BY <1>2, <2>1, <2>2
<1>5. World(B, H, next, board, tab, req')
  BY <1>1, <1>2, IdleIs, QuietWorld
<1>6. ASSUME proc' = proc PROVE Party(proc', req', UidsOn(board), shown)
  BY <1>1, <1>2, <1>4, <1>6, IdleIs, QuietParty
<1>7. ASSUME req[h].op = "exec", proc' = pr2 PROVE Party(proc', req', UidsOn(board), shown)
  <2>1. u \in Procs /\ u \notin U /\ proc[u].st \in {"live", "ended"} /\ \A k \in Threads : ~PurgesOf(req[k], u)
    <3>1. AskOK(proc, U, req[h]) /\ AddsTo(req[h], u)
      BY <1>1, <1>4, <1>7 DEF Party, AddsTo
    <3>2. u \in Procs /\ u \notin U
      BY <1>4, <1>7, <3>1, OwnAssumption DEF AskOK
    <3> QED BY <1>1, <3>1, <3>2 DEF Party
  <2>2. proc \in [Procs -> ProcSet] /\ shown \subseteq U /\ \A p \in Procs : proc[p].st = "none" => proc[p].kill = "no"
    BY <1>1 DEF Party
  <2> HIDE DEF u
  <2>3. /\ \A p \in Procs \ {u} : pr2[p] = proc[p]
        /\ pr2[u] = [proc[u] EXCEPT !.st = "ended"] /\ DOMAIN pr2 = Procs
    BY <2>1, <2>2
  <2>4. pr2[u] \in ProcSet /\ pr2[u].st = "ended"
    <3>1. proc[u] \in ProcSet
      BY <2>1, <2>2
    <3> QED BY <2>3, <3>1 DEF ProcSet
  <2>5. pr2 \in [Procs -> ProcSet]
    <3>1. pr2 = [p \in Procs |-> pr2[p]] /\ \A p \in Procs : pr2[p] \in ProcSet
      BY <2>2, <2>3, <2>4
    <3> QED BY <3>1
  <2> HIDE DEF pr2, U
  <2>6. PartyMove(proc, pr2, req, h, Idle, U, U, shown)
    BY <1>4, <2>1, <2>2, <2>3, <2>4, <2>5, IdleIs DEF PartyMove
  <2> QED BY <1>1, <1>2, <1>7, <2>6, MoveParty DEF U
<1>8. Party(proc', req', UidsOn(board), shown)
  BY <1>3, <1>6, <1>7
<1>9. DOMAIN req' = Threads
  BY <1>1, <1>2
<1>10. Inv(B, H, next', board', tab', req', proc', shown')
  BY <1>2, <1>5, <1>8, <1>9 DEF Inv
<1> QED BY <1>10 DEF IInv

\* A process is deleted once its tiles are purged.
LEMMA DeleteProcessStep ==
  ASSUME IInv, NEW h \in Threads, DeleteProcess(h)
  PROVE  IInv'
<1> PICK B, H : Inv(B, H, next, board, tab, req, proc, shown)
  BY DEF IInv
<1> DEFINE u == req[h].uid
           pr2 == [proc EXCEPT ![u].st = IF u \in OnBoards THEN @ ELSE "gone"]
           U == UidsOn(board)
<1>1. /\ World(B, H, next, board, tab, req) /\ Party(proc, req, U, shown) /\ DOMAIN req = Threads
  BY DEF Inv
<1>2. /\ req' = [req EXCEPT ![h] = Idle] /\ UNCHANGED <<board, tab, shown, next>>
      /\ req[h].step = "purged" /\ proc' = pr2
  BY DEF DeleteProcess, End, Step
<1>3. World(B, H, next, board, tab, req')
  BY <1>1, <1>2, IdleIs, QuietWorld
<1>4. proc \in [Procs -> ProcSet] /\ shown \subseteq U /\ \A p \in Procs : proc[p].st = "none" => proc[p].kill = "no"
  BY <1>1 DEF Party
<1>5. u \in OnBoards <=> u \in U
  BY DEF OnBoards, UidsOn
<1>6. PurgesOf(req[h], u)
  BY <1>2 DEF PurgesOf
<1>7. CASE u \notin Procs
  <2>1. proc' = proc
    BY <1>2, <1>4, <1>7
  <2> QED BY <1>1, <1>2, <1>3, <2>1, IdleIs, QuietParty DEF Inv, IInv
<1>8. CASE u \in Procs
  <2>1. proc[u].st \in {"ended", "gone"} /\ (u \in U => proc[u].st = "ended") /\ \A k \in Threads : ~AddsTo(req[k], u)
    BY <1>1, <1>6, <1>8 DEF Party
  <2> HIDE DEF u, U
  <2>2. /\ \A p \in Procs \ {u} : pr2[p] = proc[p]
        /\ pr2[u] = [proc[u] EXCEPT !.st = IF u \in OnBoards THEN @ ELSE "gone"] /\ DOMAIN pr2 = Procs
    BY <1>4, <1>8
  <2>3. pr2[u] \in ProcSet /\ pr2[u].st = IF u \in U THEN "ended" ELSE "gone"
    <3>1. proc[u] \in ProcSet
      BY <1>4, <1>8
    <3> QED BY <1>5, <2>1, <2>2, <3>1 DEF ProcSet
  <2>4. pr2 \in [Procs -> ProcSet]
    <3>1. pr2 = [p \in Procs |-> pr2[p]] /\ \A p \in Procs : pr2[p] \in ProcSet
      BY <1>4, <2>2, <2>3
    <3> QED BY <3>1
  <2> HIDE DEF pr2
  <2>5. ASSUME NEW p \in Procs
        PROVE  /\ pr2[p].st = "none" => pr2[p].kill = "no"
               /\ proc[p].st # "none" => pr2[p].st # "none"
               /\ proc[p].st \in {"ended", "gone"} => pr2[p].st \in {"ended", "gone"}
               /\ proc[p].st \in {"live", "ended"} /\ (p \in U \/ \E k \in Threads \ {h} : AddsTo(req[k], p))
                    => pr2[p].st \in {"live", "ended"}
               /\ pr2[p].st = "live" => pr2[p] = proc[p]
    <3>1. CASE p = u
      BY <1>4, <2>1, <2>3, <3>1
    <3>2. CASE p # u
      BY <1>4, <2>2, <3>2
    <3> QED BY <3>1, <3>2
  <2>6. PartyMove(proc, pr2, req, h, Idle, U, U, shown)
    BY <1>2, <1>4, <2>4, <2>5, IdleIs DEF PartyMove
  <2>7. Party(proc', req', U, shown)
    BY <1>1, <1>2, <2>6, MoveParty
  <2> QED BY <1>1, <1>2, <1>3, <2>7 DEF Inv, IInv, U
<1> QED BY <1>7, <1>8

\* A request begins; at most one process starts with it.
Starts(pr, pr2) ==
  /\ pr2 \in [Procs -> ProcSet]
  /\ \A p \in Procs : \/ pr2[p] = pr[p]
                      \/ pr[p].st \in {"none", "live"} /\ pr2[p].st = "live" /\ pr2[p].kill = "no"

PartyBegins(pr, pr2, rq, h, r, U) ==
  /\ rq[h].step = "idle" /\ r.step = "ask" /\ Starts(pr, pr2) /\ AskOK(pr2, U, r)
  /\ \A p \in Procs : /\ AddsTo(r, p) => pr2[p].st \in {"live", "ended"} /\ \A k \in Threads : ~PurgesOf(rq[k], p)
                      /\ PurgesOf(r, p) => pr2[p].st = "ended" /\ ~AddsTo(r, p) /\ \A k \in Threads : ~AddsTo(rq[k], p)
  /\ \A k \in Threads : rq[k].step = "ask" =>
       /\ r.op = "exec" => rq[k].op # "get" /\ (rq[k].op \in {"exec", "take"} => rq[k].uid # r.uid)
       /\ rq[k].op = "exec" => r.op # "get" /\ (r.op \in {"exec", "take"} => r.uid # rq[k].uid)

LEMMA BeginParty ==
  ASSUME NEW pr, NEW rq, NEW U, NEW sh, Party(pr, rq, U, sh), NEW h \in Threads, NEW r, NEW rq2, rq2 = [rq EXCEPT ![h] = r],
         DOMAIN rq = Threads, NEW pr2, PartyBegins(pr, pr2, rq, h, r, U)
  PROVE  Party(pr2, rq2, U, sh)
<1>1. rq2[h] = r /\ \A k \in Threads \ {h} : rq2[k] = rq[k]
  OBVIOUS
<1>2. /\ pr2 \in [Procs -> ProcSet] /\ rq[h].step = "idle" /\ r.step = "ask" /\ AskOK(pr2, U, r)
      /\ \A p \in Procs : \/ pr2[p] = pr[p]
                          \/ pr[p].st \in {"none", "live"} /\ pr2[p].st = "live" /\ pr2[p].kill = "no"
  BY DEF PartyBegins, Starts
<1>3. /\ U \subseteq Procs /\ \A p \in U : pr2[p].st \in {"live", "ended"}
      /\ \A p \in Procs : pr2[p].st = "none" => pr2[p].kill = "no"
      /\ sh \subseteq U
  BY <1>2 DEF Party
<1>4. ASSUME NEW p \in Procs
      PROVE  /\ pr[p].st \in {"live", "ended"} => pr2[p].st \in {"live", "ended"}
             /\ pr[p].st \in {"ended", "gone"} => pr2[p] = pr[p]
             /\ pr[p].st # "none" => pr2[p].st # "none"
             /\ pr2[p].kill = "asked" => pr2[p] = pr[p]
  BY <1>2
<1>5. ASSUME NEW j \in Threads, NEW p \in Procs
      PROVE /\ AddsTo(rq2[j], p) => pr2[p].st \in {"live", "ended"}
            /\ PurgesOf(rq2[j], p) => pr2[p].st \in {"ended", "gone"} /\ \A k \in Threads : ~AddsTo(rq2[k], p)
  <2>1. /\ AddsTo(r, p) => pr2[p].st \in {"live", "ended"} /\ \A k \in Threads : ~PurgesOf(rq[k], p)
        /\ PurgesOf(r, p) => pr2[p].st = "ended" /\ ~AddsTo(r, p) /\ \A k \in Threads : ~AddsTo(rq[k], p)
    BY DEF PartyBegins
  <2>2. \A i \in Threads : /\ AddsTo(rq[i], p) => pr[p].st \in {"live", "ended"}
                           /\ PurgesOf(rq[i], p) => pr[p].st \in {"ended", "gone"} /\ \A k \in Threads : ~AddsTo(rq[k], p)
    BY DEF Party
  <2>3. CASE j = h
    BY <1>1, <2>1, <2>3
  <2>4. CASE j # h
    BY <1>1, <1>4, <2>1, <2>2, <2>4
  <2> QED BY <2>3, <2>4
<1>6. ASSUME NEW j \in Threads PROVE AskOK(pr2, U, rq2[j])
  <2>1. CASE j = h
    BY <1>1, <1>2, <2>1
  <2>2. CASE j # h
    <3>1. AskOK(pr, U, rq[j])
      BY DEF Party
    <3> QED BY <1>1, <1>4, <2>2, <3>1 DEF AskOK
  <2> QED BY <2>1, <2>2
<1>7. ASSUME NEW j \in Threads, NEW k \in Threads, rq2[j].step = "ask", rq2[k].step = "ask", rq2[j].op = "exec"
      PROVE rq2[k].op # "get" /\ (rq2[k].op \in {"exec", "take"} /\ j # k => rq2[k].uid # rq2[j].uid)
  <2>1. CASE j = h /\ k = h
    BY <1>1, <1>7, <2>1
  <2>2. CASE j = h /\ k # h
    <3>1. rq[k].step = "ask" /\ r.op = "exec" /\ rq2[k] = rq[k] /\ rq2[j] = r
      BY <1>1, <1>7, <2>2
    <3> QED BY <3>1 DEF PartyBegins
  <2>3. CASE j # h /\ k = h
    <3>1. rq[j].step = "ask" /\ rq[j].op = "exec" /\ rq2[j] = rq[j] /\ rq2[k] = r
      BY <1>1, <1>7, <2>3
    <3> QED BY <3>1 DEF PartyBegins
  <2>4. CASE j # h /\ k # h
    BY <1>1, <1>7, <2>4 DEF Party
  <2> QED BY <2>1, <2>2, <2>3, <2>4
<1>8. ASSUME NEW p \in Procs, pr2[p].st = "live", pr2[p].kill = "asked"
      PROVE p \in U \/ \E j \in Threads : rq2[j].step = "publish" /\ p \in rq2[j].closed
  <2>1. pr[p].st = "live" /\ pr[p].kill = "asked"
    BY <1>4, <1>8
  <2>2. p \in U \/ \E j \in Threads : rq[j].step = "publish" /\ p \in rq[j].closed
    BY <2>1 DEF Party
  <2>3. \A j \in Threads : rq[j].step = "publish" => rq2[j] = rq[j]
    BY <1>1, <1>2
  <2> QED BY <2>2, <2>3
<1> QED BY <1>2, <1>3, <1>5, <1>6, <1>7, <1>8 DEF Party

\* A request that begins changes nothing the boards show.
LEMMA BeginStep ==
  ASSUME IInv, NEW h \in Threads, NEW r, PartyBegins(proc, proc', req, h, r, UidsOn(board)),
         req' = [req EXCEPT ![h] = r], UNCHANGED <<board, tab, shown, next>>
  PROVE  IInv'
<1> PICK B, H : Inv(B, H, next, board, tab, req, proc, shown)
  BY DEF IInv
<1>1. /\ World(B, H, next, board, tab, req) /\ Party(proc, req, UidsOn(board), shown) /\ DOMAIN req = Threads
  BY DEF Inv
<1>2. r.step \notin {"put", "publish", "reply"}
  BY DEF PartyBegins
<1>3. World(B, H, next, board, tab, req')
  BY <1>1, <1>2, QuietWorld
<1>4. Party(proc', req', UidsOn(board), shown)
  BY <1>1, BeginParty
<1>5. DOMAIN req' = Threads
  BY <1>1
<1>6. Inv(B, H, next', board', tab', req', proc', shown')
  BY <1>3, <1>4, <1>5 DEF Inv
<1> QED BY <1>6 DEF IInv

LEMMA PartyIs ==
  ASSUME IInv
  PROVE  Party(proc, req, UidsOn(board), shown) /\ DOMAIN req = Threads
<1> QED BY DEF IInv, Inv

LEMMA RequestIs ==
  ASSUME NEW op, NEW uid
  PROVE  /\ Request(op, uid).step = "ask" /\ Request(op, uid).op = op /\ Request(op, uid).uid = uid
         /\ \A ps : /\ [Request(op, uid) EXCEPT !.procs = ps].step = "ask" /\ [Request(op, uid) EXCEPT !.procs = ps].op = op
                    /\ [Request(op, uid) EXCEPT !.procs = ps].procs = ps
         /\ \A a : /\ [Request(op, uid) EXCEPT !.at = a].step = "ask" /\ [Request(op, uid) EXCEPT !.at = a].op = op
                   /\ [Request(op, uid) EXCEPT !.at = a].uid = uid
<1> QED BY DEF Request

\* A listing begins, with the processes that had no tile when it looked.
LEMMA LookStep ==
  ASSUME IInv, InOrder, NEW h \in Threads, Look(h)
  PROVE  IInv'
<1> DEFINE mine == Orphans({})
           r == [Request("get", None) EXCEPT !.procs = mine]
<1>1. Party(proc, req, UidsOn(board), shown) /\ DOMAIN req = Threads
  BY PartyIs
<1>2. /\ req[h] = Idle /\ req' = [req EXCEPT ![h] = r] /\ UNCHANGED <<board, proc, tab, shown, next>> /\ Apart("exec")
  BY DEF Look, Begin
<1>3. r.step = "ask" /\ r.op = "get" /\ r.procs = mine
  BY RequestIs
<1>4. \A p \in mine : p \in Own /\ p \in Procs /\ proc[p].st = "live"
  BY OwnAssumption DEF Orphans, IsLive
<1> HIDE DEF mine, r
<1>5. \A k \in Threads : req[k].step = "ask" => req[k].op # "exec"
  <2>1. \A k \in Threads : req[k].step = "ask" => k \in Busy
    BY DEF Busy, Idle
  <2> QED BY <1>2, <2>1 DEF Apart, InOrder
<1>6. Starts(proc, proc) /\ \A k \in Threads, p \in Procs : PurgesOf(req[k], p) => proc[p].st \in {"ended", "gone"}
  BY <1>1 DEF Party, Starts
<1>7. AskOK(proc, UidsOn(board), r)
  BY <1>3, <1>4 DEF AskOK
<1>8. \A p \in Procs : AddsTo(r, p) => p \in mine
  BY <1>3 DEF AddsTo
<1>9. \A p \in Procs : ~PurgesOf(r, p)
  BY <1>3 DEF PurgesOf
<1>10. PartyBegins(proc, proc, req, h, r, UidsOn(board))
  BY <1>2, <1>3, <1>4, <1>5, <1>6, <1>7, <1>8, <1>9, IdleIs DEF PartyBegins
<1> QED BY <1>2, <1>10, BeginStep

LEMMA RisesTo ==
  ASSUME proc \in [Procs -> ProcSet], NEW p \in Procs, proc[p].st \in {"none", "live"}, proc[p].kill = "no",
         NEW pr2, pr2 = [proc EXCEPT ![p].st = "live"]
  PROVE  Starts(proc, pr2) /\ pr2[p].st = "live" /\ \A q \in Procs \ {p} : pr2[q] = proc[q]
<1>1. pr2[p] = [proc[p] EXCEPT !.st = "live"] /\ DOMAIN pr2 = Procs /\ \A q \in Procs \ {p} : pr2[q] = proc[q]
  OBVIOUS
<1>2. pr2[p] \in ProcSet /\ pr2[p].st = "live" /\ pr2[p].kill = "no"
  <2>1. proc[p] \in ProcSet
    OBVIOUS
  <2> QED BY <1>1, <2>1 DEF ProcSet
<1>3. pr2 \in [Procs -> ProcSet]
  <2>1. pr2 = [q \in Procs |-> pr2[q]] /\ \A q \in Procs : pr2[q] \in ProcSet
    BY <1>1, <1>2
  <2> QED BY <2>1
<1> HIDE DEF ProcSet
<1>4. ASSUME NEW q \in Procs PROVE pr2[q] = proc[q] \/ (proc[q].st \in {"none", "live"} /\ pr2[q].st = "live" /\ pr2[q].kill = "no")
  <2>1. CASE q = p
    BY <1>2, <2>1
  <2>2. CASE q # p
    BY <1>1, <2>2
  <2> QED BY <2>1, <2>2
<1> QED BY <1>1, <1>2, <1>3, <1>4 DEF Starts

\* exec begins.
LEMMA ExecStep ==
  ASSUME IInv, InOrder, NEW h \in Threads, NEW p \in Procs, NEW at, Exec(h, p, at)
  PROVE  IInv'
<1> DEFINE r == [Request("exec", p) EXCEPT !.at = at]
           U == UidsOn(board)
<1>1. Party(proc, req, U, shown) /\ DOMAIN req = Threads
  BY PartyIs
<1>2. /\ req[h] = Idle /\ req' = [req EXCEPT ![h] = r] /\ UNCHANGED <<board, tab, shown, next>> /\ Apart("get")
      /\ proc[p].st = "none" /\ p \in Own /\ proc' = [proc EXCEPT ![p].st = "live"]
  BY DEF Exec, Begin
<1>3. r.step = "ask" /\ r.op = "exec" /\ r.uid = p
  BY RequestIs
<1> HIDE DEF U, r
<1>4. \A k \in Threads : req[k].step = "ask" => req[k].op # "get"
  <2>1. \A k \in Threads : req[k].step = "ask" => k \in Busy
    BY DEF Busy, Idle
  <2> QED BY <1>2, <2>1 DEF Apart, InOrder
<1>5. /\ \A k \in Threads, q \in Procs : PurgesOf(req[k], q) => proc[q].st \in {"ended", "gone"}
      /\ \A k \in Threads, q \in Procs : AddsTo(req[k], q) => proc[q].st \in {"live", "ended"}
      /\ \A k \in Threads : AskOK(proc, U, req[k])
      /\ proc \in [Procs -> ProcSet] /\ proc[p].kill = "no" /\ p \notin U
  BY <1>1, <1>2 DEF Party
<1>6. Starts(proc, proc') /\ proc'[p].st = "live"
  BY <1>2, <1>5, RisesTo
<1>7. AskOK(proc', U, r)
  BY <1>2, <1>3, <1>5 DEF AskOK
<1>8. ASSUME NEW k \in Threads, req[k].step = "ask", req[k].op \in {"exec", "take"} PROVE req[k].uid # p
  <2>1. CASE req[k].op = "exec"
    <3>1. AddsTo(req[k], req[k].uid)
      BY <1>8, <2>1 DEF AddsTo
    <3> QED BY <1>2, <1>5, <3>1
  <2>2. CASE req[k].op = "take"
    BY <1>2, <1>5, <1>8, <2>2 DEF AskOK
  <2> QED BY <1>8, <2>1, <2>2
<1>9. \A q \in Procs : (AddsTo(r, q) => q = p) /\ ~PurgesOf(r, q)
  BY <1>3 DEF AddsTo, PurgesOf
<1>10. \A k \in Threads : ~PurgesOf(req[k], p)
  BY <1>2, <1>5
<1>11. PartyBegins(proc, proc', req, h, r, U)
  BY <1>2, <1>3, <1>4, <1>6, <1>7, <1>8, <1>9, <1>10, IdleIs DEF PartyBegins
<1> QED BY <1>2, <1>11, BeginStep DEF U

\* A shared process is attached: the request begins.
LEMMA AttachStep ==
  ASSUME IInv, NEW h \in Threads, NEW p \in Procs, Attach(h, p)
  PROVE  IInv'
<1> DEFINE r == Request("attach", p)
           U == UidsOn(board)
<1>1. Party(proc, req, U, shown) /\ DOMAIN req = Threads
  BY PartyIs
<1>2. /\ req[h] = Idle /\ req' = [req EXCEPT ![h] = r] /\ UNCHANGED <<board, tab, shown, next>>
      /\ proc[p].st \in {"none", "live"} /\ proc[p].kill = "no" /\ p \notin Own /\ proc' = [proc EXCEPT ![p].st = "live"]
  BY DEF Attach, Begin
<1>3. r.step = "ask" /\ r.op = "attach" /\ r.uid = p
  BY RequestIs
<1> HIDE DEF U, r
<1>4. /\ \A k \in Threads, q \in Procs : PurgesOf(req[k], q) => proc[q].st \in {"ended", "gone"}
      /\ \A k \in Threads : AskOK(proc, U, req[k])
      /\ proc \in [Procs -> ProcSet]
  BY <1>1 DEF Party
<1>5. Starts(proc, proc') /\ proc'[p].st = "live"
  BY <1>2, <1>4, RisesTo
<1>6. AskOK(proc', U, r)
  BY <1>2, <1>3 DEF AskOK
<1>7. \A q \in Procs : (AddsTo(r, q) => q = p) /\ ~PurgesOf(r, q)
  BY <1>3 DEF AddsTo, PurgesOf
<1>8. \A k \in Threads : ~PurgesOf(req[k], p)
  BY <1>2, <1>4
<1>9. PartyBegins(proc, proc', req, h, r, U)
  BY <1>2, <1>3, <1>5, <1>6, <1>7, <1>8, IdleIs DEF PartyBegins
<1> QED BY <1>2, <1>9, BeginStep DEF U

\* The requests that start no process.
AskFits(op, uid) ==
  \/ op \in {"bind", "move", "delete", "share"}
  \/ op = "video" /\ uid \in Videos
  \/ op = "take" /\ uid \in Procs /\ proc[uid].st \in {"live", "ended"} /\ Apart("exec")
  \/ op = "purge" /\ uid \in Procs /\ Expired(uid)

\* Any other request begins.
LEMMA AskStep ==
  ASSUME IInv, InOrder, NEW h \in Threads, NEW op, NEW uid, Ask(h, op, uid), AskFits(op, uid)
  PROVE  IInv'
<1> DEFINE r == Request(op, uid)
           U == UidsOn(board)
<1>1. Party(proc, req, U, shown) /\ DOMAIN req = Threads
  BY PartyIs
<1>2. req[h] = Idle /\ req' = [req EXCEPT ![h] = r] /\ UNCHANGED <<board, proc, tab, shown, next>>
  BY DEF Ask, Begin
<1>3. r.step = "ask" /\ r.op = op /\ r.uid = uid
  BY RequestIs
<1> HIDE DEF U, r
<1>4. Starts(proc, proc)
  BY <1>1 DEF Party, Starts
<1>5. AskOK(proc, U, r)
  BY <1>3 DEF AskOK, AskFits, Expired
<1>6. \A q \in Procs : ~AddsTo(r, q)
  BY <1>3 DEF AddsTo, AskFits
<1>7. ASSUME NEW q \in Procs, PurgesOf(r, q) PROVE proc[q].st = "ended" /\ \A k \in Threads : ~AddsTo(req[k], q)
  <2>1. q = uid /\ op = "purge"
    BY <1>3, <1>7 DEF PurgesOf
  <2> QED BY <2>1 DEF AskFits, Expired, AddsTo
<1>8. ASSUME op = "take" PROVE \A k \in Threads : req[k].step = "ask" => req[k].op # "exec"
  <2>1. \A k \in Threads : req[k].step = "ask" => k \in Busy
    BY DEF Busy, Idle
  <2> QED BY <1>8, <2>1 DEF Apart, InOrder, AskFits
<1>9. op \notin {"exec", "get"}
  BY DEF AskFits
<1>10. PartyBegins(proc, proc, req, h, r, U)
  BY <1>2, <1>3, <1>4, <1>5, <1>6, <1>7, <1>8, <1>9, IdleIs DEF PartyBegins
<1> QED BY <1>2, <1>10, BeginStep DEF U

\* The save of a tab that has none on the way.
PutOf(t, r) ==
  /\ r.step = "put" /\ r.op = "put" /\ r.hash = t.hash /\ r.ver = t.ver /\ r.doc = t.doc
  /\ r.sent = Pends(t) /\ r.gen = t.gen /\ r.uid = None

LEMMA PutOfIs ==
  ASSUME NEW B, NEW H, NEW n, NEW brd, NEW t, TabFits(B, n, t), TabOK(H, brd, t), n \in Nat, NEW r, PutOf(t, r)
  PROVE  PutOK(B, H, n, brd, t, r)
<1>1. /\ t.hash \in Nat /\ t.ver \in Nat /\ t.doc \in DocSet /\ t.pend \in Seq(EditSet) /\ t.gen \in Nat
      /\ 0 < t.hash /\ t.hash < n
      /\ \A y : y \in Pends(t) <=> \E i \in 1 .. Len(t.pend) : t.pend[i] = y
  BY PendIs
<1>2. Fit(t.doc, B, n) /\ \A e \in Pends(t) : EditFits(e, B, n)
  BY <1>1 DEF TabFits
<1>3. Explains(t.doc, t.doc, Pends(t) \ Pends(t))
  <2>1. Pends(t) \ Pends(t) = {}
    OBVIOUS
  <2>2. Explains(t.doc, t.doc, {})
    BY DEF Explains, OpenIds, ServerIds, CloseIds, OfType, Ids
  <2> QED BY <2>1, <2>2
<1>4. t.hash \in DOMAIN brd =>
        /\ t.ver <= brd[t.hash].ver /\ Elsewhere(Pends(t), t.hash, brd)
        /\ Explains(t.doc, H[<<t.hash, t.ver>>], Pends(t))
  BY DEF TabOK
<1>5. /\ r.op = "put" /\ r.hash = t.hash /\ r.ver = t.ver /\ r.doc = t.doc
      /\ r.sent = Pends(t) /\ r.gen = t.gen
  BY DEF PutOf
<1>6. t.hash \in Nat \ {0} /\ t.ver <= t.ver
  BY <1>1
<1>7. r.hash \in Nat \ {0} /\ r.hash < n /\ r.ver \in Nat /\ Fit(r.doc, B, n) /\ \A e \in r.sent : EditFits(e, B, n)
  BY <1>1, <1>2, <1>5, <1>6
<1>8. r.gen = t.gen => r.hash = t.hash /\ r.ver <= t.ver
  BY <1>5, <1>6
<1> QED BY <1>3, <1>4, <1>5, <1>7, <1>8 DEF PutOK

LEMMA SendWorld ==
  ASSUME NEW B, NEW H, NEW n, NEW brd, NEW t, NEW rq, World(B, H, n, brd, t, rq), NEW h \in Threads, DOMAIN rq = Threads,
         \A k \in Threads : PutLike(rq[k]) => rq[k].gen # t.gen,
         NEW r, PutOf(t, r), NEW rq2, rq2 = [rq EXCEPT ![h] = r]
  PROVE  World(B, H, n, brd, t, rq2)
<1>1. rq2[h] = r /\ \A k \in Threads \ {h} : rq2[k] = rq[k]
  OBVIOUS
<1>2. ThreadsOK(B, H, n, brd, t, rq) /\ Distinct(rq, t) /\ TabOK(H, brd, t) /\ TabFits(B, n, t) /\ n \in Nat
  BY DEF World
<1>3. PutOK(B, H, n, brd, t, r)
  BY <1>2, PutOfIs
<1>4. /\ r.step = "put" /\ r.op = "put" /\ r.gen = t.gen /\ r.sent = Pends(t)
      /\ PutLike(r) /\ ~Telling(r) /\ SentOf(r) = Pends(t)
  BY DEF PutOf, PutLike, Telling, SentOf
<1>5. t.gen \in Nat
  BY <1>2, PendIs
<1>6. ThreadOK(B, H, n, brd, t, r)
  <2>1. t.gen <= t.gen
    BY <1>5
  <2> QED BY <1>3, <1>4, <1>5, <2>1 DEF ThreadOK
<1>7. ThreadsOK(B, H, n, brd, t, rq2)
  BY <1>1, <1>2, <1>6 DEF ThreadsOK
<1>8. \A j, k \in Threads : PutLike(rq2[j]) /\ PutLike(rq2[k]) /\ rq2[j].gen = rq2[k].gen => j = k
  <2>1. \A j, k \in Threads : PutLike(rq[j]) /\ PutLike(rq[k]) /\ rq[j].gen = rq[k].gen => j = k
    BY <1>2 DEF Distinct
  <2>2. \A k \in Threads \ {h} : PutLike(rq2[k]) => rq2[k].gen # r.gen
    BY <1>1, <1>4
  <2> QED BY <1>1, <2>1, <2>2
<1>9. \A k \in Threads \ {h} : rq[k].step = "put" => OpenIds(rq[k].sent) \intersect OpenIds(Pends(t)) = {}
  <2> SUFFICES ASSUME NEW k \in Threads \ {h}, rq[k].step = "put" PROVE OpenIds(rq[k].sent) \intersect OpenIds(Pends(t)) = {}
    OBVIOUS
  <2>1. PutOK(B, H, n, brd, t, rq[k])
    BY <1>2 DEF ThreadsOK, ThreadOK
  <2>2. rq[k].gen # t.gen
    BY <2>1 DEF PutLike, PutOK
  <2> QED BY <2>1, <2>2 DEF PutOK
<1>10. \A j, k \in Threads : rq2[j].step = "put" /\ rq2[k].step = "put" /\ j # k =>
          OpenIds(rq2[j].sent) \intersect OpenIds(rq2[k].sent) = {}
  <2>1. \A j, k \in Threads : rq[j].step = "put" /\ rq[k].step = "put" /\ j # k =>
          OpenIds(rq[j].sent) \intersect OpenIds(rq[k].sent) = {}
    BY <1>2 DEF Distinct
  <2> QED BY <1>1, <1>4, <1>9, <2>1
<1>11. ASSUME NEW j \in Threads, Telling(rq2[j])
       PROVE /\ rq2[j].reply.id \notin ServerIds(Pends(t))
             /\ \A k \in Threads : PutLike(rq2[k]) => rq2[j].reply.id \notin ServerIds(SentOf(rq2[k]))
             /\ \A k \in Threads \ {j} : Telling(rq2[k]) => rq2[k].reply.id # rq2[j].reply.id
  <2>1. j # h /\ rq2[j] = rq[j]
    BY <1>1, <1>4, <1>11
  <2>2. /\ rq[j].reply.id \notin ServerIds(Pends(t))
        /\ \A k \in Threads : PutLike(rq[k]) => rq[j].reply.id \notin ServerIds(SentOf(rq[k]))
        /\ \A k \in Threads \ {j} : Telling(rq[k]) => rq[k].reply.id # rq[j].reply.id
    BY <1>2, <1>11, <2>1 DEF Distinct
  <2> QED BY <1>1, <1>4, <2>1, <2>2
<1>12. Distinct(rq2, t)
  BY <1>8, <1>10, <1>11 DEF Distinct
<1> QED BY <1>7, <1>12 DEF World

\* The tab sends what it has not saved.
LEMMA SendStep ==
  ASSUME IInv, NEW h \in Threads, Send(h)
  PROVE  IInv'
<1> PICK B, H : Inv(B, H, next, board, tab, req, proc, shown)
  BY DEF IInv
<1> DEFINE r == [step |-> "put", op |-> "put", hash |-> tab.hash, ver |-> tab.ver,
                 doc |-> tab.doc, sent |-> ToSet(tab.pend), gen |-> tab.gen, uid |-> None]
<1>1. World(B, H, next, board, tab, req) /\ Party(proc, req, UidsOn(board), shown) /\ DOMAIN req = Threads
  BY DEF Inv
<1>2. req[h] = Idle /\ ~InFlight /\ req' = [req EXCEPT ![h] = r] /\ UNCHANGED <<board, proc, tab, shown, next>>
  BY DEF Send, Step
<1>3. PutOf(tab, r) /\ r.step = "put"
  BY DEF PutOf, Pends
<1> HIDE DEF r
<1>4. \A k \in Threads : PutLike(req[k]) => req[k].gen # tab.gen
  BY <1>2 DEF InFlight, PutLike
<1>5. World(B, H, next, board, tab, req')
  BY <1>1, <1>2, <1>3, <1>4, SendWorld
<1>6. Party(proc, req', UidsOn(board), shown)
  <2>1. req[h].step = "idle"
    BY <1>2, IdleIs
  <2>2. \A p : ~PurgesOf(r, p)
    BY <1>3 DEF PurgesOf
  <2> QED BY <1>1, <1>2, <1>3, <2>1, <2>2, RestParty
<1>7. DOMAIN req' = Threads
  BY <1>1, <1>2
<1>8. Inv(B, H, next', board', tab', req', proc', shown')
  BY <1>2, <1>5, <1>6, <1>7 DEF Inv
<1> QED BY <1>8 DEF IInv

\* The tab with one more edit, n the fresh number it has.
Modifies(B, n, t, t2, e) ==
  /\ e.n = n /\ e.do # "server"
  /\ TabFits(B, n + 1, t2) /\ t2.hash = t.hash /\ t2.gen = t.gen /\ t2.ver = t.ver
  /\ Pends(t2) = Pends(t) \union {e}
  /\ \A k \in Ids(t.doc) : k \in Ids(t2.doc) \/ (e.do = "close" /\ k = e.id)
  /\ \A k \in Ids(t2.doc) : k \in Ids(t.doc) \/ (e.do = "open" /\ k = n)

LEMMA TabModified ==
  ASSUME NEW B, NEW n \in Nat, NEW t, TabFits(B, n, t), TabFits(B, n + 1, t),
         NEW e, EditFits(e, B, n + 1), e.n = n, e.do # "server", Applies(t.doc, e)
  PROVE  Modifies(B, n, t, [t EXCEPT !.doc = Applied(t.doc, e), !.pend = Append(@, e)], e)
<1> DEFINE d == Applied(t.doc, e)
           q == t.pend
           p == Append(q, e)
           t2 == [t EXCEPT !.doc = d, !.pend = p]
<1>1. /\ t = [hash |-> t.hash, ver |-> t.ver, doc |-> t.doc, pend |-> t.pend, gen |-> t.gen]
      /\ t.hash \in Nat /\ t.ver \in Nat /\ t.doc \in DocSet /\ q \in Seq(EditSet) /\ t.gen \in Nat
      /\ 0 < t.hash /\ t.hash < n
      /\ \A y : y \in Pends(t) <=> \E i \in 1 .. Len(q) : q[i] = y
  BY PendIs
<1>2. Fit(t.doc, B, n + 1) /\ NoReopen(q) /\ (\A i \in 1 .. Len(q) : EditFits(q[i], B, n + 1))
      /\ \A i \in 1 .. Len(q) : q[i].id < n
  BY DEF TabFits, EditFits
<1>3. Effect(B, n + 1, t.doc, e, d)
  <2>1. n + 1 \in Nat
    OBVIOUS
  <2> QED BY <1>2, <2>1, AppliedIs
<1>4. e \in EditSet
  BY DEF EditFits
<1> HIDE DEF d
<1>6. /\ q \in Seq(EditSet) /\ p \in Seq(EditSet) /\ Len(p) = Len(q) + 1 /\ Len(q) \in Nat /\ p[Len(q) + 1] = e
      /\ \A m \in 1 .. Len(q) : p[m] = q[m]
  <2> HIDE DEF q
  <2> QED BY <1>1, <1>4
<1> HIDE DEF p
<1>7. t2 = [hash |-> t.hash, ver |-> t.ver, doc |-> d, pend |-> p, gen |-> t.gen]
  <2>1. t = [hash |-> t.hash, ver |-> t.ver, doc |-> t.doc, pend |-> t.pend, gen |-> t.gen]
    BY <1>1
  <2> QED BY <2>1, TabChange
<1> HIDE DEF t2
<1>8. t2.hash = t.hash /\ t2.ver = t.ver /\ t2.doc = d /\ t2.pend = p /\ t2.gen = t.gen
  BY <1>7
<1> HIDE DEF q
<1>9. \A m \in 1 .. Len(p) : m = Len(q) + 1 \/ m \in 1 .. Len(q)
  BY <1>6
<1>10. Len(q) + 1 \in 1 .. Len(p) /\ \A m \in 1 .. Len(q) : m \in 1 .. Len(p)
  BY <1>6
<1>11. Pends(t2) = Pends(t) \union {e}
  <2>1. \A y : y \in Pends(t2) <=> \E m \in 1 .. Len(p) : p[m] = y
    <3>1. p \in Seq(EditSet)
      BY <1>6
    <3> QED BY <1>8, <3>1 DEF Pends, ToSet
  <2>2. ASSUME NEW y \in Pends(t2) PROVE y \in Pends(t) \/ y = e
    <3>1. PICK m \in 1 .. Len(p) : p[m] = y
      BY <2>1
    <3> QED BY <1>1, <1>6, <1>9, <3>1
  <2>3. ASSUME NEW y \in Pends(t) PROVE y \in Pends(t2)
    <3>1. PICK m \in 1 .. Len(q) : q[m] = y
      BY <1>1
    <3> QED BY <1>6, <1>10, <2>1, <3>1
  <2>4. e \in Pends(t2)
    BY <1>6, <1>10, <2>1
  <2> QED BY <2>2, <2>3, <2>4
<1>12. NoReopen(p)
  <2> SUFFICES ASSUME NEW l \in 1 .. Len(p), NEW m \in 1 .. Len(p), l < m, p[l].do = "close", p[m].do = "open"
               PROVE  p[l].id # p[m].n
    BY DEF NoReopen
  <2>1. l \in 1 .. Len(q)
    BY <1>6
  <2>2. CASE m \in 1 .. Len(q)
    BY <1>2, <1>6, <2>1, <2>2 DEF NoReopen
  <2>3. CASE m = Len(q) + 1
    <3>1. p[m].n = n /\ p[l].id < n
      BY <1>2, <1>6, <2>1, <2>3
    <3>2. ~(n < n)
      OBVIOUS
    <3> QED BY <3>1, <3>2
  <2> QED BY <1>9, <2>2, <2>3
<1>13. \A m \in 1 .. Len(p) : EditFits(p[m], B, n + 1)
  BY <1>2, <1>6, <1>9
<1>14. TabFits(B, n + 1, t2)
  <2>1. d \in DocSet /\ Fit(d, B, n + 1)
    BY <1>3 DEF Effect, Fit
  <2>2. t2 \in TabSet
    BY <1>1, <1>6, <1>7, <2>1 DEF TabSet
  <2>3. t.hash < n + 1
    BY <1>1
  <2> QED BY <1>1, <1>8, <1>12, <1>13, <2>1, <2>2, <2>3 DEF TabFits
<1>15. Modifies(B, n, t, t2, e)
  BY <1>3, <1>8, <1>11, <1>14 DEF Modifies, Effect
<1> QED BY <1>15 DEF t2, p, q, d

Before(S, n) == \A x \in S : x.n # n

LEMMA ExplainsEdit ==
  ASSUME NEW B, NEW n \in Nat, NEW t, NEW t2, NEW e, Modifies(B, n, t, t2, e), NEW base, NEW S,
         Explains(t.doc, base, Pends(t) \ S), n \notin Ids(base), Before(S, n)
  PROVE  Explains(t2.doc, base, Pends(t2) \ S)
<1> DEFINE E == Pends(t) \ S
           F == Pends(t2) \ S
<1>1. e.do # "server" /\ e.n = n
  BY DEF Modifies
<1>2. e \notin S
  BY <1>1 DEF Before
<1>3. F = E \union {e}
  BY <1>2 DEF Modifies
<1> HIDE DEF E, F
<1>4. /\ ServerIds(F) = ServerIds(E) /\ CloseIds(E) \subseteq CloseIds(F) /\ OpenIds(E) \subseteq OpenIds(F)
      /\ \A k \in OpenIds(F) : k \in OpenIds(E) \/ k = n
      /\ e.do = "open" => n \in OpenIds(F)
      /\ e.do = "close" => e.id \in CloseIds(F)
  BY <1>1, <1>3 DEF OpenIds, ServerIds, CloseIds
<1>5. Explains(t.doc, base, E)
  BY DEF E
<1>6. Explains(t2.doc, base, F)
  <2>1. Ids(t2.doc) \subseteq Ids(base) \union OpenIds(F) \union ServerIds(F)
    BY <1>4, <1>5 DEF Explains, Modifies
  <2>2. OpenIds(F) \intersect Ids(base) = {}
    BY <1>4, <1>5 DEF Explains
  <2>3. OfType(base, "terminal") \subseteq Ids(t2.doc) \union CloseIds(F)
    BY <1>4, <1>5 DEF Explains, Modifies
  <2> QED BY <2>1, <2>2, <2>3 DEF Explains
<1> QED BY <1>6 DEF F

LEMMA ExplainsEditAll ==
  ASSUME NEW B, NEW n \in Nat, NEW t, NEW t2, NEW e, Modifies(B, n, t, t2, e), NEW base,
         Explains(t.doc, base, Pends(t)), n \notin Ids(base)
  PROVE  Explains(t2.doc, base, Pends(t2))
<1> DEFINE S == {}
<1>1. Pends(t) \ S = Pends(t) /\ Pends(t2) \ S = Pends(t2) /\ Before(S, n)
  BY DEF Before
<1> HIDE DEF S
<1>2. Explains(t.doc, base, Pends(t) \ S)
  BY <1>1
<1>3. Explains(t2.doc, base, Pends(t2) \ S)
  BY <1>1, <1>2, ExplainsEdit
<1> QED BY <1>1, <1>3

\* Edits sent before have smaller numbers.
LEMMA ThreadModified ==
  ASSUME NEW B, NEW C, NEW H, NEW n \in Nat, NEW brd, NEW t, NEW t2, NEW e, Modifies(C, n, t, t2, e), NEW r,
         ThreadOK(B, H, n, brd, t, r), ThreadOK(C, H, n + 1, brd, t, r), HistFits(B, H, n, brd), TabFits(B, n, t)
  PROVE  ThreadOK(C, H, n + 1, brd, t2, r)
<1>1. t2.hash = t.hash /\ t2.gen = t.gen /\ t2.ver = t.ver /\ \A k \in OpenIds(Pends(t2)) : k \in OpenIds(Pends(t)) \/ k = n
  BY DEF Modifies, OpenIds
<1>0. ~(n < n)
  OBVIOUS
<1>2. ASSUME r.step = "put" PROVE PutOK(C, H, n + 1, brd, t2, r)
  <2>1. PutOK(B, H, n, brd, t, r) /\ PutOK(C, H, n + 1, brd, t, r)
    BY <1>2 DEF ThreadOK
  <2>2. \A x \in r.sent : x.n # n
    BY <1>0, <2>1 DEF PutOK, EditFits
  <2>3. n \notin Ids(r.doc)
    BY <1>0, <2>1 DEF PutOK, Fit
  <2>4. ASSUME r.gen = t.gen, r.ver = t.ver PROVE Explains(t2.doc, r.doc, Pends(t2) \ r.sent)
    <3>1. Explains(t.doc, r.doc, Pends(t) \ r.sent)
      BY <2>1, <2>4 DEF PutOK
    <3>2. n \notin Ids(r.doc) /\ Before(r.sent, n)
      BY <2>2, <2>3 DEF Before
    <3>3. Modifies(C, n, t, t2, e)
      OBVIOUS
    <3> QED BY <3>1, <3>2, <3>3, ExplainsEdit
  <2>5. n \notin OpenIds(r.sent)
    BY <2>2 DEF OpenIds
  <2>6. r.gen # t.gen => OpenIds(r.sent) \intersect OpenIds(Pends(t2)) = {}
    <3>1. r.gen # t.gen => OpenIds(r.sent) \intersect OpenIds(Pends(t)) = {}
      BY <2>1 DEF PutOK
    <3> QED BY <1>1, <2>5, <3>1
  <2> QED BY <1>1, <2>1, <2>4, <2>6 DEF PutOK
<1>3. ASSUME NEW a, AnswerOK(B, H, n, brd, t, a), AnswerOK(C, H, n + 1, brd, t, a) PROVE AnswerOK(C, H, n + 1, brd, t2, a)
  <2>1. ASSUME a.gen = t.gen, a.ok PROVE Explains(t2.doc, a.doc, Pends(t2) \ a.sent)
    <3>1. Explains(t.doc, a.doc, Pends(t) \ a.sent) /\ H[<<t.hash, a.ver>>] = a.doc /\ a.ver \in Nat
      BY <1>3, <2>1 DEF AnswerOK
    <3>2. t.hash \in Nat
      BY PendIs
    <3>3. Fit(a.doc, B, n)
      BY <3>1, <3>2 DEF HistFits
    <3>4. n \notin Ids(a.doc)
      BY <1>0, <3>3 DEF Fit
    <3>5. Before(a.sent, n)
      BY <1>0, <1>3 DEF AnswerOK, EditFits, Before
    <3> QED BY <3>1, <3>4, <3>5, ExplainsEdit
  <2>2. a.ok => a.ok = TRUE
    BY <1>3 DEF AnswerOK
  <2> QED BY <1>1, <1>3, <2>1, <2>2 DEF AnswerOK
<1>4. ASSUME r.step = "publish", r.op = "put" PROVE AnswerOK(C, H, n + 1, brd, t2, r.reply)
  <2>1. AnswerOK(B, H, n, brd, t, r.reply) /\ AnswerOK(C, H, n + 1, brd, t, r.reply)
    BY <1>4 DEF ThreadOK
  <2> QED BY <1>3, <2>1
<1>5. ASSUME r.step = "reply", r.op = "put" PROVE AnswerOK(C, H, n + 1, brd, t2, r)
  <2>1. AnswerOK(B, H, n, brd, t, r) /\ AnswerOK(C, H, n + 1, brd, t, r)
    BY <1>5 DEF ThreadOK
  <2> QED BY <1>3, <2>1
<1>6. ThreadOK(C, H, n + 1, brd, t, r)
  OBVIOUS
<1> QED BY <1>1, <1>2, <1>4, <1>5, <1>6 DEF ThreadOK

\* The fresh number is the id of a folder tile, should the edit open one.
Numbered(B, n) == [k \in Nat |-> IF k = n THEN <<"folder", None>> ELSE B[k]]

LEMMA NumberedIs ==
  ASSUME NEW B, NEW H, NEW n, NEW brd, NEW t, NEW rq, World(B, H, n, brd, t, rq), NEW C, C = Numbered(B, n)
  PROVE  TabFits(C, n, t) /\ TabFits(C, n + 1, t)
<1>1. n \in Nat /\ BoardsFit(B, n, brd) /\ TabFits(B, n, t)
  BY DEF World
<1>2. n + 1 \in Nat /\ n <= n + 1 /\ n <= n
  BY <1>1
<1>3. \A k \in Nat : k < n => C[k] = B[k]
  BY <1>1 DEF Numbered
<1>4. \A g \in DOMAIN brd : g \in Nat /\ brd[g].ver \in Nat /\ brd[g].ver <= brd[g].ver
  BY <1>1 DEF BoardsFit
<1>5. Later(B, H, n, brd, C, H, n, brd) /\ Later(B, H, n, brd, C, H, n + 1, brd)
  BY <1>1, <1>2, <1>3, <1>4 DEF Later
<1> QED BY <1>1, <1>5, TabLater

LEMMA EditWorld ==
  ASSUME NEW B, NEW H, NEW n, NEW brd, NEW t, NEW rq, World(B, H, n, brd, t, rq),
         NEW C, C = Numbered(B, n), NEW e, NEW t2, Modifies(C, n, t, t2, e)
  PROVE  World(C, H, n + 1, brd, t2, rq)
<1>1. /\ n \in Nat /\ BoardsFit(B, n, brd) /\ HistFits(B, H, n, brd) /\ Sound(B, brd) /\ PinsOnce(brd)
      /\ TabFits(B, n, t) /\ TabOK(H, brd, t) /\ ThreadsOK(B, H, n, brd, t, rq) /\ Distinct(rq, t)
  BY DEF World
<1>2. n + 1 \in Nat /\ n <= n + 1 /\ ~(n < n)
  BY <1>1
<1>3. \A k \in Nat : k < n => C[k] = B[k]
  BY <1>1 DEF Numbered
<1>4. \A d : Fit(d, B, n) => Fit(d, C, n + 1)
  BY <1>1, <1>2, <1>3, FitLater
<1>5. \A g \in DOMAIN brd : g \in Nat \ {0} /\ g < n /\ brd[g].ver \in Nat \ {0} /\ Fit(brd[g].doc, B, n)
  BY <1>1 DEF BoardsFit
<1>6. Later(B, H, n, brd, C, H, n + 1, brd)
  <2>1. \A g \in DOMAIN brd : g \in Nat /\ brd[g].ver \in Nat /\ brd[g].ver <= brd[g].ver
    BY <1>5
  <2> QED BY <1>1, <1>2, <1>3, <2>1 DEF Later
<1>7. BoardsFit(C, n + 1, brd)
  <2>1. \A g \in DOMAIN brd : g < n + 1
    BY <1>1, <1>5
  <2> QED BY <1>1, <1>4, <1>5, <2>1 DEF BoardsFit
<1>8. HistFits(C, H, n + 1, brd)
  BY <1>1, <1>4 DEF HistFits
<1>9. \A k \in AllOf(brd) : k \in Nat /\ k < n /\ C[k] = B[k]
  <2>1. \A k \in AllOf(brd) : \E g \in DOMAIN brd : k \in Ids(brd[g].doc)
    BY DEF AllOf
  <2>2. \A g \in DOMAIN brd : \A k \in Ids(brd[g].doc) : k \in Nat /\ k < n
    BY <1>5, DocIs DEF Fit
  <2> QED BY <1>3, <2>1, <2>2
<1>10. Sound(C, brd)
  BY <1>1, <1>9 DEF Sound
<1>11. TabFits(C, n + 1, t)
  BY <1>1, <1>6, TabLater
<1>12. Modifies(C, n, t, t2, e)
  OBVIOUS
<1>13. n \notin AllOf(brd) /\ \A g \in DOMAIN brd : n \notin Ids(brd[g].doc)
  BY <1>2, <1>9 DEF AllOf
<1>14. t2.hash = t.hash /\ t2.gen = t.gen /\ t2.ver = t.ver /\ ServerIds(Pends(t2)) = ServerIds(Pends(t))
       /\ (\A k \in OpenIds(Pends(t2)) : k \in OpenIds(Pends(t)) \/ k = n) /\ TabFits(C, n + 1, t2)
  BY <1>12 DEF Modifies, OpenIds, ServerIds
<1>15. TabOK(H, brd, t2)
  <2>1. t.hash \in DOMAIN brd => t.ver <= brd[t.hash].ver /\ Elsewhere(Pends(t2), t.hash, brd)
    <3>1. t.hash \in DOMAIN brd => t.ver <= brd[t.hash].ver /\ Elsewhere(Pends(t), t.hash, brd)
      BY <1>1 DEF TabOK
    <3> QED BY <1>13, <1>14, <3>1 DEF Elsewhere
  <2>2. ASSUME t.hash \in DOMAIN brd PROVE Explains(t2.doc, H[<<t.hash, t.ver>>], Pends(t2))
    <3>1. t.hash \in Nat /\ t.ver \in Nat
      BY <1>1, PendIs
    <3>2. n \notin Ids(H[<<t.hash, t.ver>>])
      <4>1. Fit(H[<<t.hash, t.ver>>], B, n)
        BY <1>1, <3>1 DEF HistFits
      <4> QED BY <1>2, <4>1 DEF Fit
    <3>3. Explains(t.doc, H[<<t.hash, t.ver>>], Pends(t))
      BY <1>1, <2>2 DEF TabOK
    <3> QED BY <1>1, <1>12, <3>2, <3>3, ExplainsEditAll
  <2> QED BY <1>14, <2>1, <2>2 DEF TabOK
<1>16. ThreadsOK(C, H, n + 1, brd, t2, rq)
  <2> SUFFICES ASSUME NEW h \in Threads PROVE ThreadOK(C, H, n + 1, brd, t2, rq[h])
    BY DEF ThreadsOK
  <2>1. ThreadOK(B, H, n, brd, t, rq[h])
    BY <1>1 DEF ThreadsOK
  <2>2. rq[h].step = "put" /\ rq[h].hash \in DOMAIN brd /\ rq[h].ver = brd[rq[h].hash].ver => Elsewhere(rq[h].sent, rq[h].hash, brd)
    BY <2>1 DEF ThreadOK, PutOK
  <2>3. ThreadOK(C, H, n + 1, brd, t, rq[h])
    BY <1>1, <1>6, <2>1, <2>2, ThreadLater
  <2> QED BY <1>1, <1>12, <2>1, <2>3, ThreadModified
<1>17. Distinct(rq, t2)
  BY <1>1, <1>14 DEF Distinct
<1> QED BY <1>1, <1>2, <1>7, <1>8, <1>10, <1>14, <1>15, <1>16, <1>17 DEF World

\* The user edits.
LEMMA EditStep ==
  ASSUME IInv, NEW do, NEW id \in Ids(tab.doc), NEW arg \in Args(do), Edit(do, id, arg)
  PROVE  IInv'
<1> PICK B, H : Inv(B, H, next, board, tab, req, proc, shown)
  BY DEF IInv
<1> DEFINE e == [do |-> do, id |-> id, arg |-> arg, n |-> next]
           C == Numbered(B, next)
           t2 == [tab EXCEPT !.doc = Applied(tab.doc, e), !.pend = Append(@, e)]
<1>1. World(B, H, next, board, tab, req) /\ Party(proc, req, UidsOn(board), shown) /\ DOMAIN req = Threads
  BY DEF Inv
<1>2. do \in {"open", "go", "close", "place"} /\ Applies(tab.doc, e) /\ tab' = t2 /\ next' = next + 1
      /\ UNCHANGED <<board, proc, req, shown>>
  BY EditsAssumption DEF Edit
<1>3. next \in Nat /\ Fit(tab.doc, B, next) /\ TabFits(B, next, tab) /\ 0 < next
  <2>1. next \in Nat /\ TabFits(B, next, tab)
    BY <1>1 DEF World
  <2>2. 0 < tab.hash /\ tab.hash < next /\ tab.hash \in Nat
    BY <2>1, PendIs
  <2> QED BY <2>1, <2>2 DEF TabFits
<1>4. id \in Nat /\ 0 < id /\ id < next + 1 /\ next < next + 1 /\ Ids(tab.doc) \subseteq Nat
  <2>1. Ids(tab.doc) \subseteq Nat \ {0} /\ id < next
    BY <1>3, DocIs DEF Fit
  <2> QED BY <1>3, <2>1
<1>5. /\ do = "open" => arg \in Nodes
      /\ do = "go" => arg \in Nodes \union {None}
      /\ arg \in Nat \union Nodes \union TileSet
  BY <1>2, <1>4 DEF Args, None
<1>6. e.do = do /\ e.id = id /\ e.arg = arg /\ e.n = next
  OBVIOUS
<1>7. e \in EditSet
  BY <1>2, <1>3, <1>4, <1>5 DEF EditSet
<1> HIDE DEF e
<1>8. C[next] = <<"folder", None>>
  BY <1>3 DEF Numbered
<1> HIDE DEF C
<1>9. EditFits(e, C, next + 1)
  BY <1>2, <1>3, <1>4, <1>5, <1>6, <1>7, <1>8 DEF EditFits
<1>10. World(C, H, next + 1, board, t2, req)
  <2>1. TabFits(C, next, tab) /\ TabFits(C, next + 1, tab)
    BY <1>1, NumberedIs DEF C
  <2>2. Modifies(C, next, tab, t2, e)
    <3>1. e.n = next /\ e.do # "server"
      BY <1>2, <1>6
    <3> QED BY <1>2, <1>3, <1>9, <2>1, <3>1, TabModified
  <2> HIDE DEF t2
  <2> QED BY <1>1, <2>2, EditWorld DEF C
<1>11. Inv(C, H, next', board', tab', req', proc', shown')
  BY <1>1, <1>2, <1>10 DEF Inv
<1> QED BY <1>11 DEF IInv

\* A tab that shows a board as it is.
Loaded(brd, g, t, t2) ==
  /\ g \in DOMAIN brd /\ t2 = [hash |-> g, ver |-> brd[g].ver, doc |-> brd[g].doc, pend |-> <<>>, gen |-> t.gen + 1]

LEMMA LoadWorld ==
  ASSUME NEW B, NEW H, NEW n, NEW brd, NEW t, NEW rq, World(B, H, n, brd, t, rq), NEW g, NEW t2, Loaded(brd, g, t, t2)
  PROVE  World(B, H, n, brd, t2, rq)
<1>1. /\ n \in Nat /\ BoardsFit(B, n, brd) /\ HistFits(B, H, n, brd)
      /\ TabFits(B, n, t) /\ ThreadsOK(B, H, n, brd, t, rq) /\ Distinct(rq, t)
  BY DEF World
<1>2. t2.hash = g /\ t2.ver = brd[g].ver /\ t2.doc = brd[g].doc /\ t2.pend = <<>> /\ t2.gen = t.gen + 1 /\ g \in DOMAIN brd
  BY DEF Loaded
<1>3. g \in Nat \ {0} /\ g < n /\ brd[g].ver \in Nat \ {0} /\ Fit(brd[g].doc, B, n)
  BY <1>1, <1>2 DEF BoardsFit
<1>4. t.gen \in Nat /\ t.gen + 1 \in Nat
  BY <1>1, PendIs
<1>5. Pends(t2) = {} /\ OpenIds(Pends(t2)) = {} /\ ServerIds(Pends(t2)) = {}
  BY <1>2 DEF Pends, ToSet, OpenIds, ServerIds
<1>6. TabFits(B, n, t2)
  <2>1. brd[g].doc \in DocSet
    BY <1>3 DEF Fit
  <2>2. <<>> \in Seq(EditSet) /\ Len(t2.pend) = 0
    BY <1>2
  <2>3. t2 \in TabSet
    BY <1>3, <1>4, <2>1, <2>2 DEF TabSet, Loaded
  <2>4. 0 < g
    BY <1>3
  <2>5. 1 .. Len(t2.pend) = {}
    BY <2>2
  <2> QED BY <1>2, <1>3, <2>3, <2>4, <2>5 DEF TabFits, NoReopen
<1>7. TabOK(H, brd, t2)
  <2>1. Elsewhere(Pends(t2), g, brd)
    BY <1>5 DEF Elsewhere
  <2>2. Explains(brd[g].doc, brd[g].doc, Pends(t2))
    BY <1>5 DEF Explains, OfType, Ids
  <2>3. H[<<g, brd[g].ver>>] = brd[g].doc /\ brd[g].ver <= brd[g].ver
    BY <1>1, <1>2, <1>3 DEF HistFits
  <2> QED BY <1>2, <2>1, <2>2, <2>3 DEF TabOK
<1>8. ThreadsOK(B, H, n, brd, t2, rq)
  <2> SUFFICES ASSUME NEW h \in Threads PROVE ThreadOK(B, H, n, brd, t2, rq[h])
    BY DEF ThreadsOK
  <2> DEFINE r == rq[h]
  <2>1. ThreadOK(B, H, n, brd, t, r)
    BY <1>1 DEF ThreadsOK
  <2> HIDE DEF r
  <2>2. PutLike(r) => r.gen \in Nat /\ r.gen <= t2.gen /\ r.gen # t2.gen
    <3>1. PutLike(r) => r.gen \in Nat /\ r.gen <= t.gen
      BY <2>1 DEF ThreadOK
    <3> QED BY <1>2, <1>4, <3>1
  <2>3. ASSUME r.step = "put" PROVE PutOK(B, H, n, brd, t2, r)
    <3>1. PutOK(B, H, n, brd, t, r)
      BY <2>1, <2>3 DEF ThreadOK
    <3>2. r.gen # t2.gen
      BY <2>2, <2>3, <3>1 DEF PutLike, PutOK
    <3> QED BY <1>5, <3>1, <3>2 DEF PutOK
  <2>4. \A a : AnswerOK(B, H, n, brd, t, a) /\ a.gen # t2.gen => AnswerOK(B, H, n, brd, t2, a)
    BY DEF AnswerOK
  <2>5. ASSUME r.step = "publish", r.op = "put" PROVE AnswerOK(B, H, n, brd, t2, r.reply)
    <3>1. AnswerOK(B, H, n, brd, t, r.reply) /\ r.reply.gen = r.gen
      BY <2>1, <2>5 DEF ThreadOK
    <3> QED BY <2>2, <2>4, <2>5, <3>1 DEF PutLike
  <2>6. ASSUME r.step = "reply", r.op = "put" PROVE AnswerOK(B, H, n, brd, t2, r)
    <3>1. AnswerOK(B, H, n, brd, t, r)
      BY <2>1, <2>6 DEF ThreadOK
    <3> QED BY <2>2, <2>4, <2>6, <3>1 DEF PutLike
  <2>7. ThreadOK(B, H, n, brd, t2, r)
    BY <2>1, <2>2, <2>3, <2>5, <2>6 DEF ThreadOK
  <2> QED BY <2>7 DEF r
<1>9. Distinct(rq, t2)
  BY <1>1, <1>5 DEF Distinct
<1> QED BY <1>6, <1>7, <1>8, <1>9 DEF World

\* The tab loads a board.
LEMMA LoadStep ==
  ASSUME IInv, NEW g, Load(g)
  PROVE  IInv'
<1> PICK B, H : Inv(B, H, next, board, tab, req, proc, shown)
  BY DEF IInv
<1>1. World(B, H, next, board, tab, req) /\ Party(proc, req, UidsOn(board), shown) /\ DOMAIN req = Threads
  BY DEF Inv
<1>2. Loaded(board, g, tab, tab') /\ UNCHANGED <<board, proc, req, shown, next>>
  BY DEF Load, Loaded
<1>3. World(B, H, next, board, tab', req)
  BY <1>1, <1>2, LoadWorld
<1>4. Inv(B, H, next', board', tab', req', proc', shown')
  BY <1>1, <1>2, <1>3 DEF Inv
<1> QED BY <1>4 DEF IInv

\* A running process changes and no request and no board does.
Shifts(pr, pr2, U, p) ==
  /\ p \in Procs /\ pr[p].st = "live" /\ pr2 \in [Procs -> ProcSet] /\ \A q \in Procs \ {p} : pr2[q] = pr[q]
  /\ pr2[p].st \in {"live", "ended"}
  /\ pr2[p].st = "live" /\ pr2[p].kill = "asked" => p \in U

LEMMA ShiftParty ==
  ASSUME NEW pr, NEW rq, NEW U, NEW sh, Party(pr, rq, U, sh), NEW pr2, NEW p, Shifts(pr, pr2, U, p)
  PROVE  Party(pr2, rq, U, sh)
<1>1. /\ p \in Procs /\ pr[p].st = "live" /\ pr2 \in [Procs -> ProcSet] /\ (\A q \in Procs \ {p} : pr2[q] = pr[q])
      /\ pr2[p].st \in {"live", "ended"} /\ (pr2[p].st = "live" /\ pr2[p].kill = "asked" => p \in U)
  BY DEF Shifts
<1>2. ASSUME NEW q \in Procs
      PROVE /\ pr[q].st \in {"live", "ended"} => pr2[q].st \in {"live", "ended"}
            /\ pr[q].st \in {"ended", "gone"} => pr2[q] = pr[q]
            /\ pr[q].st # "none" => pr2[q].st # "none"
            /\ pr2[q].st = "none" => pr2[q] = pr[q]
            /\ pr2[q].st = "live" /\ pr2[q].kill = "asked" => q \in U \/ (pr2[q] = pr[q])
  <2>1. CASE q = p
    BY <1>1, <2>1
  <2>2. CASE q # p
    BY <1>1, <2>2
  <2> QED BY <2>1, <2>2
<1>3. /\ U \subseteq Procs /\ (\A q \in U : pr2[q].st \in {"live", "ended"}) /\ sh \subseteq U
      /\ \A q \in Procs : pr2[q].st = "none" => pr2[q].kill = "no"
  BY <1>2 DEF Party
<1>4. ASSUME NEW h \in Threads, NEW q \in Procs
      PROVE  /\ AddsTo(rq[h], q) => pr2[q].st \in {"live", "ended"}
             /\ PurgesOf(rq[h], q) => pr2[q].st \in {"ended", "gone"} /\ \A k \in Threads : ~AddsTo(rq[k], q)
  <2>1. /\ AddsTo(rq[h], q) => pr[q].st \in {"live", "ended"}
        /\ PurgesOf(rq[h], q) => pr[q].st \in {"ended", "gone"} /\ \A k \in Threads : ~AddsTo(rq[k], q)
    BY DEF Party
  <2> QED BY <1>2, <2>1
<1>5. ASSUME NEW h \in Threads PROVE AskOK(pr2, U, rq[h])
  <2>1. AskOK(pr, U, rq[h])
    BY DEF Party
  <2> QED BY <1>2, <2>1 DEF AskOK
<1>6. \A q \in Procs : pr2[q].st = "live" /\ pr2[q].kill = "asked" =>
        q \in U \/ \E h \in Threads : rq[h].step = "publish" /\ q \in rq[h].closed
  BY <1>2 DEF Party
<1>7. \A h, k \in Threads : rq[h].step = "ask" /\ rq[k].step = "ask" /\ rq[h].op = "exec" =>
       /\ rq[k].op # "get"
       /\ rq[k].op \in {"exec", "take"} /\ h # k => rq[k].uid # rq[h].uid
  BY DEF Party
<1> QED BY <1>1, <1>3, <1>4, <1>5, <1>6, <1>7 DEF Party

LEMMA ProcTo ==
  ASSUME NEW pr \in [Procs -> ProcSet], NEW p \in Procs, NEW pr2
  PROVE  /\ \A k \in {"no", "asked", "late", "forced"} : pr2 = [pr EXCEPT ![p].kill = k] =>
              /\ pr2 \in [Procs -> ProcSet] /\ pr2[p].st = pr[p].st /\ pr2[p].kill = k /\ \A q \in Procs \ {p} : pr2[q] = pr[q]
         /\ pr2 = [pr EXCEPT ![p].st = "ended"] =>
              /\ pr2 \in [Procs -> ProcSet] /\ pr2[p].st = "ended" /\ \A q \in Procs \ {p} : pr2[q] = pr[q]
<1>1. ASSUME NEW k \in {"no", "asked", "late", "forced"}, pr2 = [pr EXCEPT ![p].kill = k]
      PROVE  /\ pr2 \in [Procs -> ProcSet] /\ pr2[p].st = pr[p].st /\ pr2[p].kill = k /\ \A q \in Procs \ {p} : pr2[q] = pr[q]
  <2>1. pr[p] \in ProcSet
    OBVIOUS
  <2>2. [pr[p] EXCEPT !.kill = k] \in ProcSet /\ [pr[p] EXCEPT !.kill = k].st = pr[p].st /\ [pr[p] EXCEPT !.kill = k].kill = k
    BY <2>1 DEF ProcSet
  <2> HIDE DEF ProcSet
  <2> QED BY <1>1, <2>2
<1>2. ASSUME pr2 = [pr EXCEPT ![p].st = "ended"]
      PROVE  /\ pr2 \in [Procs -> ProcSet] /\ pr2[p].st = "ended" /\ \A q \in Procs \ {p} : pr2[q] = pr[q]
  <2>1. pr[p] \in ProcSet
    OBVIOUS
  <2>2. [pr[p] EXCEPT !.st = "ended"] \in ProcSet /\ [pr[p] EXCEPT !.st = "ended"].st = "ended"
    BY <2>1 DEF ProcSet
  <2> HIDE DEF ProcSet
  <2> QED BY <1>2, <2>2
<1> QED BY <1>1, <1>2

LEMMA ShiftStep ==
  ASSUME IInv, NEW p, Shifts(proc, proc', UidsOn(board), p), UNCHANGED <<board, req, tab, shown, next>>
  PROVE  IInv'
<1> PICK B, H : Inv(B, H, next, board, tab, req, proc, shown)
  BY DEF IInv
<1>1. World(B, H, next, board, tab, req) /\ Party(proc, req, UidsOn(board), shown) /\ DOMAIN req = Threads
  BY DEF Inv
<1>2. Party(proc', req, UidsOn(board), shown)
  BY <1>1, ShiftParty
<1>3. Inv(B, H, next', board', tab', req', proc', shown')
  BY <1>1, <1>2 DEF Inv
<1> QED BY <1>3 DEF IInv

\* The end of a process is asked for.
LEMMA KillStep ==
  ASSUME IInv, NEW p \in Procs, Kill(p)
  PROVE  IInv'
<1>1. proc \in [Procs -> ProcSet]
  BY PartyIs DEF Party
<1> DEFINE U == UidsOn(board)
           k == IF p \in U THEN "asked" ELSE "late"
<1>2. proc[p].st = "live" /\ proc' = [proc EXCEPT ![p].kill = k] /\ UNCHANGED <<board, req, tab, shown, next>>
  BY DEF Kill, IsLive, OnBoards, UidsOn
<1>3. k \in {"no", "asked", "late", "forced"} /\ (k = "asked" => p \in U)
  OBVIOUS
<1> HIDE DEF U, k
<1>4. /\ proc' \in [Procs -> ProcSet] /\ proc'[p].st = proc[p].st /\ proc'[p].kill = k
      /\ \A q \in Procs \ {p} : proc'[q] = proc[q]
  BY <1>1, <1>2, <1>3, ProcTo
<1>5. Shifts(proc, proc', U, p)
  BY <1>2, <1>3, <1>4 DEF Shifts
<1> QED BY <1>2, <1>5, ShiftStep DEF U

\* A process ends.
LEMMA EndsStep ==
  ASSUME IInv, NEW p \in Procs, Ends(p)
  PROVE  IInv'
<1>1. proc \in [Procs -> ProcSet]
  BY PartyIs DEF Party
<1>2. proc[p].st = "live" /\ proc' = [proc EXCEPT ![p].st = "ended"] /\ UNCHANGED <<board, req, tab, shown, next>>
  BY DEF Ends, IsLive
<1>3. proc' \in [Procs -> ProcSet] /\ proc'[p].st = "ended" /\ \A q \in Procs \ {p} : proc'[q] = proc[q]
  BY <1>1, <1>2, ProcTo
<1>4. Shifts(proc, proc', UidsOn(board), p)
  BY <1>2, <1>3 DEF Shifts
<1> QED BY <1>2, <1>4, ShiftStep

----------
\* The first board.
LEMMA FirstDoc ==
  ASSUME NEW d, d = Marshal(NewDoc(1), 1)
  PROVE  /\ d \in DocSet /\ IsValid(d) /\ Ids(d) = {1} /\ d.tiles[1].type = "folder" /\ d.tiles[1].uid = 1
         /\ d.tiles[1].bound = FALSE /\ What(d.tiles[1]) = <<"folder", None>>
<1> DEFINE t == Tile("folder", None, None)
           c == NewDoc(1)
           f == [k \in {1} |-> t]
<1>1. t \in TileSet /\ t.type = "folder" /\ t.parent = 0 /\ t.uid = None /\ t.bound = FALSE /\ What(t) = <<"folder", None>>
  <2>1. "folder" \in Kinds /\ None \in UIDs /\ None \in Nat
    BY UidsAre DEF Kinds, None
  <2> QED BY <2>1 DEF Tile, TileSet, What, None
<1> HIDE DEF t
<1>2. f \in [{1} -> TileSet] /\ f[1] = t /\ DOMAIN f = {1}
  BY <1>1
<1>3. c = [root |-> 1, order |-> <<1>>, tiles |-> f]
  BY DEF NewDoc, t
<1> HIDE DEF f, c
<1>4. c \in DocSet
  <2>1. 1 \in Nat /\ <<1>> \in Seq(Nat) /\ {1} \in SUBSET (Nat \ {0})
    OBVIOUS
  <2>2. [root |-> 1, order |-> <<1>>, tiles |-> f] \in DocSet
    BY <1>2, <2>1, DocMake
  <2> QED BY <1>3, <2>2
<1>5. c.root = 1 /\ c.order = <<1>> /\ c.tiles = f /\ Ids(c) = {1}
  BY <1>2, <1>3 DEF Ids
<1>6. Rooted(c)
  BY <1>1, <1>2, <1>5 DEF Rooted, Reach, CanRoot, None
<1>7. Listed(c)
  <2>1. Len(<<1>>) = 1 /\ <<1>>[1] = 1
    OBVIOUS
  <2>2. \A k : Contains(<<1>>, k) <=> k = 1
    BY DEF Contains
  <2>3. Once(<<1>>)
    BY DEF Once
  <2> QED BY <1>5, <2>1, <2>2, <2>3 DEF Listed
<1>8. IsValid(c)
  BY <1>4, <1>6, <1>7, ValidIs
<1>9. d = Marshal(c, 1)
  BY DEF c
<1>10. /\ d \in DocSet /\ SameShape(c, d)
       /\ What(d.tiles[1]) = What(c.tiles[1]) /\ d.tiles[1].type = c.tiles[1].type
       /\ d.tiles[1].bound = c.tiles[1].bound
       /\ d.tiles[1].uid = IF c.tiles[1].type = "folder" /\ c.tiles[1].uid = None THEN 1 ELSE c.tiles[1].uid
  <2>1. 1 \in Nat /\ 1 \in Ids(c)
    BY <1>5
  <2> QED BY <1>4, <1>9, <2>1, MarshalIs
<1>11. IsValid(d)
  BY <1>4, <1>8, <1>10, ShapeValid
<1> QED BY <1>1, <1>2, <1>5, <1>10, <1>11 DEF SameShape

LEMMA InitWorld ==
  ASSUME NEW brd, NEW d, d = Marshal(NewDoc(1), 1), DOMAIN brd = {Default}, brd[Default].doc = d, brd[Default].ver = 1,
         NEW t, t = [hash |-> Default, ver |-> 1, doc |-> d, pend |-> <<>>, gen |-> 0],
         NEW rq, \A h \in Threads : rq[h] = Idle
  PROVE  \E B, H : World(B, H, 2, brd, t, rq)
<1> DEFINE B == [k \in Nat |-> <<"folder", None>>]
           H == [x \in Nat \X Nat |-> d]
<1>1. /\ d \in DocSet /\ IsValid(d) /\ Ids(d) = {1} /\ d.tiles[1].type = "folder" /\ d.tiles[1].uid = 1
      /\ d.tiles[1].bound = FALSE /\ What(d.tiles[1]) = <<"folder", None>> /\ Default = 1
  BY FirstDoc DEF Default
<1>2. Fit(d, B, 2)
  BY <1>1 DEF Fit
<1>3. \A x \in Nat \X Nat : H[x] = d
  OBVIOUS
<1>4. BoardsFit(B, 2, brd)
  <2>1. 1 \in Nat \ {0} /\ 1 < 2
    OBVIOUS
  <2> QED BY <1>1, <1>2, <2>1 DEF BoardsFit
<1>5. HistFits(B, H, 2, brd)
  <2>1. \A g, v \in Nat : H[<<g, v>>] = d
    OBVIOUS
  <2>2. 1 \in Nat
    OBVIOUS
  <2> QED BY <1>1, <1>2, <2>1, <2>2 DEF HistFits
<1>6. AllOf(brd) = {1} /\ \A g \in DOMAIN brd : brd[g].doc = d /\ OfType(d, "folder") = {1}
  BY <1>1 DEF AllOf, OfType, Default
<1>7. Sound(B, brd) /\ PinsOnce(brd)
  BY <1>1, <1>6 DEF Sound, PinsOnce
<1>8. World(B, H, 2, brd, t, rq)
  <2> HIDE DEF B, H
  <2>1. /\ t.hash = 1 /\ t.ver = 1 /\ t.doc = d /\ t.pend = <<>> /\ t.gen = 0
    BY <1>1
  <2>2. Pends(t) = {} /\ OpenIds(Pends(t)) = {} /\ ServerIds(Pends(t)) = {}
    BY <2>1 DEF Pends, ToSet, OpenIds, ServerIds
  <2>3. TabFits(B, 2, t)
    <3>1. <<>> \in Seq(EditSet) /\ Len(t.pend) = 0 /\ 1 .. Len(t.pend) = {}
      BY <2>1
    <3>2. t \in TabSet
      BY <1>1, <3>1 DEF TabSet
    <3>3. 0 < 1 /\ 1 < 2
      OBVIOUS
    <3> QED BY <1>2, <2>1, <3>1, <3>2, <3>3 DEF TabFits, NoReopen
  <2>4. TabOK(H, brd, t)
    <3>1. H[<<1, 1>>] = d /\ 1 <= 1
      BY <1>1, <1>5 DEF HistFits
    <3>2. Explains(d, d, Pends(t)) /\ Elsewhere(Pends(t), 1, brd)
      BY <2>2 DEF Explains, OfType, Ids, Elsewhere
    <3> QED BY <1>1, <2>1, <3>1, <3>2 DEF TabOK
  <2>5. \A h \in Threads : ThreadOK(B, H, 2, brd, t, rq[h]) /\ ~PutLike(rq[h]) /\ ~Telling(rq[h]) /\ rq[h].step = "idle"
    BY IdleIs
  <2>6. ThreadsOK(B, H, 2, brd, t, rq) /\ Distinct(rq, t)
    BY <2>5 DEF ThreadsOK, Distinct
  <2>7. 2 \in Nat
    OBVIOUS
  <2> QED BY <1>4, <1>5, <1>7, <2>3, <2>4, <2>6, <2>7 DEF World
<1> QED BY <1>8

\* The invariant holds at the start: one board with its root.
LEMMA InitIs ==
  ASSUME Init
  PROVE  IInv
<1> DEFINE d == Marshal(NewDoc(1), 1)
<1>1. /\ board = [g \in {Default} |-> [doc |-> d, ver |-> 1]]
      /\ proc = [p \in Procs |-> [st |-> "none", kill |-> "no"]]
      /\ req = [h \in Threads |-> Idle] /\ shown = {} /\ next = 2
      /\ tab = [hash |-> Default, ver |-> 1, doc |-> board[Default].doc, pend |-> <<>>, gen |-> 0]
  BY DEF Init
<1>2. Ids(d) = {1} /\ d.tiles[1].type = "folder"
  BY FirstDoc
<1> HIDE DEF d
<1>3. DOMAIN board = {Default} /\ board[Default].doc = d /\ board[Default].ver = 1
  BY <1>1
<1>4. tab = [hash |-> Default, ver |-> 1, doc |-> d, pend |-> <<>>, gen |-> 0] /\ \A h \in Threads : req[h] = Idle
  BY <1>1, <1>3
<1>5. PICK B, H : World(B, H, 2, board, tab, req)
  BY <1>3, <1>4, InitWorld DEF d
<1>6. UidsOn(board) = {}
  <2>1. \A p : p \notin UidsOn(board)
    BY <1>2, <1>3, UidsOnHas DEF OfType
  <2> QED BY <2>1
<1>7. Party(proc, req, {}, {})
  <2>1. \A h \in Threads : \A p : req[h].step = "idle" /\ ~AddsTo(req[h], p) /\ ~PurgesOf(req[h], p)
    BY <1>4, IdleIs DEF AddsTo
  <2>2. proc \in [Procs -> ProcSet] /\ \A p \in Procs : proc[p].st = "none" /\ proc[p].kill = "no"
    BY <1>1 DEF ProcSet
  <2> QED BY <2>1, <2>2 DEF Party, AskOK
<1>8. DOMAIN req = Threads
  BY <1>1
<1>9. Inv(B, H, next, board, tab, req, proc, shown)
  BY <1>1, <1>5, <1>6, <1>7, <1>8 DEF Inv
<1> QED BY <1>9 DEF IInv

----------
(* An exec speaks of the board the tab shows.                              *)

\* The board goes neither from the tab nor back to the account, and the one request
\* that changes is right about it.
Quiet(h) ==
  /\ tab'.hash = tab.hash /\ (tab.hash \in DOMAIN board' => tab.hash \in DOMAIN board)
  /\ \A k \in Threads \ {h} : req'[k] = req[k]
  /\ HereOf(req'[h], tab.hash, DOMAIN board')

LEMMA HereNext ==
  ASSUME Here, NEW h \in Threads, Quiet(h)
  PROVE  Here'
<1> SUFFICES ASSUME NEW k \in Threads PROVE HereOf(req'[k], tab'.hash, DOMAIN board')
  BY DEF Here
<1>1. CASE k = h
  BY <1>1 DEF Quiet
<1>2. CASE k # h
  <2>1. HereOf(req[k], tab.hash, DOMAIN board) /\ req'[k] = req[k]
    BY <1>2 DEF Here, Quiet
  <2> QED BY <2>1 DEF HereOf, Quiet
<1> QED BY <1>1, <1>2

LEMMA StepIs ==
  ASSUME IInv, NEW h \in Threads, NEW r, Step(h, r)
  PROVE  req'[h] = r /\ \A k \in Threads \ {h} : req'[k] = req[k]
<1> QED BY DEF Step, IInv, Inv

\* A request ends, or goes on as no exec.
LEMMA EndQuiet ==
  ASSUME IInv, Here, NEW h \in Threads, NEW r, Step(h, r), tab'.hash = tab.hash, DOMAIN board' = DOMAIN board,
         r.step \in {"ask", "publish", "reply"} => r.op # "exec"
  PROVE  Here'
<1>1. HereOf(r, tab.hash, DOMAIN board')
  BY DEF HereOf
<1> QED BY <1>1, StepIs, HereNext DEF Quiet

LEMMA NothingQuiet ==
  ASSUME IInv, Here, NEW h \in Threads, Nothing(h)
  PROVE  Here'
<1>1. Idle.step = "idle"
  BY DEF Idle
<1> QED BY <1>1, EndQuiet DEF Nothing, End

LEMMA CommitQuiet ==
  ASSUME IInv, Here, NEW h \in Threads, NEW docs, NEW gone, NEW ids, NEW mine, NEW reply, Commit(h, docs, gone, ids, mine, reply),
         DOMAIN docs \subseteq DOMAIN board, req[h].op = "exec" => reply.hash = tab.hash \/ tab.hash \notin DOMAIN board
  PROVE  Here'
<1> DEFINE saved == [g \in DOMAIN docs |-> Saved(g, docs[g])]
           r == [step |-> "publish", op |-> req[h].op, saved |-> saved, mine |-> mine,
                 closed |-> {}, uid |-> req[h].uid, reply |-> reply, gen |-> tab.gen]
<1>1. Step(h, r) /\ tab' = tab
  BY DEF Commit, Done
<1>2. DOMAIN board' = (DOMAIN board \union DOMAIN docs) \ gone
  BY DEF Commit
<1>3. r.step = "publish" /\ r.op = req[h].op /\ r.reply = reply
  OBVIOUS
<1> HIDE DEF r
<1>4. HereOf(r, tab.hash, DOMAIN board')
  BY <1>2, <1>3 DEF HereOf
<1> QED BY <1>1, <1>2, <1>4, StepIs, HereNext DEF Quiet

LEMMA Boarded == ASSUME IInv PROVE Default \in DOMAIN board /\ tab.hash \in Nat /\ tab.hash < next /\ DOMAIN req = Threads
<1> PICK B, H : Inv(B, H, next, board, tab, req, proc, shown)
  BY DEF IInv
<1> QED BY DEF Inv, World, BoardsFit, TabFits, TabSet

\* Requests that are no exec, once they hold the rows.
LEMMA TileHere ==
  ASSUME IInv, InOrder, Here, NEW h \in Threads,
         AdoptOrphans(h) \/ InsertTerminal(h) \/ AttachSharedFolder(h) \/ OpenVideoTile(h) \/ DeleteWorkspace(h)
  PROVE  Here'
<1>0. Locked(h) = DOMAIN board /\ Default \in DOMAIN board
  BY LockedIs, Boarded
<1>1. ASSUME NEW g \in DOMAIN board, NEW d PROVE DOMAIN On(g, d) \subseteq DOMAIN board
  BY <1>1, OnIs
<1>2. CASE AdoptOrphans(h)
  <2>1. req[h].op # "exec"
    BY <1>2 DEF AdoptOrphans, Holds
  <2> DEFINE orphans == SetToSeq(req[h].procs \ LockedUIDs(h))
             d == board[Default].doc
             tile(k) == [Tile("terminal", None, orphans[k - next]) EXCEPT !.parent = d.root]
             ids == [i \in DOMAIN orphans |-> next + i]
             e == Add(d, PlaceAfter(d, None, Reverse(ids)), ToSet(ids), tile)
  <2>2. Nothing(h) \/ Commit(h, On(Default, e), {}, Len(orphans), FALSE, NoReply)
    BY <1>2 DEF AdoptOrphans
  <2> HIDE DEF e, orphans
  <2> QED BY <1>0, <1>1, <2>1, <2>2, NothingQuiet, CommitQuiet
<1>3. CASE InsertTerminal(h)
  <2>1. req[h].op # "exec"
    BY <1>3 DEF InsertTerminal, Holds
  <2> DEFINE p == req[h].uid
             docs == [g \in Locked(h) |-> board[g].doc]
             e(c) == OpenTile(docs[c[1]], c[2], next, Tile("terminal", None, p))
  <2>2. Nothing(h) \/ \E c : c[1] = tab.hash /\ c \in BindingTile(docs, Folders) /\ Commit(h, On(c[1], e(c)), {}, 1, FALSE, NoReply)
    BY <1>3 DEF InsertTerminal
  <2>3. CASE Nothing(h)
    BY <2>3, NothingQuiet
  <2>4. ASSUME NEW c, c \in BindingTile(docs, Folders), Commit(h, On(c[1], e(c)), {}, 1, FALSE, NoReply) PROVE Here'
    <3>1. c[1] \in DOMAIN board
      BY <1>0, <2>4, BindingIs
    <3> HIDE DEF e
    <3> QED BY <1>1, <2>1, <2>4, <3>1, CommitQuiet
  <2> QED BY <2>2, <2>3, <2>4
<1>4. CASE AttachSharedFolder(h)
  <2>1. req[h].op # "exec"
    BY <1>4 DEF AttachSharedFolder, Holds
  <2> DEFINE docs == [g \in Locked(h) |-> board[g].doc]
             known == \E g \in Locked(h) : \E k \in OfType(docs[g], "folder") : docs[g].tiles[k].uid = -1
             e(n) == OpenTile(docs[Default], None, next, Tile("folder", n, IF known THEN None ELSE -1))
  <2>2. \E n \in Nodes : Nothing(h) \/ Commit(h, On(Default, e(n)), {}, 1, FALSE, NoReply)
    BY <1>4 DEF AttachSharedFolder
  <2> HIDE DEF e
  <2> QED BY <1>0, <1>1, <2>1, <2>2, NothingQuiet, CommitQuiet
<1>5. CASE OpenVideoTile(h)
  <2>1. req[h].op # "exec"
    BY <1>5 DEF OpenVideoTile, Holds
  <2> DEFINE g == IF req[h].hash \in Locked(h) THEN req[h].hash ELSE Default
             e == OpenTile(board[g].doc, req[h].at, next, Tile("viewer", None, req[h].uid))
             reply == [ver |-> board[g].ver + 1, id |-> next, hash |-> g, tile |-> e.tiles[next]]
  <2>2. Nothing(h) \/ Commit(h, On(g, e), {}, 1, TRUE, reply)
    BY <1>5 DEF OpenVideoTile
  <2>3. g \in DOMAIN board
    BY <1>0
  <2> HIDE DEF g, e, reply
  <2> QED BY <1>1, <2>1, <2>2, <2>3, NothingQuiet, CommitQuiet
<1>6. CASE DeleteWorkspace(h)
  <2>1. req[h].op # "exec"
    BY <1>6 DEF DeleteWorkspace, Holds
  <2> DEFINE e(g) == PutOpened(board[Default].doc, None, board[g].doc, board[g].doc.root)
  <2>2. \E g : Commit(h, On(Default, e(g)), {g}, 0, FALSE, NoReply)
    BY <1>6 DEF DeleteWorkspace
  <2> HIDE DEF e
  <2> QED BY <1>0, <1>1, <2>1, <2>2, CommitQuiet
<1> QED BY <1>2, <1>3, <1>4, <1>5, <1>6

\* Those that write more than one board.
LEMMA BoardsHere ==
  ASSUME IInv, InOrder, Here, NEW h \in Threads,
         BindTile(h) \/ BindProcessTile(h) \/ MoveWorkspaceTile(h) \/ PurgeTiles(h)
  PROVE  Here'
<1>0. Locked(h) = DOMAIN board
  BY LockedIs
<1>1. CASE BindTile(h)
  <2>1. req[h].op # "exec"
    BY <1>1 DEF BindTile, Holds
  <2>2. PICK g, id : Commit(h, Pinned(h, g, id, board[g].doc.tiles[id].node), {}, 0, FALSE, NoReply)
    BY <1>1 DEF BindTile
  <2> DEFINE docs == Pinned(h, g, id, board[g].doc.tiles[id].node)
  <2>3. DOMAIN docs \subseteq DOMAIN board
    BY <1>0 DEF Pinned
  <2> HIDE DEF docs
  <2>4. Commit(h, docs, {}, 0, FALSE, NoReply)
    BY <2>2 DEF docs
  <2> QED BY <2>1, <2>3, <2>4, CommitQuiet
<1>2. CASE BindProcessTile(h)
  <2>1. req[h].op # "exec"
    BY <1>2 DEF BindProcessTile, Holds
  <2>0. PICK g \in DOMAIN board : \E at : MoveTerminal(h, g, at)
    BY <1>0, <1>2 DEF BindProcessTile
  <2>2. PICK at : MoveTerminal(h, g, at)
    BY <2>0
  <2>3. \/ Nothing(h)
        \/ \E docs, ids : DOMAIN docs \subseteq DOMAIN board /\ Commit(h, docs, {}, ids, FALSE, NoReply)
    <3> DEFINE p == req[h].uid
               to == board[g].doc
               opener == IF at \in Ids(to) /\ CanParent(to.tiles[at]) THEN at ELSE to.root
               from == {b \in Locked(h) : TerminalOf(board[b].doc, p) # {}}
               id(b) == TheTile(board[b].doc, p)
               t(b) == board[b].doc.tiles[id(b)]
               rest(b) == RemoveTile(board[b].doc, id(b))
               one == On(g, OpenTile(to, opener, next, Tile("terminal", None, p)))
               two(b) == [k \in {b, g} |-> IF k = g
                                           THEN OpenTile(IF b = g THEN rest(b) ELSE to, opener, id(b), t(b))
                                           ELSE rest(b)]
    <3>1. \/ Nothing(h) \/ Commit(h, one, {}, 1, FALSE, NoReply)
          \/ \E b \in from : Commit(h, two(b), {}, 0, FALSE, NoReply)
      BY <2>2 DEF MoveTerminal
    <3>2. DOMAIN one \subseteq DOMAIN board
      BY OnIs
    <3>3. \A b \in from : DOMAIN two(b) \subseteq DOMAIN board
      BY <1>0
    <3> HIDE DEF one, two
    <3> QED BY <3>1, <3>2, <3>3
  <2> QED BY <2>1, <2>3, NothingQuiet, CommitQuiet
<1>3. CASE MoveWorkspaceTile(h)
  <2>1. req[h].op # "exec"
    BY <1>3 DEF MoveWorkspaceTile, Holds
  <2> DEFINE two(g, b, id, after) ==
               IF g = b THEN On(g, MoveAfter(board[g].doc, id, after))
               ELSE [k \in {g, b} |-> IF k = g THEN TakeOpened(board[g].doc, id)
                                      ELSE PutOpened(board[b].doc, after, board[g].doc, id)]
  <2> DEFINE P(g, b) == \E id \in Ids(board[g].doc) \ {board[g].doc.root},
               after \in Ids(board[b].doc) \union {None} :
               /\ after # id
               /\ IF g = tab.hash /\ board[g].ver # tab.ver THEN Nothing(h)
                  ELSE Commit(h, two(g, b, id, after), {}, 0, FALSE, NoReply)
  <2>9. \E g, b \in Locked(h) : P(g, b)
    BY <1>3 DEF MoveWorkspaceTile
  <2> HIDE DEF P
  <2>0. PICK g \in DOMAIN board, b \in DOMAIN board : P(g, b)
    BY <1>0, <2>9
  <2> HIDE DEF two
  <2>2. PICK id, after : Nothing(h) \/ Commit(h, two(g, b, id, after), {}, 0, FALSE, NoReply)
    BY <2>0 DEF P
  <2> USE DEF two
  <2>3. DOMAIN two(g, b, id, after) \subseteq DOMAIN board
    <3>1. CASE g = b
      <4> DEFINE d == MoveAfter(board[g].doc, id, after)
      <4>1. two(g, b, id, after) = On(g, d)
        BY <3>1
      <4> HIDE DEF d, two
      <4>2. DOMAIN On(g, d) = {g}
        BY OnIs
      <4> QED BY <4>1, <4>2
    <3>2. CASE g # b
      <4> DEFINE e(k) == IF k = g THEN TakeOpened(board[g].doc, id) ELSE PutOpened(board[b].doc, after, board[g].doc, id)
      <4>1. two(g, b, id, after) = [k \in {g, b} |-> e(k)]
        BY <3>2
      <4> HIDE DEF e, two
      <4> QED BY <4>1
    <3> QED BY <3>1, <3>2
  <2> HIDE DEF two
  <2> QED BY <2>1, <2>2, <2>3, NothingQuiet, CommitQuiet
<1>4. CASE PurgeTiles(h)
  <2>1. req[h].op # "exec"
    BY <1>4 DEF PurgeTiles, Holds
  <2> DEFINE p == req[h].uid
             has == {g \in Locked(h) : TerminalOf(board[g].doc, p) # {}}
             docs == [g \in has |-> RemoveTile(board[g].doc, TheTile(board[g].doc, p))]
  <2>2. Commit(h, docs, {}, 0, FALSE, NoReply)
    BY <1>4 DEF PurgeTiles
  <2>3. DOMAIN docs \subseteq DOMAIN board
    BY <1>0
  <2> HIDE DEF docs
  <2> QED BY <2>1, <2>2, <2>3, CommitQuiet
<1> QED BY <1>1, <1>2, <1>3, <1>4

\* An exec puts its tile on the board it was asked from, if that is still there.
LEMMA ExecTileHere ==
  ASSUME IInv, InOrder, Here, NEW h \in Threads, AppendTerminalTile(h)
  PROVE  Here'
<1> PICK B, H : Inv(B, H, next, board, tab, req, proc, shown)
  BY DEF IInv
<1> DEFINE p == req[h].uid
           g == IF req[h].hash \in DOMAIN board THEN req[h].hash ELSE Default
           e == OpenTile(board[g].doc, req[h].at, next, Tile("terminal", None, p))
           reply == [ver |-> board[g].ver + 1, id |-> next, hash |-> g, tile |-> e.tiles[next]]
<1>1. Party(proc, req, UidsOn(board), shown) /\ Default \in DOMAIN board
  BY Boarded DEF Inv
<1>2. req[h].step = "ask" /\ req[h].op = "exec"
  BY DEF AppendTerminalTile, Holds
<1>3. p \notin UidsOn(board)
  BY <1>1, <1>2 DEF Party, AskOK
<1>4. {b \in Locked(h) : TerminalOf(board[b].doc, p) # {}} = {}
  BY <1>3, Free, LockedIs
<1>5. Commit(h, On(g, e), {}, 1, TRUE, reply)
  BY <1>4, LockedIs DEF AppendTerminalTile
<1>6. req[h].hash = tab.hash
  BY <1>2 DEF Here, HereOf
<1>7. g \in DOMAIN board
  BY <1>1
<1>8. reply.hash = tab.hash \/ tab.hash \notin DOMAIN board
  BY <1>6
<1> HIDE DEF g, e, reply
<1>9. DOMAIN On(g, e) \subseteq DOMAIN board
  BY <1>7, OnIs
<1> QED BY <1>5, <1>8, <1>9, CommitQuiet

\* Doing the edits again leaves the tab where it is.
LEMMA RebasedHere ==
  ASSUME NEW t, t = [hash |-> t.hash, ver |-> t.ver, doc |-> t.doc, pend |-> t.pend, gen |-> t.gen], NEW ver, NEW doc
  PROVE  Rebased(t, ver, doc).hash = t.hash
<1>1. \E d, q : Rebased(t, ver, doc) = [t EXCEPT !.ver = ver, !.doc = d, !.pend = q]
  BY DEF Rebased
<1> QED BY <1>1

LEMMA SetHere ==
  ASSUME NEW t, t = [hash |-> t.hash, ver |-> t.ver, doc |-> t.doc, pend |-> t.pend, gen |-> t.gen], NEW d, NEW v, NEW q
  PROVE  /\ [t EXCEPT !.doc = d, !.ver = v].hash = t.hash
         /\ [t EXCEPT !.doc = d, !.pend = q].hash = t.hash
         /\ [t EXCEPT !.ver = v, !.pend = q].hash = t.hash
<1> QED  OBVIOUS

\* So does an answer.
LEMMA RepliedHere ==
  ASSUME NEW t, t = [hash |-> t.hash, ver |-> t.ver, doc |-> t.doc, pend |-> t.pend, gen |-> t.gen],
         NEW x, NEW b, NEW u, ReplyTo(t, x, b, u)
  PROVE  u.hash = t.hash
<1>1. CASE u = t
  BY <1>1
<1>2. CASE x.ok /\ u = Confirmed(t, x)
  <2> DEFINE v == IF t.ver < x.ver THEN x.ver ELSE t.ver
             q == Drop(t.pend, x.sent)
  <2>1. u = [t EXCEPT !.ver = v, !.pend = q]
    BY <1>2 DEF Confirmed
  <2> HIDE DEF v, q
  <2> QED BY <2>1, SetHere
<1>3. CASE u = Rebased(t, x.ver, x.doc)
  BY <1>3, RebasedHere
<1>4. ASSUME NEW d, NEW v, u = [t EXCEPT !.doc = d, !.ver = v] PROVE u.hash = t.hash
  BY <1>4, SetHere
<1>5. ASSUME NEW d, NEW q, u = [t EXCEPT !.doc = d, !.pend = q] PROVE u.hash = t.hash
  BY <1>5, SetHere
<1> QED BY <1>1, <1>2, <1>3, <1>4, <1>5, Zenon DEF ReplyTo

LEMMA PutHere ==
  ASSUME IInv, Here, NEW h \in Threads, PutTiles(h) \/ DeleteProcess(h) \/ Lose(h)
  PROVE  Here'
<1>0. Idle.step = "idle"
  BY DEF Idle
<1>1. CASE DeleteProcess(h) \/ Lose(h)
  BY <1>0, <1>1, EndQuiet DEF DeleteProcess, Lose, End
<1>2. CASE PutTiles(h)
  <2>1. \/ Nothing(h)
        \/ \E r : r.op = "put" /\ Step(h, r) /\ tab' = tab /\ DOMAIN board' = DOMAIN board
    <3> DEFINE r == req[h]
               rec == board[r.hash]
               doc == KeepFolderMeta(r.doc, rec.doc)
               saved == Saved(r.hash, doc)
               a == Answer(r, FALSE, rec)
               b == [step |-> "publish", op |-> "put", saved |-> On(r.hash, saved), mine |-> TRUE,
                     closed |-> Closed(rec.doc, r.doc), uid |-> None, reply |-> Answer(r, TRUE, saved), gen |-> r.gen]
    <3>1. a.op = "put" /\ b.op = "put"
      BY DEF Answer
    <3>2. \/ Nothing(h)
          \/ Step(h, a) /\ tab' = tab /\ board' = board
          \/ Step(h, b) /\ tab' = tab /\ board' = [board EXCEPT ![r.hash] = saved]
      BY <1>2 DEF PutTiles
    <3> HIDE DEF a, b, saved
    <3> QED BY <3>1, <3>2
  <2>2. CASE Nothing(h)
    BY <2>2, NothingQuiet
  <2>3. ASSUME NEW r, r.op = "put", Step(h, r), tab' = tab, DOMAIN board' = DOMAIN board PROVE Here'
    BY <2>3, EndQuiet
  <2> QED BY <2>1, <2>2, <2>3
<1> QED BY <1>1, <1>2

\* What follows the commit keeps the reply of an exec.
LEMMA PublishHere ==
  ASSUME IInv, Here, NEW h \in Threads, Publish(h) \/ Reply(h)
  PROVE  Here'
<1> PICK B, H : Inv(B, H, next, board, tab, req, proc, shown)
  BY DEF IInv
<1> DEFINE r == req[h]
<1>1. tab = [hash |-> tab.hash, ver |-> tab.ver, doc |-> tab.doc, pend |-> tab.pend, gen |-> tab.gen]
  BY PendIs DEF Inv, World
<1>2. ThreadOK(B, H, next, board, tab, r)
  BY DEF Inv, World, ThreadsOK
<1>3. CASE Publish(h)
  <2>1. r.step = "publish" /\ tab' = Heard(tab, r.saved, r.mine) /\ board' = board
    BY <1>3 DEF Publish
  <2>2. tab'.hash = tab.hash
    BY <1>1, <2>1, RebasedHere DEF Heard
  <2> DEFINE told == [step |-> "reply", op |-> r.op, reply |-> r.reply, gen |-> r.gen]
             purged == [step |-> "purged", op |-> r.op, uid |-> r.uid]
  <2>3. \/ r.op = "put" /\ Step(h, r.reply)
        \/ r.op # "put" /\ (Step(h, told) \/ Step(h, purged) \/ Step(h, Idle))
    <3>1. CASE r.op = "put"
      BY <1>3, <3>1 DEF Publish
    <3>2. CASE r.op # "put"
      BY <1>3, <3>2 DEF Publish, End
    <3> QED BY <3>1, <3>2
  <2>4. CASE r.op = "put" /\ Step(h, r.reply)
    <3>1. r.reply.op = "put"
      BY <1>2, <2>1, <2>4 DEF ThreadOK, AnswerOK
    <3> QED BY <2>1, <2>2, <2>4, <3>1, EndQuiet
  <2>5. CASE Step(h, told)
    <3>1. told.step = "reply" /\ told.op = r.op /\ told.reply = r.reply
      OBVIOUS
    <3> HIDE DEF told
    <3>2. HereOf(told, tab.hash, DOMAIN board')
      BY <2>1, <3>1 DEF Here, HereOf
    <3> QED BY <2>1, <2>2, <2>5, <3>2, StepIs, HereNext DEF Quiet
  <2>6. CASE Step(h, purged) \/ Step(h, Idle)
    <3>1. purged.step = "purged" /\ Idle.step = "idle"
      BY DEF Idle
    <3> HIDE DEF purged
    <3> QED BY <2>1, <2>2, <2>6, <3>1, EndQuiet
  <2> QED BY <2>3, <2>4, <2>5, <2>6
<1>4. CASE Reply(h)
  <2>1. Idle.step = "idle"
    BY DEF Idle
  <2>2. Step(h, Idle) /\ board' = board /\ ReplyTo(tab, r, InFlight, tab')
    BY <1>4, ReplyIs DEF Step
  <2>3. tab'.hash = tab.hash
    BY <1>1, <2>2, RepliedHere
  <2> QED BY <2>1, <2>2, <2>3, EndQuiet
<1> QED BY <1>3, <1>4

\* Requests that begin: only an exec is one, and it is asked from the tab's board.
LEMMA ArriveHere ==
  ASSUME IInv, Here, NEW h \in Threads, Arrive(h)
  PROVE  Here'
<1>1. CASE Look(h)
  <2>1. PICK r : Step(h, r) /\ r.op = "get"
    <3> DEFINE r == [Request("get", None) EXCEPT !.procs = Orphans({})]
    <3>1. r.op = "get"
      BY RequestIs
    <3>2. Step(h, r)
      BY <1>1 DEF Look, Begin, Step
    <3> QED BY <3>1, <3>2
  <2> QED BY <1>1, <2>1, EndQuiet DEF Look
<1>2. CASE Send(h)
  <2>1. PICK r : Step(h, r) /\ r.op = "put"
    <3> DEFINE r == [step |-> "put", op |-> "put", hash |-> tab.hash, ver |-> tab.ver,
                     doc |-> tab.doc, sent |-> ToSet(tab.pend), gen |-> tab.gen, uid |-> None]
    <3>1. r.op = "put"
      OBVIOUS
    <3>2. Step(h, r)
      BY <1>2 DEF Send
    <3> QED BY <3>1, <3>2
  <2> QED BY <1>2, <2>1, EndQuiet DEF Send
<1>3. ASSUME NEW p, NEW at, Exec(h, p, at) PROVE Here'
  <2> DEFINE r == [Request("exec", p) EXCEPT !.at = at]
  <2>1. r.step = "ask" /\ r.hash = tab.hash
    BY DEF Request
  <2>2. Step(h, r) /\ UNCHANGED <<board, tab>>
    BY <1>3 DEF Exec, Begin, Step
  <2> HIDE DEF r
  <2>3. HereOf(r, tab.hash, DOMAIN board')
    BY <2>1 DEF HereOf
  <2> QED BY <2>2, <2>3, StepIs, HereNext DEF Quiet
<1>4. ASSUME NEW p, Attach(h, p) PROVE Here'
  <2>1. Request("attach", p).op = "attach"
    BY RequestIs
  <2> QED BY <1>4, <2>1, EndQuiet DEF Attach, Begin, Step
<1>5. ASSUME NEW op \in {"take", "purge", "bind", "move", "delete", "share", "video"}, NEW uid, Ask(h, op, uid) PROVE Here'
  <2>1. Request(op, uid).op = op
    BY RequestIs
  <2> QED BY <1>5, <2>1, EndQuiet DEF Ask, Begin, Step
<1>6. ASSUME NEW id, CreateWorkspace(h, id) PROVE Here'
  <2> DEFINE g == tab.hash
             docs == [b \in {g, next} |-> IF b = g THEN TakeOpened(board[g].doc, id) ELSE Detached(board[g].doc, id)]
             saved == [b \in {g, next} |-> Saved(b, docs[b])]
             r == [step |-> "publish", op |-> "create", saved |-> saved, mine |-> FALSE,
                   closed |-> {}, uid |-> None, reply |-> NoReply, gen |-> tab.gen]
  <2>1. Step(h, r) /\ tab' = tab /\ g \in DOMAIN board
    BY <1>6 DEF CreateWorkspace
  <2>2. r.op = "create"
    OBVIOUS
  <2> HIDE DEF r
  <2>3. HereOf(r, tab.hash, DOMAIN board')
    BY <2>2 DEF HereOf
  <2> QED BY <2>1, <2>3, StepIs, HereNext DEF Quiet
<1> QED BY <1>1, <1>2, <1>3, <1>4, <1>5, <1>6 DEF Arrive

\* Part three of the invariant is kept by every step.
LEMMA HereStep ==
  ASSUME IInv, InOrder, Here, [Next]_vars
  PROVE  Here'
<1>1. CASE UNCHANGED vars
  BY <1>1 DEF vars, Here
<1>2. ASSUME NEW h \in Threads, Arrive(h) PROVE Here'
  BY <1>2, ArriveHere
<1>3. ASSUME NEW h \in Threads, Serve(h) PROVE Here'
  BY <1>3, TileHere, BoardsHere, ExecTileHere, PutHere, PublishHere DEF Serve
<1>4. ASSUME NEW do, NEW id, NEW arg, Edit(do, id, arg) PROVE Here'
  <2>1. tab = [hash |-> tab.hash, ver |-> tab.ver, doc |-> tab.doc, pend |-> tab.pend, gen |-> tab.gen]
    BY PendIs DEF IInv, Inv, World
  <2>2. UNCHANGED <<board, req>> /\ \E d, q : tab' = [tab EXCEPT !.doc = d, !.pend = q]
    BY <1>4 DEF Edit
  <2>3. tab'.hash = tab.hash
    BY <2>1, <2>2
  <2> QED BY <2>2, <2>3 DEF Here
<1>5. ASSUME NEW p, Kill(p) \/ Ends(p) PROVE Here'
  BY <1>5 DEF Kill, Ends, Here
<1>6. ASSUME NEW g, Load(g) PROVE Here'
  <2>1. \A h \in Threads : req[h] = Idle \/ req[h].op # "exec"
    BY <1>6 DEF Load, InOrder, Busy
  <2>2. Idle.step = "idle" /\ UNCHANGED req
    BY <1>6 DEF Idle, Load
  <2> QED BY <2>1, <2>2 DEF Here, HereOf
<1> QED BY <1>1, <1>2, <1>3, <1>4, <1>5, <1>6 DEF Next

\* A request before its commit.
LEMMA ServeStep ==
  ASSUME IInv, InOrder, Here, NEW h \in Threads, Serve(h)
  PROVE  IInv'
<1>1. \/ AdoptOrphans(h) \/ AppendTerminalTile(h) \/ InsertTerminal(h)
      \/ BindTile(h) \/ BindProcessTile(h) \/ MoveWorkspaceTile(h) \/ DeleteWorkspace(h)
      \/ AttachSharedFolder(h) \/ OpenVideoTile(h) \/ PurgeTiles(h) \/ DeleteProcess(h)
      \/ PutTiles(h) \/ Publish(h) \/ Reply(h) \/ Lose(h)
  BY DEF Serve
<1> QED BY <1>1, AdoptStep, AppendTerminalStep, InsertTerminalStep, BindStep, TakeStep, MoveTileStep, DeleteStep,
            AttachSharedStep, OpenVideoStep, PurgeTilesStep, DeleteProcessStep, PutTilesStep, PublishStep, ReplyStep, LoseStep

\* What follows a commit, and what arrives at the tab.
LEMMA ArriveStep ==
  ASSUME IInv, InOrder, NEW h \in Threads, Arrive(h)
  PROVE  IInv'
<1>1. CASE Look(h)
  BY <1>1, LookStep
<1>2. CASE Send(h)
  BY <1>2, SendStep
<1>3. ASSUME NEW p \in Procs, NEW at, Exec(h, p, at) PROVE IInv'
  BY <1>3, ExecStep
<1>4. ASSUME NEW p \in Procs, Attach(h, p) PROVE IInv'
  BY <1>4, AttachStep
<1>5. ASSUME NEW p \in Procs, proc[p].st \in {"live", "ended"}, Apart("exec"), Ask(h, "take", p) PROVE IInv'
  BY <1>5, AskStep DEF AskFits
<1>6. ASSUME NEW p \in Procs, Expired(p), Ask(h, "purge", p) PROVE IInv'
  BY <1>6, AskStep DEF AskFits
<1>7. ASSUME NEW op \in {"bind", "move", "delete", "share"}, Ask(h, op, None) PROVE IInv'
  BY <1>7, AskStep DEF AskFits
<1>8. ASSUME NEW v \in Videos, Ask(h, "video", v) PROVE IInv'
  BY <1>8, AskStep DEF AskFits
<1>9. ASSUME NEW id, CreateWorkspace(h, id) PROVE IInv'
  BY <1>9, CreateWorkspaceStep
<1> QED BY <1>1, <1>2, <1>3, <1>4, <1>5, <1>6, <1>7, <1>8, <1>9 DEF Arrive

\* Every step keeps the invariant.
LEMMA Inductive ==
  ASSUME IInv, InOrder, Here, [Next]_vars
  PROVE  IInv'
<1>1. CASE UNCHANGED vars
  BY <1>1 DEF vars, IInv, Inv
<1>2. ASSUME NEW h \in Threads, Arrive(h) PROVE IInv'
  BY <1>2, ArriveStep
<1>3. ASSUME NEW h \in Threads, Serve(h) PROVE IInv'
  BY <1>3, ServeStep
<1>4. ASSUME NEW do \in Edits, NEW id \in Ids(tab.doc), NEW arg \in Args(do), Edit(do, id, arg) PROVE IInv'
  BY <1>4, EditStep
<1>5. ASSUME NEW p \in Procs, Kill(p) PROVE IInv'
  BY <1>5, KillStep
<1>6. ASSUME NEW p \in Procs, Ends(p) PROVE IInv'
  BY <1>6, EndsStep
<1>7. ASSUME NEW g, Load(g) PROVE IInv'
  BY <1>7, LoadStep
<1> QED BY <1>1, <1>2, <1>3, <1>4, <1>5, <1>6, <1>7 DEF Next

\* The invariant holds always.
LEMMA Always ==
  ASSUME InOrder
  PROVE  Spec => []IInv
<1>1. Init => IInv /\ Here
  <2> HAVE Init
  <2>1. \A h \in Threads : req[h].step = "idle"
    BY DEF Init, Idle
  <2> QED BY <2>1, InitIs DEF Here, HereOf
<1>2. IInv /\ Here /\ [Next]_vars => (IInv /\ Here)'
  BY Inductive, HereStep
<1> QED BY <1>1, <1>2, PTL DEF Spec

----------
\* What was shown is on a board: part two of the invariant.
LEMMA NothingIs ==
  ASSUME IInv
  PROVE  NothingLost
<1>1. OnBoards = UidsOn(board)
  BY DEF OnBoards, UidsOn
<1> QED BY <1>1, PartyIs DEF Party, NothingLost

\* The same for processes whose end was asked for.
LEMMA ForcedIs ==
  ASSUME IInv
  PROVE  AbandonedIsForced
<1>1. OnBoards = UidsOn(board)
  BY DEF OnBoards, UidsOn
<1>2. \A p \in Procs : proc[p].st = "live" /\ proc[p].kill = "asked" =>
        p \in UidsOn(board) \/ \E h \in Threads : req[h].step = "publish" /\ p \in req[h].closed
  BY PartyIs DEF Party
<1> QED BY <1>1, <1>2 DEF AbandonedIsForced, IsLive, Waiting

\* Two tiles of the boards that may not show the same.
Differ(t, u) ==
  t.type = u.type =>
    /\ t.type \in {"terminal", "folder", "viewer"} => t.uid # u.uid
    /\ t.type = "folder" /\ t.node = u.node => ~(t.bound /\ u.bound)

\* The soundness a run checks, from Sound, PinsOnce and part two.
LEMMA SoundIs ==
  ASSUME IInv
  PROVE  BoardsAreSound
<1> PICK B, H : Inv(B, H, next, board, tab, req, proc, shown)
  BY DEF IInv
<1>1. next \in Nat /\ BoardsFit(B, next, board) /\ Sound(B, board) /\ PinsOnce(board)
  BY DEF Inv, World
<1>2. \A p \in OnBoards : proc[p].st \in {"live", "ended"}
  <2>1. OnBoards = UidsOn(board)
    BY DEF OnBoards, UidsOn
  <2> QED BY <2>1, PartyIs DEF Party
<1>3. \A g \in DOMAIN board : IsValid(board[g].doc)
  BY <1>1 DEF Sound
<1>4. ASSUME NEW g \in DOMAIN board, NEW b \in DOMAIN board, NEW k \in Ids(board[g].doc), NEW l \in Ids(board[b].doc),
             g # b \/ k # l
      PROVE  k # l /\ Differ(board[g].doc.tiles[k], board[b].doc.tiles[l])
  <2> DEFINE t == board[g].doc.tiles[k]
             u == board[b].doc.tiles[l]
  <2>1. k # l
    BY <1>1, <1>4 DEF Sound
  <2>2. k \in AllOf(board) /\ l \in AllOf(board) /\ k \in Nat /\ l \in Nat /\ B[k] = What(t) /\ B[l] = What(u)
    <3>1. Fit(board[g].doc, B, next) /\ Fit(board[b].doc, B, next)
      BY <1>1 DEF BoardsFit
    <3>2. k \in Nat /\ l \in Nat
      BY <3>1, DocIs DEF Fit
    <3> QED BY <3>1, <3>2 DEF Fit, AllOf
  <2>3. ASSUME t.type = u.type, t.type \in {"terminal", "viewer"} PROVE t.uid # u.uid
    <3> SUFFICES ASSUME t.uid = u.uid PROVE FALSE
      OBVIOUS
    <3>1. What(t) = What(u) /\ What(t)[1] = t.type
      BY <2>3, WhatType
    <3>2. B[k] = B[l] /\ B[k][1] \in {"terminal", "viewer"}
      BY <2>2, <2>3, <3>1
    <3> QED BY <1>1, <2>1, <2>2, <3>2 DEF Sound
  <2>4. ASSUME t.type = u.type, t.type = "folder"
        PROVE  t.uid # u.uid /\ (t.node = u.node => ~(t.bound /\ u.bound))
    <3>1. k \in OfType(board[g].doc, "folder") /\ l \in OfType(board[b].doc, "folder")
      BY <2>4 DEF OfType
    <3>2. t.uid \in {k, -1} /\ u.uid \in {l, -1} /\ ~(t.uid = -1 /\ u.uid = -1)
      BY <1>1, <2>1, <3>1 DEF Sound
    <3>3. t.uid # u.uid
      BY <2>1, <2>2, <3>2
    <3>4. t.node = u.node => ~(t.bound /\ u.bound)
      BY <1>1, <2>1, <3>1 DEF PinsOnce
    <3> QED BY <3>3, <3>4
  <2> HIDE DEF t, u
  <2>5. Differ(t, u)
    BY <2>3, <2>4 DEF Differ
  <2> QED BY <2>1, <2>5 DEF t, u
<1>5. ASSUME NEW c \in Tiles, NEW e \in Tiles, c # e
      PROVE  c[2] # e[2] /\ Differ(TileAt(c), TileAt(e))
  <2>1. \A x \in Tiles : \E g \in DOMAIN board : \E k \in Ids(board[g].doc) : x = <<g, k>>
    BY DEF Tiles
  <2>2. PICK g \in DOMAIN board : \E k \in Ids(board[g].doc) : c = <<g, k>>
    BY <2>1
  <2>3. PICK b \in DOMAIN board : \E l \in Ids(board[b].doc) : e = <<b, l>>
    BY <2>1
  <2>5. PICK k \in Ids(board[g].doc) : c = <<g, k>>
    BY <2>2
  <2>6. PICK l \in Ids(board[b].doc) : e = <<b, l>>
    BY <2>3
  <2>4. c[1] = g /\ c[2] = k /\ e[1] = b /\ e[2] = l /\ (g # b \/ k # l)
    BY <1>5, <2>5, <2>6
  <2> QED BY <1>4, <2>4 DEF TileAt
<1> QED BY <1>2, <1>3, <1>5 DEF BoardsAreSound, Differ

\* NothingLost: a terminal that was put on a board goes from the
\* boards only when the user closes it or its process is purged; no save, merge,
\* move, deletion of a board or late answer takes it away, as putTiles refuses what
\* is based on an older version (tile.go) and the tab merges its edits into what it
\* is told (tileTree.store.ts).
THEOREM TerminalsStay ==
  ASSUME InOrder
  PROVE  Spec => []NothingLost
<1>1. IInv => NothingLost
  BY NothingIs
<1> QED BY <1>1, Always, PTL

\* AbandonedIsForced: a live process whose end was asked for is on a board or
\* in the hands of a request that published its removal and has yet to force it
\* (forceAbandoned).  There is no gap in which nobody would.
THEOREM AbandonedAlwaysForced ==
  ASSUME InOrder
  PROVE  Spec => []AbandonedIsForced
<1>1. IInv => AbandonedIsForced
  BY ForcedIs
<1> QED BY <1>1, Always, PTL

\* BoardsAreSound: all boards are documents validate accepts, and over all of
\* them a tile, a process, a video, a folder uid and the pin of a node are in one
\* place, whatever order requests commit in.
THEOREM BoardsStaySound ==
  ASSUME InOrder
  PROVE  Spec => []BoardsAreSound
<1>1. IInv => BoardsAreSound
  BY SoundIs
<1> QED BY <1>1, Always, PTL
=============================================================================
