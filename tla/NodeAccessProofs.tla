---------------------------- MODULE NodeAccessProofs -----------------------------
(***************************************************************************)
(* What holds of the catalog and of who may do what in it, however deep    *)
(* the tree and however many accounts, requests and processes.  The        *)
(* statements of the database are recursive functions on their depth:      *)
(* first what they compute on a forest, then that every write leaves a     *)
(* forest, then what a request may rely on between its check and its       *)
(* write, and last the subscriptions its hooks keep.                       *)
(***************************************************************************)
EXTENDS NodeAccess, WellFoundedInduction, FiniteSetTheorems, TLAPS

-----------------------------------------------------------------------------
(* The recursive queries, row by row.                                      *)

\* A set of depths that is not empty has a least one.
LEMMA LeastDepth ==
  ASSUME NEW T, T \subseteq Nat, T # {}
  PROVE  \E n \in T : \A m \in 0 .. n - 1 : m \notin T
<1> DEFINE R == {ss \in Nat \X Nat : ss[1] < ss[2]}
<1>1. IsWellFoundedOn(R, Nat)
  BY NatLessThanWellFounded DEF OpToRel
<1> HIDE DEF R
<1>2. PICK n \in T : \A m \in T : <<m, n>> \notin R
  BY <1>1, WFMin
<1>3. \A m \in Nat : m < n => <<m, n>> \in R
  BY <1>2 DEF R
<1>4. n \in Nat
  BY <1>2
<1>5. \A m \in 0 .. n - 1 : m \in Nat /\ m < n
  BY <1>4
<1> QED
  BY <1>2, <1>3, <1>5

LEMMA DepthInduction ==
  ASSUME NEW T, 0 \in T, \A n \in Nat : n \in T => n + 1 \in T
  PROVE  Nat \subseteq T
<1> SUFFICES ASSUME NEW k \in Nat \ T PROVE FALSE
  OBVIOUS
<1>1. PICK n \in Nat \ T : \A m \in 0 .. n - 1 : m \notin Nat \ T
  BY LeastDepth
<1>2. n # 0 /\ n - 1 \in Nat /\ n - 1 \in 0 .. n - 1 /\ (n - 1) + 1 = n
  BY <1>1
<1> QED
  BY <1>1, <1>2

\* A recursive query is what its definition says, row by row.
UpRows(d, n, f, m) ==
  f = [k \in 0 .. m |-> IF k > 0 THEN Parent(d, f[k - 1]) ELSE IF Exists(d, n) THEN n ELSE Null]

\* The rows of a recursive query exist, so what CHOOSE picks are its rows.
LEMMA UpExists == ASSUME NEW d, NEW n PROVE \A m \in Nat : \E f : UpRows(d, n, f, m)
<1> DEFINE T == {m \in Nat : \E f : UpRows(d, n, f, m)}
<1>1. 0 \in T
  <2> DEFINE f == [k \in 0 .. 0 |-> IF Exists(d, n) THEN n ELSE Null]
  <2>1. UpRows(d, n, f, 0)
    BY DEF UpRows
  <2> QED  BY <2>1
<1>2. \A m \in Nat : m \in T => m + 1 \in T
  <2> SUFFICES ASSUME NEW m \in Nat, m \in T PROVE m + 1 \in T
    OBVIOUS
  <2>1. PICK f : UpRows(d, n, f, m)
    OBVIOUS
  <2> DEFINE g == [k \in 0 .. m + 1 |-> IF k = m + 1 THEN Parent(d, f[m]) ELSE f[k]]
  <2>2. \A k \in 0 .. m + 1 :
          g[k] = IF k > 0 THEN Parent(d, g[k - 1]) ELSE IF Exists(d, n) THEN n ELSE Null
    <3> SUFFICES ASSUME NEW k \in 0 .. m + 1
                 PROVE  g[k] = IF k > 0 THEN Parent(d, g[k - 1]) ELSE IF Exists(d, n) THEN n ELSE Null
      OBVIOUS
    <3> HIDE DEF g
    <3>0. \A j \in 0 .. m + 1 : g[j] = IF j = m + 1 THEN Parent(d, f[m]) ELSE f[j]
      BY DEF g
    <3>1. CASE k = m + 1
      <4>1. k - 1 = m /\ k > 0 /\ m \in 0 .. m + 1 /\ m # m + 1
        BY <3>1
      <4> QED  BY <4>1, <3>1, <3>0
    <3>2. CASE k \in 0 .. m
      <4>1. f[k] = IF k > 0 THEN Parent(d, f[k - 1]) ELSE IF Exists(d, n) THEN n ELSE Null
        BY <2>1, <3>2 DEF UpRows
      <4>2. k # m + 1 /\ (k > 0 => k - 1 \in 0 .. m + 1 /\ k - 1 # m + 1)
        BY <3>2
      <4> QED  BY <4>1, <4>2, <3>0
    <3> QED  BY <3>1, <3>2
  <2>3. UpRows(d, n, g, m + 1)
    BY <2>2 DEF UpRows
  <2> QED  BY <2>3
<1> QED
  BY <1>1, <1>2, DepthInduction

\* The query upwards, row by row.
LEMMA UpUnfolds ==
  ASSUME NEW d, NEW n
  PROVE  /\ Up(d, n) = [k \in 0 .. MaxDepth |-> Up(d, n)[k]]
         /\ Up(d, n)[0] = IF Exists(d, n) THEN n ELSE Null
         /\ \A k \in 0 .. MaxDepth : k > 0 => Up(d, n)[k] = Parent(d, Up(d, n)[k - 1])
         /\ \A k \in 0 .. MaxDepth : Up(d, n)[k] # Null => Up(d, n)[k] \in UpIds(d, n)
         /\ \A x \in UpIds(d, n) : x # Null /\ \E k \in 0 .. MaxDepth : x = Up(d, n)[k]
<1>0. MaxDepth \in Nat
  BY NodeTreeAssumption
<1>1. \E f : UpRows(d, n, f, MaxDepth)
  BY UpExists, <1>0
<1>2. Up(d, n) = CHOOSE f : UpRows(d, n, f, MaxDepth)
  BY DEF Up, UpRows
<1>3. UpRows(d, n, Up(d, n), MaxDepth)
  BY <1>1, <1>2
<1>4. UpIds(d, n) = {Up(d, n)[k] : k \in DOMAIN Up(d, n)} \ {Null}
  BY DEF UpIds, Range
<1> QED
  <2> DEFINE f == Up(d, n)
  <2>1. UpRows(d, n, f, MaxDepth) /\ UpIds(d, n) = {f[k] : k \in DOMAIN f} \ {Null}
    BY <1>3, <1>4
  <2> HIDE DEF f
  <2>2. f = [k \in 0 .. MaxDepth |-> IF k > 0 THEN Parent(d, f[k - 1]) ELSE IF Exists(d, n) THEN n ELSE Null]
    BY <2>1 DEF UpRows
  <2>3. /\ f = [k \in 0 .. MaxDepth |-> f[k]] /\ DOMAIN f = 0 .. MaxDepth
        /\ \A k \in 0 .. MaxDepth : f[k] = IF k > 0 THEN Parent(d, f[k - 1]) ELSE IF Exists(d, n) THEN n ELSE Null
    BY <2>2
  <2>4. 0 \in 0 .. MaxDepth /\ ~(0 > 0)
    BY <1>0
  <2>5. f[0] = IF Exists(d, n) THEN n ELSE Null
    BY <2>3, <2>4
  <2>6. \A k \in 0 .. MaxDepth : k > 0 => f[k] = Parent(d, f[k - 1])
    BY <2>3
  <2> QED
    BY <2>1, <2>3, <2>5, <2>6 DEF f

DownRows(d, n, f, m) ==
  f = [k \in 0 .. m |-> IF k = 0 THEN {n} ELSE UNION {Children(d, x) : x \in f[k - 1]}]

LEMMA DownExists == ASSUME NEW d, NEW n PROVE \A m \in Nat : \E f : DownRows(d, n, f, m)
<1> DEFINE T == {m \in Nat : \E f : DownRows(d, n, f, m)}
<1>1. 0 \in T
  <2> DEFINE f == [k \in 0 .. 0 |-> {n}]
  <2>1. DownRows(d, n, f, 0)
    BY DEF DownRows
  <2> QED  BY <2>1
<1>2. \A m \in Nat : m \in T => m + 1 \in T
  <2> SUFFICES ASSUME NEW m \in Nat, m \in T PROVE m + 1 \in T
    OBVIOUS
  <2>1. PICK f : DownRows(d, n, f, m)
    OBVIOUS
  <2> DEFINE g == [k \in 0 .. m + 1 |-> IF k = m + 1 THEN UNION {Children(d, x) : x \in f[m]} ELSE f[k]]
  <2>2. \A k \in 0 .. m + 1 :
          g[k] = IF k = 0 THEN {n} ELSE UNION {Children(d, x) : x \in g[k - 1]}
    <3> SUFFICES ASSUME NEW k \in 0 .. m + 1
                 PROVE  g[k] = IF k = 0 THEN {n} ELSE UNION {Children(d, x) : x \in g[k - 1]}
      OBVIOUS
    <3> HIDE DEF g
    <3>0. \A j \in 0 .. m + 1 : g[j] = IF j = m + 1 THEN UNION {Children(d, x) : x \in f[m]} ELSE f[j]
      BY DEF g
    <3>1. CASE k = m + 1
      <4>1. k - 1 = m /\ k # 0 /\ m \in 0 .. m + 1 /\ m # m + 1
        BY <3>1
      <4>2. g[k - 1] = f[m]
        BY <4>1, <3>0
      <4> QED  BY <4>1, <4>2, <3>1, <3>0
    <3>2. CASE k \in 0 .. m
      <4>1. f[k] = IF k = 0 THEN {n} ELSE UNION {Children(d, x) : x \in f[k - 1]}
        BY <2>1, <3>2 DEF DownRows
      <4>2. k # m + 1 /\ (k # 0 => k - 1 \in 0 .. m + 1 /\ k - 1 # m + 1)
        BY <3>2
      <4>3. g[k] = f[k] /\ (k # 0 => g[k - 1] = f[k - 1])
        BY <4>2, <3>0
      <4> QED  BY <4>1, <4>3
    <3> QED  BY <3>1, <3>2
  <2>3. DownRows(d, n, g, m + 1)
    BY <2>2 DEF DownRows
  <2> QED  BY <2>3
<1> QED
  BY <1>1, <1>2, DepthInduction

\* Row k of the query below a node.
Row(d, n) == CHOOSE f : DownRows(d, n, f, MaxDepth)

\* The query downwards, row by row.
LEMMA DownUnfolds ==
  ASSUME NEW d, NEW n
  PROVE  /\ Row(d, n)[0] = {n}
         /\ \A k \in 0 .. MaxDepth :
              k # 0 => Row(d, n)[k] = UNION {Children(d, x) : x \in Row(d, n)[k - 1]}
         /\ Down(d, n) = UNION {Row(d, n)[k] : k \in 0 .. MaxDepth}
<1>0. MaxDepth \in Nat
  BY NodeTreeAssumption
<1>1. \E f : DownRows(d, n, f, MaxDepth)
  BY DownExists, <1>0
<1>2. DownRows(d, n, Row(d, n), MaxDepth)
  BY <1>1 DEF Row
<1>3. Down(d, n) = UNION {Row(d, n)[k] : k \in DOMAIN Row(d, n)}
  BY DEF Down, Range, Row, DownRows
<1> DEFINE f == Row(d, n)
<1>4. DownRows(d, n, f, MaxDepth)
  BY <1>2
<1> HIDE DEF f
<1>5. /\ DOMAIN f = 0 .. MaxDepth
      /\ \A k \in 0 .. MaxDepth : f[k] = IF k = 0 THEN {n} ELSE UNION {Children(d, x) : x \in f[k - 1]}
  BY <1>4 DEF DownRows
<1>6. 0 \in 0 .. MaxDepth
  BY <1>0
<1>7. f[0] = {n} /\ \A k \in 0 .. MaxDepth : k # 0 => f[k] = UNION {Children(d, x) : x \in f[k - 1]}
  BY <1>5, <1>6
<1> QED
  BY <1>3, <1>5, <1>7 DEF f

-----------------------------------------------------------------------------
(* A forest: what the queries hold on it.                                  *)

\* No set of nodes holds the parents of all its members: every way up ends.
Rooted(d) ==
  \A S \in SUBSET NodeIds(d) : S # {} => \E n \in S : Parent(d, n) \notin S

Forest(d) ==
  /\ NodeIds(d) \subseteq 1 .. MaxNode
  /\ \A n \in NodeIds(d) : Parent(d, n) \in NodeIds(d) \union {Null}
  /\ Rooted(d)

LEMMA NullIsNoNode ==
  ASSUME NEW d, Forest(d)
  PROVE  /\ Null \notin NodeIds(d) /\ Parent(d, Null) = Null
         /\ \A n : Parent(d, n) \in NodeIds(d) \union {Null}
         /\ \A n : Parent(d, n) # Null => n \in NodeIds(d)
<1>1. Null \notin 1 .. MaxNode
  BY NodeTreeAssumption DEF Null
<1> QED
  BY <1>1 DEF Forest, Parent, Exists

LEMMA UpTyped ==
  ASSUME NEW d, Forest(d), NEW n \in NodeIds(d)
  PROVE  /\ \A k \in 0 .. MaxDepth : Up(d, n)[k] \in NodeIds(d) \union {Null}
         /\ n \in UpIds(d, n) /\ UpIds(d, n) \subseteq NodeIds(d)
         /\ Up(d, n)[0] = n
<1>1. \A k \in 0 .. MaxDepth : Up(d, n)[k] \in NodeIds(d) \union {Null}
  <2> TAKE k \in 0 .. MaxDepth
  <2>1. CASE k = 0
    BY <2>1, UpUnfolds, NullIsNoNode DEF Exists
  <2>2. CASE k # 0
    <3>1. k > 0
      BY <2>2, NodeTreeAssumption
    <3> QED  BY <3>1, UpUnfolds, NullIsNoNode
  <2> QED  BY <2>1, <2>2
<1>2. 0 \in 0 .. MaxDepth
  BY NodeTreeAssumption
<1>3. Up(d, n)[0] = n
  BY UpUnfolds DEF Exists
<1> QED
  BY <1>1, <1>2, <1>3, UpUnfolds, NullIsNoNode

\* The way up from a node ends within MaxDepth steps: it holds no node twice.
LEMMA UpEnds ==
  ASSUME NEW d, Forest(d), NEW n \in NodeIds(d)
  PROVE  Parent(d, Up(d, n)[MaxDepth]) = Null
<1> SUFFICES ASSUME Parent(d, Up(d, n)[MaxDepth]) # Null PROVE FALSE
  OBVIOUS
<1> DEFINE f == Up(d, n)
<1>0. MaxDepth \in Nat /\ MaxNode \in Nat /\ MaxDepth >= MaxNode - 1
  BY NodeTreeAssumption
<1>1. /\ \A k \in 0 .. MaxDepth : f[k] \in NodeIds(d) \union {Null}
      /\ \A k \in 0 .. MaxDepth : k > 0 => f[k] = Parent(d, f[k - 1])
      /\ Parent(d, f[MaxDepth]) # Null
  BY UpTyped, UpUnfolds
<1> HIDE DEF f
<1>2. \A k \in 0 .. MaxDepth : f[k] # Null
  <2> DEFINE T == {j \in Nat : j <= MaxDepth => f[MaxDepth - j] # Null}
  <2>1. 0 \in T
    <3>1. MaxDepth - 0 = MaxDepth
      BY <1>0
    <3> QED  BY <3>1, <1>1, NullIsNoNode
  <2>2. \A j \in Nat : j \in T => j + 1 \in T
    <3> SUFFICES ASSUME NEW j \in Nat, j <= MaxDepth => f[MaxDepth - j] # Null, j + 1 <= MaxDepth,
                        f[MaxDepth - (j + 1)] = Null
                 PROVE  FALSE
      OBVIOUS
    <3>1. j <= MaxDepth /\ MaxDepth - j \in 0 .. MaxDepth /\ MaxDepth - j > 0 /\ (MaxDepth - j) - 1 = MaxDepth - (j + 1)
      BY <1>0
    <3>2. f[MaxDepth - j] = Parent(d, Null)
      BY <3>1, <1>1
    <3> QED  BY <3>1, <3>2, NullIsNoNode
  <2>3. Nat \subseteq T
    BY <2>1, <2>2, DepthInduction
  <2> SUFFICES ASSUME NEW k \in 0 .. MaxDepth PROVE f[k] # Null
    OBVIOUS
  <2>4. MaxDepth - k \in Nat /\ MaxDepth - k <= MaxDepth /\ MaxDepth - (MaxDepth - k) = k
    BY <1>0
  <2> QED  BY <2>3, <2>4
<1> DEFINE g == [k \in 0 .. MaxDepth + 1 |-> IF k = MaxDepth + 1 THEN Parent(d, f[MaxDepth]) ELSE f[k]]
<1>3. g \in [0 .. MaxDepth + 1 -> NodeIds(d)]
  <2> SUFFICES ASSUME NEW k \in 0 .. MaxDepth + 1
               PROVE  (IF k = MaxDepth + 1 THEN Parent(d, f[MaxDepth]) ELSE f[k]) \in NodeIds(d)
    OBVIOUS
  <2>1. k # MaxDepth + 1 => k \in 0 .. MaxDepth
    BY <1>0
  <2> QED  BY <2>1, <1>1, <1>2, NullIsNoNode
<1>4. /\ \A k \in 0 .. MaxDepth : g[k] = f[k] 
      /\ \A k \in 0 .. MaxDepth : g[k + 1] = Parent(d, g[k])
  <2>1. \A k \in 0 .. MaxDepth : k \in 0 .. MaxDepth + 1 /\ k # MaxDepth + 1
    BY <1>0
  <2>2. \A k \in 0 .. MaxDepth : g[k] = f[k]
    BY <2>1
  <2>3. MaxDepth + 1 \in 0 .. MaxDepth + 1
    BY <1>0
  <2>4. g[MaxDepth + 1] = Parent(d, f[MaxDepth])
    BY <2>3
  <2> HIDE DEF g
  <2>5. ASSUME NEW k \in 0 .. MaxDepth PROVE g[k + 1] = Parent(d, g[k])
    <3>1. CASE k = MaxDepth
      BY <3>1, <2>4, <2>2
    <3>2. CASE k # MaxDepth
      <4>1. k + 1 \in 0 .. MaxDepth /\ k + 1 > 0 /\ (k + 1) - 1 = k
        BY <3>2, <1>0
      <4> QED  BY <4>1, <2>2, <1>1
    <3> QED  BY <3>1, <3>2
  <2> QED  BY <2>2, <2>5
<1> HIDE DEF g
<1>5. IsFiniteSet(0 .. MaxDepth + 1) /\ Cardinality(0 .. MaxDepth + 1) = MaxDepth + 2
  <2>1. 0 \in Int /\ MaxDepth + 1 \in Int /\ ~(0 > MaxDepth + 1) /\ (MaxDepth + 1) - 0 + 1 = MaxDepth + 2
    BY <1>0
  <2> QED  BY <2>1, FS_Interval
<1>6. IsFiniteSet(NodeIds(d)) /\ Cardinality(NodeIds(d)) < MaxDepth + 2
  <2>1. IsFiniteSet(1 .. MaxNode) /\ Cardinality(1 .. MaxNode) <= MaxNode
    <3>1. 1 \in Int /\ MaxNode \in Int
      BY <1>0
    <3>2. IsFiniteSet(1 .. MaxNode) /\ Cardinality(1 .. MaxNode) = IF 1 > MaxNode THEN 0 ELSE MaxNode - 1 + 1
      BY <3>1, FS_Interval
    <3> QED  BY <3>2, <1>0
  <2>2. NodeIds(d) \in SUBSET (1 .. MaxNode)
    BY DEF Forest
  <2>3. IsFiniteSet(NodeIds(d)) /\ Cardinality(NodeIds(d)) <= Cardinality(1 .. MaxNode)
    BY <2>1, <2>2, FS_Subset
  <2>4. Cardinality(NodeIds(d)) \in Nat /\ Cardinality(1 .. MaxNode) \in Nat
    BY <2>1, <2>3, FS_CardinalityType
  <2> QED  BY <2>1, <2>3, <2>4, <1>0
<1>7. PICK x \in 0 .. MaxDepth + 1, y \in 0 .. MaxDepth + 1 : x # y /\ g[x] = g[y]
  BY <1>3, <1>5, <1>6, FS_PigeonHole
<1>8. PICK a \in 0 .. MaxDepth + 1, b \in 0 .. MaxDepth + 1 : a < b /\ g[a] = g[b]
  <2>1. x < y \/ y < x
    BY <1>7
  <2> QED  BY <2>1, <1>7
<1> DEFINE S == {g[k] : k \in a .. b - 1}
<1>9. \A k \in a .. b - 1 : k \in 0 .. MaxDepth + 1 /\ k \in 0 .. MaxDepth /\ (k + 1 \in a .. b - 1 \/ k + 1 = b)
  BY <1>8, <1>0
<1>10. a \in a .. b - 1
  BY <1>8, <1>0
<1>11. S \in SUBSET NodeIds(d) /\ g[a] \in S
  BY <1>3, <1>9, <1>10
<1>12. \A v \in S : Parent(d, v) \in S
  <2> TAKE v \in S
  <2>1. PICK k \in a .. b - 1 : v = g[k]
    OBVIOUS
  <2>2. Parent(d, v) = g[k + 1]
    BY <2>1, <1>9, <1>4
  <2>3. CASE k + 1 \in a .. b - 1
    BY <2>2, <2>3
  <2>4. CASE k + 1 = b
    BY <2>2, <2>4, <1>8, <1>11
  <2> QED  BY <2>3, <2>4, <1>9
<1> HIDE DEF S
<1> QED
  BY <1>11, <1>12 DEF Forest, Rooted

\* So the query holds the parent of all it holds,
LEMMA UpClosed ==
  ASSUME NEW d, Forest(d), NEW n \in NodeIds(d), NEW x \in UpIds(d, n), Parent(d, x) # Null
  PROVE  Parent(d, x) \in UpIds(d, n)
<1>1. PICK k \in 0 .. MaxDepth : x = Up(d, n)[k]
  BY UpUnfolds
<1>2. k # MaxDepth
  BY <1>1, UpEnds
<1>3. k + 1 \in 0 .. MaxDepth /\ k + 1 > 0 /\ (k + 1) - 1 = k
  BY <1>2, NodeTreeAssumption
<1>4. Up(d, n)[k + 1] = Parent(d, Up(d, n)[(k + 1) - 1])
  BY <1>3, UpUnfolds
<1>5. Up(d, n)[k + 1] = Parent(d, x)
  BY <1>4, <1>3, <1>1
<1> QED
  BY <1>3, <1>5, UpUnfolds

\* and nothing but the node and what is above it.
LEMMA UpLeast ==
  ASSUME NEW d, Forest(d), NEW n \in NodeIds(d), NEW S, n \in S,
         \A x \in S : Parent(d, x) # Null => Parent(d, x) \in S
  PROVE  UpIds(d, n) \subseteq S
<1> DEFINE T == {k \in Nat : k \in 0 .. MaxDepth => Up(d, n)[k] \in S \union {Null}}
<1>1. 0 \in T
  BY UpTyped
<1>2. \A k \in Nat : k \in T => k + 1 \in T
  <2> SUFFICES ASSUME NEW k \in Nat, k \in 0 .. MaxDepth => Up(d, n)[k] \in S \union {Null},
                      k + 1 \in 0 .. MaxDepth
               PROVE  Up(d, n)[k + 1] \in S \union {Null}
    OBVIOUS
  <2>1. k \in 0 .. MaxDepth /\ k + 1 > 0 /\ (k + 1) - 1 = k
    BY NodeTreeAssumption
  <2>2. Up(d, n)[k + 1] = Parent(d, Up(d, n)[(k + 1) - 1])
    BY <2>1, UpUnfolds
  <2>3. Up(d, n)[k + 1] = Parent(d, Up(d, n)[k])
    BY <2>1, <2>2
  <2> QED  BY <2>1, <2>3, NullIsNoNode
<1>3. Nat \subseteq T
  BY <1>1, <1>2, DepthInduction
<1> SUFFICES ASSUME NEW x \in UpIds(d, n) PROVE x \in S
  OBVIOUS
<1>4. PICK k \in 0 .. MaxDepth : x = Up(d, n)[k]
  BY UpUnfolds
<1>5. k \in Nat
  BY NodeTreeAssumption
<1>6. x # Null
  BY UpUnfolds
<1> QED
  BY <1>3, <1>4, <1>5, <1>6

LEMMA UpShift ==
  ASSUME NEW d, Forest(d), NEW n \in NodeIds(d), Parent(d, n) # Null
  PROVE  \A k \in 0 .. MaxDepth : k # MaxDepth => Up(d, n)[k + 1] = Up(d, Parent(d, n))[k]
<1> DEFINE T == {k \in Nat : k + 1 \in 0 .. MaxDepth => Up(d, n)[k + 1] = Up(d, Parent(d, n))[k]}
<1>0. Parent(d, n) \in NodeIds(d)
  BY NullIsNoNode
<1>1. 0 \in T
  <2> SUFFICES ASSUME 0 + 1 \in 0 .. MaxDepth PROVE Up(d, n)[0 + 1] = Up(d, Parent(d, n))[0]
    OBVIOUS
  <2>1. 0 + 1 > 0 /\ (0 + 1) - 1 = 0
    OBVIOUS
  <2>2. Up(d, n)[0 + 1] = Parent(d, Up(d, n)[(0 + 1) - 1])
    BY <2>1, UpUnfolds
  <2> QED  BY <2>1, <2>2, <1>0, UpTyped
<1>2. \A k \in Nat : k \in T => k + 1 \in T
  <2> SUFFICES ASSUME NEW k \in Nat, k + 1 \in 0 .. MaxDepth => Up(d, n)[k + 1] = Up(d, Parent(d, n))[k],
                      (k + 1) + 1 \in 0 .. MaxDepth
               PROVE  Up(d, n)[(k + 1) + 1] = Up(d, Parent(d, n))[k + 1]
    OBVIOUS
  <2>1. /\ k + 1 \in 0 .. MaxDepth /\ (k + 1) + 1 > 0 /\ ((k + 1) + 1) - 1 = k + 1
        /\ k + 1 > 0 /\ (k + 1) - 1 = k
    BY NodeTreeAssumption
  <2>2. Up(d, n)[(k + 1) + 1] = Parent(d, Up(d, n)[((k + 1) + 1) - 1])
    BY <2>1, UpUnfolds
  <2>3. Up(d, Parent(d, n))[k + 1] = Parent(d, Up(d, Parent(d, n))[(k + 1) - 1])
    BY <2>1, UpUnfolds
  <2> QED  BY <2>1, <2>2, <2>3
<1>3. Nat \subseteq T
  BY <1>1, <1>2, DepthInduction
<1>4. \A k \in 0 .. MaxDepth : k # MaxDepth => k \in Nat /\ k + 1 \in 0 .. MaxDepth
  BY NodeTreeAssumption
<1> QED
  BY <1>3, <1>4

LEMMA DownTyped ==
  ASSUME NEW d, Forest(d), NEW n \in NodeIds(d)
  PROVE  n \in Down(d, n) /\ Down(d, n) \subseteq NodeIds(d)
<1>1. 0 \in 0 .. MaxDepth
  BY NodeTreeAssumption
<1>2. \A k \in 0 .. MaxDepth : Row(d, n)[k] \subseteq NodeIds(d)
  BY DownUnfolds DEF Children
<1> QED
  BY <1>1, <1>2, DownUnfolds

LEMMA DownLeast ==
  ASSUME NEW d, NEW n, NEW S, n \in S, \A x \in S : Children(d, x) \subseteq S
  PROVE  Down(d, n) \subseteq S
<1> DEFINE T == {k \in Nat : k \in 0 .. MaxDepth => Row(d, n)[k] \subseteq S}
<1>1. 0 \in T
  BY DownUnfolds
<1>2. \A k \in Nat : k \in T => k + 1 \in T
  <2> SUFFICES ASSUME NEW k \in Nat, k \in 0 .. MaxDepth => Row(d, n)[k] \subseteq S,
                      k + 1 \in 0 .. MaxDepth
               PROVE  Row(d, n)[k + 1] \subseteq S
    OBVIOUS
  <2>1. k \in 0 .. MaxDepth /\ k + 1 # 0 /\ (k + 1) - 1 = k
    BY NodeTreeAssumption
  <2>2. Row(d, n)[k + 1] = UNION {Children(d, x) : x \in Row(d, n)[(k + 1) - 1]}
    BY <2>1, DownUnfolds
  <2>3. Row(d, n)[k + 1] = UNION {Children(d, x) : x \in Row(d, n)[k]}
    BY <2>1, <2>2
  <2> QED  BY <2>1, <2>3
<1>3. Nat \subseteq T
  BY <1>1, <1>2, DepthInduction
<1>4. \A k \in 0 .. MaxDepth : k \in Nat
  BY NodeTreeAssumption
<1> QED
  BY <1>3, <1>4, DownUnfolds

\* A node of row k below n has n k steps above it.
LEMMA RowIsUp ==
  ASSUME NEW d, Forest(d), NEW n \in NodeIds(d)
  PROVE  \A k \in 0 .. MaxDepth : \A x \in Row(d, n)[k] : x \in NodeIds(d) /\ Up(d, x)[k] = n
<1> DEFINE T == {k \in Nat : k \in 0 .. MaxDepth =>
                   \A x \in Row(d, n)[k] : x \in NodeIds(d) /\ Up(d, x)[k] = n}
<1>1. 0 \in T
  BY DownUnfolds, UpTyped
<1>2. \A k \in Nat : k \in T => k + 1 \in T
  <2> SUFFICES ASSUME NEW k \in Nat,
                      k \in 0 .. MaxDepth => \A x \in Row(d, n)[k] : x \in NodeIds(d) /\ Up(d, x)[k] = n,
                      k + 1 \in 0 .. MaxDepth, NEW y \in Row(d, n)[k + 1]
               PROVE  y \in NodeIds(d) /\ Up(d, y)[k + 1] = n
    OBVIOUS
  <2>1. k \in 0 .. MaxDepth /\ k + 1 # 0 /\ (k + 1) - 1 = k /\ k # MaxDepth
    BY NodeTreeAssumption
  <2>2. Row(d, n)[k + 1] = UNION {Children(d, x) : x \in Row(d, n)[(k + 1) - 1]}
    BY <2>1, DownUnfolds
  <2>3. PICK x \in Row(d, n)[k] : y \in Children(d, x)
    BY <2>1, <2>2
  <2>4. y \in NodeIds(d) /\ Parent(d, y) = x /\ x \in NodeIds(d) /\ Up(d, x)[k] = n
    BY <2>1, <2>3 DEF Children, Parent, Exists
  <2>5. x # Null
    BY <2>4, NullIsNoNode
  <2> QED  BY <2>1, <2>4, <2>5, UpShift
<1>3. Nat \subseteq T
  BY <1>1, <1>2, DepthInduction
<1>4. \A k \in 0 .. MaxDepth : k \in Nat
  BY NodeTreeAssumption
<1> QED
  BY <1>3, <1>4

\* The query downwards holds the children of all it holds.
LEMMA DownClosed ==
  ASSUME NEW d, Forest(d), NEW n \in NodeIds(d), NEW x \in Down(d, n), NEW y \in Children(d, x)
  PROVE  y \in Down(d, n)
<1>1. PICK k \in 0 .. MaxDepth : x \in Row(d, n)[k]
  BY DownUnfolds
<1>2. x \in NodeIds(d) /\ y \in NodeIds(d) /\ Parent(d, y) = x /\ Up(d, x)[k] = n
  BY <1>1, RowIsUp DEF Children, Parent, Exists
<1>3. x # Null /\ n # Null
  BY <1>2, NullIsNoNode
<1>4. k # MaxDepth
  <2> SUFFICES ASSUME k = MaxDepth PROVE FALSE
    OBVIOUS
  <2>1. CASE MaxDepth = 0
    BY <2>1, <1>2, <1>3, UpTyped, UpEnds
  <2>2. CASE MaxDepth # 0
    <3>1. /\ MaxDepth - 1 \in 0 .. MaxDepth /\ MaxDepth - 1 # MaxDepth /\ (MaxDepth - 1) + 1 = MaxDepth
          /\ MaxDepth \in 0 .. MaxDepth /\ MaxDepth > 0
      BY <2>2, NodeTreeAssumption
    <3>2. Up(d, y)[(MaxDepth - 1) + 1] = Up(d, x)[MaxDepth - 1]
      BY <3>1, <1>2, <1>3, UpShift
    <3>3. Up(d, x)[MaxDepth] = Parent(d, Up(d, x)[MaxDepth - 1])
      BY <3>1, UpUnfolds
    <3> QED  BY <3>1, <3>2, <3>3, <1>2, <1>3, UpEnds
  <2> QED  BY <2>1, <2>2
<1>5. k + 1 \in 0 .. MaxDepth /\ k + 1 # 0 /\ (k + 1) - 1 = k
  BY <1>4, NodeTreeAssumption
<1>6. Row(d, n)[k + 1] = UNION {Children(d, z) : z \in Row(d, n)[(k + 1) - 1]}
  BY <1>5, DownUnfolds
<1>7. y \in Row(d, n)[k + 1]
  BY <1>5, <1>6, <1>1
<1> QED
  BY <1>5, <1>7, DownUnfolds

\* The query down finds exactly the nodes from which the query up finds the node.
LEMMA DownIsBelow ==
  ASSUME NEW d, Forest(d), NEW n \in NodeIds(d)
  PROVE  Down(d, n) = {x \in NodeIds(d) : n \in UpIds(d, x)}
<1>1. ASSUME NEW x \in Down(d, n) PROVE x \in NodeIds(d) /\ n \in UpIds(d, x)
  <2>1. PICK k \in 0 .. MaxDepth : x \in Row(d, n)[k]
    BY DownUnfolds
  <2>2. x \in NodeIds(d) /\ Up(d, x)[k] = n
    BY <2>1, RowIsUp
  <2> QED  BY <2>2, UpUnfolds, NullIsNoNode
<1>2. ASSUME NEW x \in NodeIds(d), n \in UpIds(d, x) PROVE x \in Down(d, n)
  <2> SUFFICES ASSUME x \notin Down(d, n) PROVE FALSE
    OBVIOUS
  <2> DEFINE S == NodeIds(d) \ Down(d, n)
  <2>1. x \in S
    OBVIOUS
  <2>2. \A z \in S : Parent(d, z) # Null => Parent(d, z) \in S
    <3> SUFFICES ASSUME NEW z \in S, Parent(d, z) # Null, Parent(d, z) \in Down(d, n) PROVE FALSE
      BY NullIsNoNode
    <3>1. z \in Children(d, Parent(d, z))
      BY DEF Children, Parent, Exists
    <3> QED  BY <3>1, DownClosed
  <2> HIDE DEF S
  <2>3. UpIds(d, x) \subseteq S
    BY <2>1, <2>2, UpLeast
  <2> QED  BY <2>3, <1>2, DownTyped DEF S
<1> QED
  BY <1>1, <1>2

-----------------------------------------------------------------------------
(* Tables that are sound.                                                  *)

Rows == [owner : Users, parent : 0 .. MaxNode, folder : BOOLEAN, of : 1 .. MaxNode]
Runs == [owner : Users, node : 1 .. MaxNode, live : BOOLEAN]

Typed(d) ==
  /\ d = [node |-> d.node, share |-> d.share, pshare |-> d.pshare, next |-> d.next, proc |-> d.proc]
  /\ d.next \in 1 .. MaxNode + 1
  /\ NodeIds(d) \subseteq 1 .. d.next - 1 /\ d.node \in [NodeIds(d) -> Rows]
  /\ d.share \in [DOMAIN d.share -> Perms] /\ DOMAIN d.share \subseteq NodeIds(d) \X Users
  /\ d.pshare \in [DOMAIN d.pshare -> Perms] /\ DOMAIN d.pshare \subseteq (DOMAIN d.proc) \X Users
  /\ d.proc \in [DOMAIN d.proc -> Runs] /\ DOMAIN d.proc \subseteq Procs
  /\ \A p \in DOMAIN d.proc : d.proc[p].node < d.next

Fits(d, f, owner) == f = Null \/ (Exists(d, f) /\ d.node[f].folder /\ d.node[f].owner = owner)

Sound(d) ==
  /\ Typed(d)
  /\ \A n \in NodeIds(d) : Fits(d, Parent(d, n), d.node[n].owner)
  /\ \A s \in DOMAIN d.share : d.node[s[1]].folder
  /\ \A p \in DOMAIN d.proc :
       Exists(d, d.proc[p].node) => d.node[d.proc[p].node].owner = d.proc[p].owner
  /\ Rooted(d)

\* Tables that are sound hold a forest.
LEMMA SoundForest ==
  ASSUME NEW d, Sound(d)
  PROVE  Forest(d)
<1>1. 1 .. d.next - 1 \subseteq 1 .. MaxNode
  BY NodeTreeAssumption DEF Sound, Typed
<1> QED
  BY <1>1 DEF Sound, Typed, Forest, Fits, Exists

LEMMA UpOfNone ==
  ASSUME NEW d, Forest(d), NEW n, n \notin NodeIds(d)
  PROVE  UpIds(d, n) = {} /\ \A k \in 0 .. MaxDepth : Up(d, n)[k] = Null
<1> DEFINE T == {k \in Nat : k \in 0 .. MaxDepth => Up(d, n)[k] = Null}
<1>1. 0 \in T
  BY UpUnfolds DEF Exists
<1>2. \A k \in Nat : k \in T => k + 1 \in T
  <2> SUFFICES ASSUME NEW k \in Nat, k \in 0 .. MaxDepth => Up(d, n)[k] = Null, k + 1 \in 0 .. MaxDepth
               PROVE  Up(d, n)[k + 1] = Null
    OBVIOUS
  <2>1. k \in 0 .. MaxDepth /\ k + 1 > 0 /\ (k + 1) - 1 = k
    BY NodeTreeAssumption
  <2>2. Up(d, n)[k + 1] = Parent(d, Up(d, n)[(k + 1) - 1])
    BY <2>1, UpUnfolds
  <2> QED  BY <2>1, <2>2, NullIsNoNode
<1>3. Nat \subseteq T
  BY <1>1, <1>2, DepthInduction
<1>4. \A k \in 0 .. MaxDepth : k \in Nat
  BY NodeTreeAssumption
<1>5. \A k \in 0 .. MaxDepth : Up(d, n)[k] = Null
  BY <1>3, <1>4
<1> QED
  BY <1>5, UpUnfolds

LEMMA UpStep ==
  ASSUME NEW d, Forest(d), NEW n \in NodeIds(d)
  PROVE  UpIds(d, n) = {n} \union UpIds(d, Parent(d, n))
<1> DEFINE f == Parent(d, n)
<1>1. CASE f = Null
  <2>1. UpIds(d, f) = {}
    BY <1>1, UpOfNone, NullIsNoNode
  <2>2. UpIds(d, n) \subseteq {n}
    <3>1. n \in {n} /\ \A x \in {n} : Parent(d, x) # Null => Parent(d, x) \in {n}
      BY <1>1
    <3> QED  BY <3>1, UpLeast
  <2> QED  BY <2>1, <2>2, UpTyped
<1>2. CASE f # Null
  <2>1. f \in NodeIds(d)
    BY <1>2, NullIsNoNode
  <2>2. UpIds(d, f) \subseteq UpIds(d, n)
    <3>1. f \in UpIds(d, n)
      BY <1>2, UpClosed, UpTyped
    <3>2. \A x \in UpIds(d, n) : Parent(d, x) # Null => Parent(d, x) \in UpIds(d, n)
      BY UpClosed
    <3> QED  BY <3>1, <3>2, <2>1, UpLeast
  <2>3. UpIds(d, n) \subseteq {n} \union UpIds(d, f)
    <3>1. \A x \in UpIds(d, f) : Parent(d, x) # Null => Parent(d, x) \in UpIds(d, f)
      BY <2>1, UpClosed
    <3>2. f \in UpIds(d, f)
      BY <2>1, UpTyped
    <3> DEFINE S == {n} \union UpIds(d, f)
    <3>3. n \in S /\ \A x \in S : Parent(d, x) # Null => Parent(d, x) \in S
      BY <3>1, <3>2
    <3> HIDE DEF S
    <3>4. UpIds(d, n) \subseteq S
      BY <3>3, UpLeast
    <3> QED  BY <3>4 DEF S
  <2> QED  BY <2>2, <2>3, UpTyped
<1> QED
  BY <1>1, <1>2

LEMMA UpTransitive ==
  ASSUME NEW d, Forest(d), NEW n \in NodeIds(d), NEW x \in UpIds(d, n)
  PROVE  UpIds(d, x) \subseteq UpIds(d, n)
<1>1. \A y \in UpIds(d, n) : Parent(d, y) # Null => Parent(d, y) \in UpIds(d, n)
  BY UpClosed
<1>2. x \in NodeIds(d)
  BY UpTyped
<1> QED
  BY <1>1, <1>2, UpLeast

\* Of two nodes above a third, one is above the other.
LEMMA UpIsChain ==
  ASSUME NEW d, Forest(d), NEW m \in NodeIds(d), NEW a \in UpIds(d, m), NEW b \in UpIds(d, m)
  PROVE  a \in UpIds(d, b) \/ b \in UpIds(d, a)
<1> DEFINE S == {x \in NodeIds(d) : a \in UpIds(d, x) \/ x \in UpIds(d, a)}
<1>0. a \in NodeIds(d)
  BY UpTyped
<1>1. m \in S
  OBVIOUS
<1>2. ASSUME NEW x \in S, Parent(d, x) # Null PROVE Parent(d, x) \in S
  <2>1. Parent(d, x) \in NodeIds(d)
    BY <1>2, NullIsNoNode
  <2>2. CASE x \in UpIds(d, a)
    BY <1>0, <1>2, <2>1, <2>2, UpClosed
  <2>3. CASE a \in UpIds(d, x)
    <3>1. a = x \/ a \in UpIds(d, Parent(d, x))
      BY <2>3, UpStep
    <3>2. a = x => Parent(d, x) \in UpIds(d, a)
      BY <1>0, <1>2, UpTyped, UpClosed
    <3> QED  BY <3>1, <3>2, <2>1
  <2> QED  BY <2>2, <2>3
<1> HIDE DEF S
<1>3. UpIds(d, m) \subseteq S
  BY <1>1, <1>2, UpLeast
<1> QED
  BY <1>3 DEF S

\* No node is above itself.
LEMMA NotItsOwnAncestor ==
  ASSUME NEW d, Forest(d), NEW n \in NodeIds(d)
  PROVE  n \notin UpIds(d, Parent(d, n))
<1> SUFFICES ASSUME n \in UpIds(d, Parent(d, n)) PROVE FALSE
  OBVIOUS
<1> DEFINE f == Parent(d, n)
<1>1. f \in NodeIds(d) /\ f # Null
  BY UpOfNone, NullIsNoNode
<1> DEFINE S == {x \in UpIds(d, f) : n \in UpIds(d, x)}
<1>2. S \in SUBSET NodeIds(d) /\ n \in S
  BY <1>1, UpTyped
<1>3. ASSUME NEW x \in S PROVE Parent(d, x) \in S
  <2>0. x \in NodeIds(d) /\ x \in UpIds(d, f) /\ n \in UpIds(d, x)
    BY <1>2, <1>3
  <2>1. CASE x = n
    BY <2>1, <1>1, UpTyped
  <2>2. CASE x # n
    <3>1. n \in UpIds(d, Parent(d, x))
      BY <2>0, <2>2, UpStep
    <3>2. Parent(d, x) # Null
      BY <3>1, UpOfNone, NullIsNoNode
    <3> QED  BY <3>1, <3>2, <2>0, <1>1, UpClosed
  <2> QED  BY <2>1, <2>2
<1> HIDE DEF S
<1> QED
  BY <1>2, <1>3 DEF Forest, Rooted

LEMMA NothingBelowAbove ==
  ASSUME NEW d, Forest(d), NEW n \in NodeIds(d)
  PROVE  Down(d, n) \intersect (UpIds(d, n) \ {n}) = {}
<1> SUFFICES ASSUME NEW x \in Down(d, n), x \in UpIds(d, n), x # n PROVE FALSE
  OBVIOUS
<1>1. x \in NodeIds(d) /\ n \in UpIds(d, x)
  BY DownIsBelow
<1>2. x \in UpIds(d, Parent(d, n))
  BY UpStep
<1>3. Parent(d, n) \in NodeIds(d)
  BY <1>2, UpOfNone
<1>4. n \in UpIds(d, Parent(d, n))
  BY <1>1, <1>2, <1>3, UpTransitive
<1> QED
  BY <1>4, NotItsOwnAncestor

\* Induction from the roots down.
LEMMA TreeInduction ==
  ASSUME NEW d, Forest(d), NEW S,
         \A n \in NodeIds(d) : Parent(d, n) = Null \/ Parent(d, n) \in S => n \in S
  PROVE  NodeIds(d) \subseteq S
<1> DEFINE R == NodeIds(d) \ S
<1> SUFFICES ASSUME R # {} PROVE FALSE
  OBVIOUS
<1>1. R \in SUBSET NodeIds(d)
  OBVIOUS
<1>2. PICK n \in R : Parent(d, n) \notin R
  BY <1>1 DEF Forest, Rooted
<1> QED
  BY <1>2, NullIsNoNode

-----------------------------------------------------------------------------
(* Permissions.                                                            *)

LEMMA LeastOf ==
  ASSUME NEW S, S \subseteq Nat, S # {}
  PROVE  Min(S) \in S /\ \A y \in S : Min(S) <= y
<1>1. PICK n \in S : \A m \in 0 .. n - 1 : m \notin S
  BY LeastDepth
<1>2. \A y \in S : n <= y
  <2> SUFFICES ASSUME NEW y \in S, ~(n <= y) PROVE FALSE
    OBVIOUS
  <2>1. y \in 0 .. n - 1
    OBVIOUS
  <2> QED  BY <2>1, <1>1
<1>3. \E x \in S : \A y \in S : x <= y
  BY <1>2
<1> QED
  BY <1>3 DEF Min

LEMMA NearestIsShare ==
  ASSUME NEW d, Sound(d), NEW u, NEW n
  PROVE  \/ NearestNodeShare(d, u, n) = Null
         \/ /\ NearestNodeShare(d, u, n) \in UpIds(d, n)
            /\ <<NearestNodeShare(d, u, n), u>> \in DOMAIN d.share
<1> DEFINE hit == {k \in 0 .. MaxDepth : <<Up(d, n)[k], u>> \in DOMAIN d.share}
<1>1. NearestNodeShare(d, u, n) = IF hit = {} THEN Null ELSE Up(d, n)[Min(hit)]
  BY DEF NearestNodeShare
<1>2. hit \subseteq Nat
  BY NodeTreeAssumption
<1> SUFFICES ASSUME hit # {} PROVE /\ NearestNodeShare(d, u, n) \in UpIds(d, n)
                                   /\ <<NearestNodeShare(d, u, n), u>> \in DOMAIN d.share
  BY <1>1
<1>3. Min(hit) \in hit
  BY <1>2, LeastOf
<1>4. Min(hit) \in 0 .. MaxDepth /\ <<Up(d, n)[Min(hit)], u>> \in DOMAIN d.share
  BY <1>3
<1>5. Up(d, n)[Min(hit)] # Null
  BY <1>4, SoundForest, NullIsNoNode DEF Sound, Typed
<1>6. NearestNodeShare(d, u, n) = Up(d, n)[Min(hit)]
  BY <1>1
<1> DEFINE m == Min(hit)
<1>7. m \in 0 .. MaxDepth /\ Up(d, n)[m] # Null /\ <<Up(d, n)[m], u>> \in DOMAIN d.share
  BY <1>4, <1>5
<1> HIDE DEF m
<1>8. Up(d, n)[m] \in UpIds(d, n)
  BY <1>7, UpUnfolds
<1> QED
  BY <1>6, <1>7, <1>8 DEF m

\* The nearest share of a node: its own, or that nearest to its parent.
LEMMA NearestStep ==
  ASSUME NEW d, Sound(d), NEW u, NEW n \in NodeIds(d)
  PROVE  NearestNodeShare(d, u, n) =
           IF <<n, u>> \in DOMAIN d.share THEN n ELSE NearestNodeShare(d, u, Parent(d, n))
<1> DEFINE f == Parent(d, n)
           Hit(m) == {k \in 0 .. MaxDepth : <<Up(d, m)[k], u>> \in DOMAIN d.share}
<1>0. Forest(d)
  BY SoundForest
<1>1. \A m : NearestNodeShare(d, u, m) = IF Hit(m) = {} THEN Null ELSE Up(d, m)[Min(Hit(m))]
  BY DEF NearestNodeShare
<1>2. \A m : Hit(m) \subseteq Nat
  BY NodeTreeAssumption
<1>3. Up(d, n)[0] = n /\ 0 \in 0 .. MaxDepth /\ MaxDepth \in Nat
  BY <1>0, UpTyped, NodeTreeAssumption
<1>4. <<Null, u>> \notin DOMAIN d.share
  BY <1>0, NullIsNoNode DEF Sound, Typed
<1>5. CASE <<n, u>> \in DOMAIN d.share
  <2>1. 0 \in Hit(n)
    BY <1>3, <1>5
  <2> HIDE DEF Hit
  <2>2. Min(Hit(n)) \in Nat /\ Min(Hit(n)) <= 0
    BY <1>2, <2>1, LeastOf
  <2>3. Min(Hit(n)) = 0
    BY <2>2
  <2> QED  BY <1>1, <2>1, <2>3, <1>3, <1>5
<1>6. CASE <<n, u>> \notin DOMAIN d.share
  <2>1. \A k \in Hit(n) : k > 0 /\ k - 1 \in 0 .. MaxDepth /\ k - 1 # MaxDepth /\ (k - 1) + 1 = k
    <3> TAKE k \in Hit(n)
    <3>1. k \in 0 .. MaxDepth /\ k # 0
      BY <1>3, <1>6
    <3> QED  BY <3>1, <1>3
  <2>2. CASE f = Null
    <3>1. \A m : Hit(f) = {}
      BY <2>2, <1>0, UpOfNone, NullIsNoNode, <1>4
    <3>2. Hit(n) = {}
      <4> SUFFICES ASSUME NEW k \in Hit(n) PROVE FALSE
        OBVIOUS
      <4>1. k \in 0 .. MaxDepth /\ k > 0 /\ Up(d, n)[k] \in UpIds(d, n) 
        BY <2>1, <1>4, UpUnfolds
      <4>2. Up(d, n)[k] = n
        BY <4>1, <2>2, <1>0, UpStep, UpOfNone, NullIsNoNode
      <4> QED  BY <4>2, <1>6
    <3> HIDE DEF Hit
    <3> QED  BY <3>1, <3>2, <1>1, <1>6
  <2>3. CASE f # Null
    <3>0. f \in NodeIds(d)
      BY <2>3, <1>0, NullIsNoNode
    <3>1. \A k \in 0 .. MaxDepth : k # MaxDepth => Up(d, n)[k + 1] = Up(d, f)[k]
      BY <2>3, <1>0, UpShift
    <3>2. Up(d, f)[MaxDepth] = Null
      <4>1. CASE MaxDepth = 0
        BY <4>1, <1>0, <1>3, UpEnds, <2>3
      <4>2. CASE MaxDepth # 0
        <5>1. /\ MaxDepth - 1 \in 0 .. MaxDepth /\ MaxDepth - 1 # MaxDepth
              /\ (MaxDepth - 1) + 1 = MaxDepth /\ MaxDepth > 0 /\ MaxDepth \in 0 .. MaxDepth
          BY <4>2, <1>3
        <5>2. Up(d, n)[(MaxDepth - 1) + 1] = Up(d, f)[MaxDepth - 1]
          BY <5>1, <3>1
        <5>3. Up(d, f)[MaxDepth] = Parent(d, Up(d, f)[MaxDepth - 1])
          BY <5>1, UpUnfolds
        <5> QED  BY <5>1, <5>2, <5>3, <1>0, UpEnds
      <4> QED  BY <4>1, <4>2
    <3>3. \A k \in Hit(n) : k - 1 \in Hit(f) /\ Up(d, f)[k - 1] = Up(d, n)[k]
      <4> TAKE k \in Hit(n)
      <4>1. Up(d, n)[(k - 1) + 1] = Up(d, f)[k - 1]
        BY <2>1, <3>1
      <4> QED  BY <4>1, <2>1
    <3>4. \A k \in Hit(f) : k \in Nat /\ k + 1 \in Hit(n)
      <4> SUFFICES ASSUME NEW k \in 0 .. MaxDepth, <<Up(d, f)[k], u>> \in DOMAIN d.share
                   PROVE  k \in Nat /\ k + 1 \in Hit(n)
        OBVIOUS
      <4>1. k # MaxDepth
        BY <3>2, <1>4
      <4>2. k \in Nat /\ k + 1 \in 0 .. MaxDepth
        BY <4>1, <1>3
      <4> QED  BY <4>1, <4>2, <3>1
    <3> DEFINE A == Hit(n)
               B == Hit(f)
    <3>5. A \subseteq Nat /\ B \subseteq Nat
      BY <1>2
    <3>6. /\ \A k \in A : k - 1 \in B /\ Up(d, f)[k - 1] = Up(d, n)[k]
          /\ \A k \in B : k + 1 \in A
      BY <3>3, <3>4
    <3>7. /\ NearestNodeShare(d, u, n) = IF A = {} THEN Null ELSE Up(d, n)[Min(A)]
          /\ NearestNodeShare(d, u, f) = IF B = {} THEN Null ELSE Up(d, f)[Min(B)]
      BY <1>1
    <3> HIDE DEF A, B, Hit
    <3>8. CASE A = {}
      BY <3>8, <3>6, <3>7, <1>6
    <3>9. CASE A # {}
      <4>1. Min(A) \in A /\ \A y \in A : Min(A) <= y
        BY <3>5, <3>9, LeastOf
      <4>2. B # {}
        BY <4>1, <3>6
      <4>3. Min(B) \in B /\ \A y \in B : Min(B) <= y
        BY <3>5, <4>2, LeastOf
      <4>4. Min(A) - 1 \in B /\ Min(B) + 1 \in A /\ Min(A) \in Nat /\ Min(B) \in Nat
        BY <4>1, <4>3, <3>6, <3>5
      <4>5. Min(B) <= Min(A) - 1 /\ Min(A) <= Min(B) + 1
        BY <4>1, <4>3, <4>4
      <4>6. Min(B) = Min(A) - 1
        BY <4>4, <4>5
      <4> QED  BY <4>1, <4>2, <4>6, <3>6, <3>7, <3>9, <1>6
    <3> QED  BY <3>8, <3>9
  <2> QED  BY <2>2, <2>3
<1> QED
  BY <1>5, <1>6

LEMMA PermissionTyped ==
  ASSUME NEW d, Sound(d), NEW u, NEW n
  PROVE  /\ NodePermission(d, u, n) \in Perms \union {Owner}
         /\ n \notin NodeIds(d) => NodePermission(d, u, n) = Block
<1>1. n \notin NodeIds(d) => NearestNodeShare(d, u, n) = Null
  BY SoundForest, UpOfNone, NearestIsShare
<1>2. Block \in Perms
  BY DEF Perms
<1> QED
  BY <1>1, <1>2, NearestIsShare DEF NodePermission, Sound, Typed, Exists

\* The permission of a node: its owner's, its own share's, or that of its parent.
LEMMA PermissionStep ==
  ASSUME NEW d, Sound(d), NEW u, NEW n \in NodeIds(d)
  PROVE  NodePermission(d, u, n) =
           IF d.node[n].owner = u THEN Owner
           ELSE IF <<n, u>> \in DOMAIN d.share THEN d.share[<<n, u>>]
           ELSE NodePermission(d, u, Parent(d, n))
<1>0. Forest(d)
  BY SoundForest
<1>1. CASE d.node[n].owner = u
  BY <1>1 DEF NodePermission, Exists
<1>2. CASE d.node[n].owner # u /\ <<n, u>> \in DOMAIN d.share
  <2>1. n # Null
    BY <1>0, NullIsNoNode
  <2> QED  BY <2>1, <1>2, NearestStep DEF NodePermission
<1>3. CASE d.node[n].owner # u /\ <<n, u>> \notin DOMAIN d.share
  <2>1. NearestNodeShare(d, u, n) = NearestNodeShare(d, u, Parent(d, n))
    BY <1>3, NearestStep
  <2>2. ~(Exists(d, Parent(d, n)) /\ d.node[Parent(d, n)].owner = u)
    BY <1>0, <1>3, NullIsNoNode DEF Sound, Fits, Exists
  <2> QED  BY <2>1, <2>2, <1>3 DEF NodePermission
<1> QED
  BY <1>1, <1>2, <1>3

-----------------------------------------------------------------------------
(* What the statements say.                                                *)

LEMMA OwnerIffOwns ==
  ASSUME NEW d, Sound(d), NEW u, NEW n \in NodeIds(d)
  PROVE  (NodePermission(d, u, n) = Owner) <=> (d.node[n].owner = u)
<1>1. Owner \notin Perms
  BY DEF Owner, Perms, Block, View, Operate, Edit
<1>2. Block # Owner
  BY DEF Owner, Block
<1> QED
  BY <1>1, <1>2, NearestIsShare DEF NodePermission, Sound, Typed, Exists

\* All on the way up from a node have its owner.
LEMMA OwnerAlong ==
  ASSUME NEW d, Sound(d), NEW m \in NodeIds(d), NEW x \in UpIds(d, m)
  PROVE  d.node[x].owner = d.node[m].owner
<1> DEFINE S == {y \in NodeIds(d) : d.node[y].owner = d.node[m].owner}
<1>1. m \in S
  OBVIOUS
<1>2. \A y \in S : Parent(d, y) # Null => Parent(d, y) \in S
  BY DEF Sound, Fits, Exists
<1> HIDE DEF S
<1>3. UpIds(d, m) \subseteq S
  BY <1>1, <1>2, SoundForest, UpLeast
<1> QED
  BY <1>3 DEF S

\* Who has a right on a node without owning it has been given one on the way up.
LEMMA RightIsShared ==
  ASSUME NEW d, Sound(d), NEW u, NEW n,
         NodePermission(d, u, n) # Block, ~(Exists(d, n) /\ d.node[n].owner = u)
  PROVE  /\ Exists(d, n) /\ u \in SharedOn(d, UpIds(d, n))
         /\ NearestNodeShare(d, u, n) \in UpIds(d, n)
         /\ <<NearestNodeShare(d, u, n), u>> \in DOMAIN d.share
         /\ NodePermission(d, u, n) = d.share[<<NearestNodeShare(d, u, n), u>>]
<1> DEFINE src == NearestNodeShare(d, u, n)
<1>1. src # Null
  BY DEF NodePermission
<1>2. src \in UpIds(d, n) /\ <<src, u>> \in DOMAIN d.share
  BY <1>1, NearestIsShare
<1>3. <<src, u>> \in {r \in DOMAIN d.share : r[1] \in UpIds(d, n)} /\ <<src, u>>[2] = u
  BY <1>2
<1>4. u \in SharedOn(d, UpIds(d, n))
  BY <1>3 DEF SharedOn
<1>5. n \in NodeIds(d)
  BY <1>2, SoundForest, UpOfNone
<1> QED
  BY <1>1, <1>2, <1>4, <1>5 DEF NodePermission, Exists

LEMMA SharedAreUsers ==
  ASSUME NEW d, Typed(d), NEW ns
  PROVE  SharedOn(d, ns) \subseteq Users
BY DEF SharedOn, Typed

\* The accounts a query of a process starts from.
Candidates(d, p) ==
  {s[2] : s \in {r \in DOMAIN d.pshare : r[1] = p}} \union SharedOn(d, UpIds(d, d.proc[p].node))

\* Who may view a process is its owner or among the accounts a query starts from.
LEMMA CandidatesSuffice ==
  ASSUME NEW d, Sound(d), NEW p \in DOMAIN d.proc, NEW u, ProcessPermission(d, u, p) > Block
  PROVE  u = d.proc[p].owner \/ u \in Candidates(d, p)
<1>1. CASE <<p, u>> \in DOMAIN d.pshare
  <2>1. <<p, u>> \in {r \in DOMAIN d.pshare : r[1] = p} /\ <<p, u>>[2] = u
    BY <1>1
  <2> QED  BY <2>1 DEF Candidates
<1>2. CASE <<p, u>> \notin DOMAIN d.pshare /\ u # d.proc[p].owner
  <2> DEFINE n == d.proc[p].node
  <2>1. NodePermission(d, u, n) > Block
    BY <1>2 DEF ProcessPermission
  <2>2. NodePermission(d, u, n) # Block
    BY <2>1 DEF Block
  <2>3. ~(Exists(d, n) /\ d.node[n].owner = u)
    BY <1>2 DEF Sound
  <2> QED  BY <2>2, <2>3, RightIsShared DEF Candidates
<1> QED
  BY <1>1, <1>2

LEMMA CandidatesAreUsers ==
  ASSUME NEW d, Sound(d), NEW p \in DOMAIN d.proc
  PROVE  Candidates(d, p) \subseteq Users /\ d.proc[p].owner \in Users
<1>1. Typed(d)
  BY DEF Sound
<1>2. {s[2] : s \in {r \in DOMAIN d.pshare : r[1] = p}} \subseteq Users
  BY <1>1 DEF Typed
<1>3. d.proc[p].owner \in Users
  BY <1>1 DEF Typed, Runs
<1> QED
  BY <1>1, <1>2, <1>3, SharedAreUsers DEF Candidates

\* ListProcessViewers finds those, and only those, who may view the process.
LEMMA ViewersRight ==
  ASSUME NEW d, Sound(d), NEW p \in DOMAIN d.proc
  PROVE  ListProcessViewers(d, p) = {u \in Users : ProcessPermission(d, u, p) > Block}
<1>1. ListProcessViewers(d, p) =
        {u \in {d.proc[p].owner} \union Candidates(d, p) : ProcessPermission(d, u, p) > Block}
  BY DEF ListProcessViewers, Candidates
<1> QED
  BY <1>1, CandidatesSuffice, CandidatesAreUsers

\* ListProcessShareEntries leaves out nobody with a right.
LEMMA ProcessSharesRight ==
  ASSUME NEW d, Sound(d), NEW p \in DOMAIN d.proc, NEW u, u # d.proc[p].owner,
         ProcessPermission(d, u, p) > Block
  PROVE  <<u, ProcessPermission(d, u, p)>> \in ListProcessShareEntries(d, p)
<1>1. u \in Candidates(d, p) \ {d.proc[p].owner}
  BY CandidatesSuffice
<1> QED
  BY <1>1 DEF ListProcessShareEntries, Candidates

LEMMA DownStep ==
  ASSUME NEW d, Forest(d), NEW n \in NodeIds(d)
  PROVE  Down(d, n) \ {n} = UNION {Children(d, g) : g \in Down(d, n)}
<1>1. ASSUME NEW x \in Down(d, n), x # n PROVE \E g \in Down(d, n) : x \in Children(d, g)
  <2>1. x \in NodeIds(d) /\ n \in UpIds(d, x)
    BY DownIsBelow
  <2>2. n \in UpIds(d, Parent(d, x))
    BY <2>1, <1>1, UpStep
  <2>3. Parent(d, x) \in NodeIds(d)
    BY <2>2, UpOfNone
  <2>4. Parent(d, x) \in Down(d, n)
    BY <2>2, <2>3, DownIsBelow
  <2>5. x \in Children(d, Parent(d, x))
    BY <2>1 DEF Children, Parent, Exists
  <2> QED  BY <2>4, <2>5
<1>2. ASSUME NEW g \in Down(d, n), NEW x \in Children(d, g) PROVE x \in Down(d, n) /\ x # n
  <2>1. x \in Down(d, n)
    BY DownClosed
  <2>2. g \in NodeIds(d) /\ n \in UpIds(d, g) /\ Parent(d, x) = g
    BY DownIsBelow DEF Children, Parent, Exists
  <2> QED  BY <2>1, <2>2, NotItsOwnAncestor
<1> QED
  BY <1>1, <1>2

\* The runs in a subtree are those of the folders in it, taken one by one.
LEMMA RunsRight ==
  ASSUME NEW d, Sound(d), NEW u, NEW f \in NodeIds(d)
  PROVE  ListVisibleRunsInSubtree(d, u, f) \ VisibleRuns(d, u, {f}) =
           UNION {ListVisibleRunsInFolder(d, u, g) : g \in Down(d, f)}
<1>1. f # Null
  BY SoundForest, NullIsNoNode
<1>2. Down(d, f) \ {f} = UNION {Children(d, g) : g \in Down(d, f)}
  BY SoundForest, DownStep
<1> DEFINE D == Down(d, f)
           L == ListVisibleLiveProcesses(d, u)
<1>3. D \ {f} = UNION {Children(d, g) : g \in D}
  BY <1>2
<1>4. ListVisibleRunsInSubtree(d, u, f) = {p \in L : d.proc[p].node \in D}
  BY <1>1 DEF ListVisibleRunsInSubtree, VisibleRuns
<1>5. \A g \in D : ListVisibleRunsInFolder(d, u, g) = {p \in L : d.proc[p].node \in Children(d, g)}
  BY DEF ListVisibleRunsInFolder, VisibleRuns
<1>6. VisibleRuns(d, u, {f}) = {p \in L : d.proc[p].node = f}
  BY DEF VisibleRuns
<1> HIDE DEF D, L
<1>7. {p \in L : d.proc[p].node \in D} \ {p \in L : d.proc[p].node = f} =
        UNION {{p \in L : d.proc[p].node \in Children(d, g)} : g \in D}
  BY <1>3
<1>8. UNION {ListVisibleRunsInFolder(d, u, g) : g \in D} =
        UNION {{p \in L : d.proc[p].node \in Children(d, g)} : g \in D}
  BY <1>5
<1>9. ListVisibleRunsInSubtree(d, u, f) \ VisibleRuns(d, u, {f}) =
        UNION {ListVisibleRunsInFolder(d, u, g) : g \in D}
  BY <1>4, <1>6, <1>7, <1>8
<1> QED
  BY <1>9 DEF D

\* ListNodeShareEntries leaves out nobody with a right.
LEMMA NodeSharesRight ==
  ASSUME NEW d, Sound(d), NEW u, NEW n \in NodeIds(d), d.node[n].owner # u,
         NodePermission(d, u, n) > Block
  PROVE  <<u, NodePermission(d, u, n)>> \in {<<e[1], e[3]>> : e \in ListNodeShareEntries(d, n)}
<1>1. NodePermission(d, u, n) # Block
  BY DEF Block
<1>2. /\ u \in SharedOn(d, UpIds(d, n)) \ {d.node[n].owner}
      /\ NodePermission(d, u, n) = d.share[<<NearestNodeShare(d, u, n), u>>]
  BY <1>1, RightIsShared DEF Exists
<1> DEFINE e == <<u, NearestNodeShare(d, u, n), d.share[<<NearestNodeShare(d, u, n), u>>]>>
<1>3. e \in ListNodeShareEntries(d, n)
  BY <1>2 DEF ListNodeShareEntries
<1>4. e[1] = u /\ e[3] = NodePermission(d, u, n)
  BY <1>2
<1> QED
  BY <1>3, <1>4

\* The list of a folder, found from the permission on the folder alone, is right.
LEMMA ListIsRight ==
  ASSUME NEW d, Sound(d), NEW u, NEW f \in NodeIds(d), NodePermission(d, u, f) # Block
  PROVE  /\ ListChildrenVisible(d, u, f, NodePermission(d, u, f)) =
              {<<m, NodePermission(d, u, m)>> :
                 m \in {c \in Children(d, f) : NodePermission(d, u, c) > Block}}
         /\ ListOf(d, u, f) = {<<m, NodePermission(d, u, m)>> :
                 m \in {c \in Children(d, f) : NodePermission(d, u, c) > Block}}
<1> DEFINE up == NodePermission(d, u, f)
           perm(n) == IF up = Owner THEN Owner
                      ELSE IF <<n, u>> \in DOMAIN d.share THEN d.share[<<n, u>>] ELSE up
<1>1. ASSUME NEW n \in Children(d, f) PROVE perm(n) = NodePermission(d, u, n)
  <2>1. n \in NodeIds(d) /\ Parent(d, n) = f
    BY DEF Children, Parent, Exists
  <2>2. f # Null
    BY SoundForest, NullIsNoNode
  <2>3. d.node[n].owner = d.node[f].owner
    BY <2>1, <2>2 DEF Sound, Fits
  <2>4. (up = Owner) <=> (d.node[n].owner = u)
    BY <2>3, OwnerIffOwns
  <2> QED  BY <2>1, <2>4, PermissionStep
<1>2. ListChildrenVisible(d, u, f, up) = {<<n, perm(n)>> : n \in {m \in Children(d, f) : perm(m) > Block}}
  BY DEF ListChildrenVisible
<1>3. f # Null
  BY SoundForest, NullIsNoNode
<1>4. ListOf(d, u, f) = ListChildrenVisible(d, u, f, up)
  BY <1>3 DEF ListOf
<1> HIDE DEF perm
<1>5. {<<n, perm(n)>> : n \in {m \in Children(d, f) : perm(m) > Block}} =
        {<<m, NodePermission(d, u, m)>> :
                 m \in {c \in Children(d, f) : NodePermission(d, u, c) > Block}}
  BY <1>1
<1> QED
  BY <1>2, <1>4, <1>5

\* What an account may view stands in a list it can open.
LEMMA SeenIsListed ==
  ASSUME NEW d, Sound(d), NEW u, NEW n \in NodeIds(d), NodePermission(d, u, n) > Block
  PROVE  \E f \in Open(d, u) : <<n, NodePermission(d, u, n)>> \in ListOf(d, u, f)
<1> DEFINE f == Parent(d, n)
<1>0. Null \in Open(d, u) /\ ListOf(d, u, Null) = OwnRoots(d, u) \union ListSharedRoots(d, u)
  BY DEF Open, ListOf
<1>1. n \in Children(d, f) /\ f \in NodeIds(d) \union {Null}
  BY SoundForest, NullIsNoNode DEF Children, Parent, Exists
<1>2. CASE f # Null /\ NodePermission(d, u, f) # Block
  <2>1. NodePermission(d, u, f) > Block
    BY <1>2, PermissionTyped DEF Perms, Owner, Block, View, Operate, Edit
  <2>2. f \in Open(d, u)
    BY <1>1, <1>2, <2>1 DEF Open, Sound, Fits
  <2>3. n \in {c \in Children(d, f) : NodePermission(d, u, c) > Block}
    BY <1>1
  <2>4. <<n, NodePermission(d, u, n)>> \in ListOf(d, u, f)
    BY <2>3, <1>1, <1>2, ListIsRight
  <2> QED  BY <2>2, <2>4
<1>3. CASE f = Null /\ d.node[n].owner = u
  <2>1. NodePermission(d, u, n) = Owner
    BY <1>3, OwnerIffOwns
  <2>2. <<n, Owner>> \in OwnRoots(d, u)
    BY <1>1, <1>3 DEF OwnRoots
  <2> QED  BY <2>1, <2>2, <1>0
<1>4. CASE NodePermission(d, u, f) = Block /\ d.node[n].owner # u
  <2>1. NodePermission(d, u, n) # Block
    BY DEF Block
  <2>2. <<n, u>> \in DOMAIN d.share
    BY <1>4, <2>1, PermissionStep
  <2>3. d.node[n].folder
    <3>1. <<n, u>>[1] = n
      OBVIOUS
    <3> QED  BY <2>2, <3>1 DEF Sound
  <2>4. <<n, NodePermission(d, u, n)>> \in ListSharedRoots(d, u)
    BY <2>2, <2>3, <1>4 DEF ListSharedRoots
  <2> QED  BY <2>4, <1>0
<1>5. f = Null => NodePermission(d, u, f) = Block
  BY PermissionTyped, SoundForest, NullIsNoNode
<1>6. f # Null /\ d.node[n].owner = u => NodePermission(d, u, f) # Block
  <2> SUFFICES ASSUME f # Null, d.node[n].owner = u PROVE NodePermission(d, u, f) # Block
    OBVIOUS
  <2>1. f \in NodeIds(d) /\ d.node[f].owner = u
    BY <1>1 DEF Sound, Fits
  <2>2. NodePermission(d, u, f) = Owner
    BY <2>1, OwnerIffOwns
  <2> QED  BY <2>2 DEF Owner, Block
<1> QED
  BY <1>2, <1>3, <1>4, <1>5, <1>6

\* Who may view something below a node without owning it has a share around the node.
LEMMA AroundSuffices ==
  ASSUME NEW d, Sound(d), NEW u, NEW n \in NodeIds(d), NEW m \in Down(d, n),
         d.node[n].owner # u, NodePermission(d, u, m) > Block
  PROVE  u \in SharedOn(d, UpIds(d, n) \union Down(d, n))
<1>0. Forest(d)
  BY SoundForest
<1>1. m \in NodeIds(d) /\ n \in UpIds(d, m)
  BY <1>0, DownIsBelow
<1>2. d.node[m].owner # u
  BY <1>1, OwnerAlong
<1> DEFINE src == NearestNodeShare(d, u, m)
<1>3. NodePermission(d, u, m) # Block
  BY DEF Block
<1>4. src \in UpIds(d, m) /\ <<src, u>> \in DOMAIN d.share
  BY <1>2, <1>3, RightIsShared
<1>5. src \in NodeIds(d)
  BY <1>4, <1>1, <1>0, UpTyped
<1>6. src \in UpIds(d, n) \/ n \in UpIds(d, src)
  BY <1>0, <1>1, <1>4, UpIsChain
<1>7. src \in UpIds(d, n) \union Down(d, n)
  BY <1>0, <1>5, <1>6, DownIsBelow
<1> HIDE DEF src
<1>8. <<src, u>> \in {r \in DOMAIN d.share : r[1] \in UpIds(d, n) \union Down(d, n)} /\ <<src, u>>[2] = u
  BY <1>4, <1>7
<1> QED
  BY <1>8 DEF SharedOn

LEMMA SoundMeansTrees ==
  ASSUME Sound(db)
  PROVE  TreeIsSound
<1>0. Forest(db)
  BY SoundForest
<1> SUFFICES ASSUME NEW n \in NodeIds(db)
             PROVE  /\ Down(db, n) \intersect (UpIds(db, n) \ {n}) = {}
                    /\ n \notin UpIds(db, Parent(db, n))
                    /\ Parent(db, n) # Null =>
                         db.node[Parent(db, n)].folder /\ db.node[Parent(db, n)].owner = db.node[n].owner
  BY DEF TreeIsSound
<1> QED
  BY <1>0, NothingBelowAbove, NotItsOwnAncestor DEF Sound, Fits

LEMMA SoundMeansAgreement ==
  ASSUME Sound(db)
  PROVE  QueriesAgree
<1>1. \A p \in DOMAIN db.proc :
        /\ ListProcessViewers(db, p) = {u \in Users : ProcessPermission(db, u, p) > Block}
        /\ \A u \in Users \ {db.proc[p].owner} :
             ProcessPermission(db, u, p) > Block =>
               <<u, ProcessPermission(db, u, p)>> \in ListProcessShareEntries(db, p)
  BY ViewersRight, ProcessSharesRight
<1>2. \A u \in Users, f \in NodeIds(db) :
        ListVisibleRunsInSubtree(db, u, f) \ VisibleRuns(db, u, {f}) =
          UNION {ListVisibleRunsInFolder(db, u, g) : g \in Down(db, f)}
  BY RunsRight
<1>3. ASSUME NEW n \in NodeIds(db), NEW u \in Users
      PROVE  /\ db.node[n].owner # u /\ NodePermission(db, u, n) > Block =>
                  <<u, NodePermission(db, u, n)>> \in SharesOf(n)
             /\ NodePermission(db, u, n) > Block =>
                  \E f \in Open(db, u) : <<n, NodePermission(db, u, n)>> \in ListOf(db, u, f)
             /\ \A f \in Open(db, u) \ {Null} :
                  ListOf(db, u, f) = {<<m, NodePermission(db, u, m)>> :
                                  m \in {c \in Children(db, f) : NodePermission(db, u, c) > Block}}
             /\ \A m \in Down(db, n) :
                  db.node[n].owner # u /\ NodePermission(db, u, m) > Block => u \in ListShareUsersAround(db, n)
  <2>1. db.node[n].owner # u /\ NodePermission(db, u, n) > Block =>
                  <<u, NodePermission(db, u, n)>> \in SharesOf(n)
    BY NodeSharesRight DEF SharesOf
  <2>2. NodePermission(db, u, n) > Block =>
                  \E f \in Open(db, u) : <<n, NodePermission(db, u, n)>> \in ListOf(db, u, f)
    BY SeenIsListed
  <2>3. ASSUME NEW f \in Open(db, u) \ {Null}
        PROVE  ListOf(db, u, f) = {<<m, NodePermission(db, u, m)>> :
                                  m \in {c \in Children(db, f) : NodePermission(db, u, c) > Block}}
    <3>1. f \in NodeIds(db) /\ NodePermission(db, u, f) # Block
      BY DEF Open, Block
    <3> QED  BY <3>1, ListIsRight
  <2>4. ASSUME NEW m \in Down(db, n), db.node[n].owner # u, NodePermission(db, u, m) > Block
        PROVE  u \in ListShareUsersAround(db, n)
    BY <2>4, AroundSuffices DEF ListShareUsersAround
  <2> QED  BY <2>1, <2>2, <2>3, <2>4
<1> QED
  BY <1>1, <1>2, <1>3 DEF QueriesAgree

-----------------------------------------------------------------------------
(* The writes.                                                             *)

\* The tables, named one by one.
Db(node, share, pshare, next, proc) ==
  [node |-> node, share |-> share, pshare |-> pshare, next |-> next, proc |-> proc]

\* An EXCEPT on the tables, with the tables spelt out.
LEMMA DbOf ==
  ASSUME NEW d, Typed(d), NEW x, NEW y
  PROVE  /\ [d EXCEPT !.share = x] = Db(d.node, x, d.pshare, d.next, d.proc)
         /\ [d EXCEPT !.pshare = x] = Db(d.node, d.share, x, d.next, d.proc)
         /\ [d EXCEPT !.proc = x] = Db(d.node, d.share, d.pshare, d.next, x)
         /\ [d EXCEPT !.node = x] = Db(x, d.share, d.pshare, d.next, d.proc)
         /\ [[d EXCEPT !.node = x] EXCEPT !.share = y] = Db(x, y, d.pshare, d.next, d.proc)
<1> DEFINE a == d.node
           b == d.share
           c == d.pshare
           e == d.next
           f == d.proc
<1>1. d = Db(a, b, c, e, f)
  BY DEF Typed, Db
<1> HIDE DEF a, b, c, e, f
<1>2. [d EXCEPT !.node = x] = Db(x, b, c, e, f)
  BY <1>1 DEF Db
<1>3. [d EXCEPT !.share = x] = Db(a, x, c, e, f)
  BY <1>1 DEF Db
<1>4. [d EXCEPT !.pshare = x] = Db(a, b, x, e, f)
  BY <1>1 DEF Db
<1>5. [d EXCEPT !.proc = x] = Db(a, b, c, e, x)
  BY <1>1 DEF Db
<1>6. [d EXCEPT !.next = x] = Db(a, b, c, x, f)
  BY <1>1 DEF Db
<1>8. [[d EXCEPT !.node = x] EXCEPT !.share = y] = Db(x, y, c, e, f)
  <2> DEFINE d1 == [d EXCEPT !.node = x]
  <2>1. d1 = Db(x, b, c, e, f)
    BY <1>2
  <2> HIDE DEF d1
  <2>2. [d1 EXCEPT !.share = y] = Db(x, y, c, e, f)
    BY <2>1 DEF Db
  <2> QED  BY <2>2 DEF d1
<1> QED
  BY <1>2, <1>3, <1>4, <1>5, <1>8 DEF a, b, c, e, f

LEMMA DbGrows ==
  ASSUME NEW d, Typed(d), NEW x, NEW y
  PROVE  [[d EXCEPT !.next = x] EXCEPT !.node = y] = Db(y, d.share, d.pshare, x, d.proc)
<1> DEFINE d1 == [d EXCEPT !.next = x]
<1>1. d1 = [node |-> d.node, share |-> d.share, pshare |-> d.pshare, next |-> x, proc |-> d.proc]
  BY DEF Typed
<1> HIDE DEF d1
<1>2. [d1 EXCEPT !.node = y] = Db(y, d.share, d.pshare, x, d.proc)
  BY <1>1 DEF Db
<1> QED
  BY <1>2 DEF d1

LEMMA DbFields ==
  ASSUME NEW node, NEW share, NEW pshare, NEW next, NEW proc
  PROVE  /\ Db(node, share, pshare, next, proc).node = node
         /\ Db(node, share, pshare, next, proc).share = share
         /\ Db(node, share, pshare, next, proc).pshare = pshare
         /\ Db(node, share, pshare, next, proc).next = next
         /\ Db(node, share, pshare, next, proc).proc = proc
BY DEF Db

LEMMA Restricted ==
  ASSUME NEW f, NEW S
  PROVE  /\ DOMAIN Restrict(f, S) = S
         /\ \A x \in S : Restrict(f, S)[x] = f[x]
         /\ Restrict(f, S) = [x \in S |-> f[x]]
BY DEF Restrict

-----------------------------------------------------------------------------
(* Rows of nodes.                                                          *)

\* CreateFolder, CreateScript.
LEMMA CreateIsSound ==
  ASSUME NEW d, Sound(d), NEW owner \in Users, NEW parent, NEW folder \in BOOLEAN, NEW of \in 1 .. MaxNode,
         Fits(d, parent, owner), d.next <= MaxNode
  PROVE  LET e == CreateNode(d, owner, parent, folder, of)
         IN /\ Sound(e) /\ NodeIds(e) = NodeIds(d) \union {d.next} /\ d.next \notin NodeIds(d)
            /\ \A n \in NodeIds(d) : e.node[n] = d.node[n]
            /\ e.share = d.share /\ e.pshare = d.pshare /\ e.proc = d.proc /\ e.next = d.next + 1
<1> DEFINE row == [owner |-> owner, parent |-> parent, folder |-> folder, of |-> of]
           new == d.next
           node == Put(d.node, new, row)
           e == CreateNode(d, owner, parent, folder, of)
<1>0. Typed(d) /\ Forest(d) /\ MaxNode \in Nat
  BY SoundForest, NodeTreeAssumption DEF Sound
<1>1. e = Db(node, d.share, d.pshare, d.next + 1, d.proc)
  <2> DEFINE next == d.next + 1
  <2>1. e = [[d EXCEPT !.next = next] EXCEPT !.node = node]
    BY <1>0 DEF CreateNode, Typed
  <2> HIDE DEF node, e, next
  <2>2. [[d EXCEPT !.next = next] EXCEPT !.node = node] = Db(node, d.share, d.pshare, next, d.proc)
    BY <1>0, DbGrows, Zenon
  <2>3. e = Db(node, d.share, d.pshare, next, d.proc)
    BY <2>1, <2>2, Zenon
  <2> QED  BY <2>3 DEF next
<1>2. /\ e.node = node /\ e.share = d.share /\ e.pshare = d.pshare /\ e.next = d.next + 1
      /\ e.proc = d.proc /\ e = Db(e.node, e.share, e.pshare, e.next, e.proc)
  BY <1>1, DbFields
<1>3. /\ DOMAIN node = (DOMAIN d.node) \union {new}
      /\ node = [x \in (DOMAIN d.node) \union {new} |-> node[x]]
      /\ \A x \in DOMAIN d.node : x # new => node[x] = d.node[x]
      /\ node[new] = row
  BY DEF Put
<1>4. new \in Nat /\ new \in 1 .. MaxNode /\ new \notin DOMAIN d.node
  BY <1>0 DEF Typed, NodeIds
<1>5. parent \in NodeIds(d) \union {Null}
  BY DEF Fits, Exists
<1>6. row \in Rows
  <2>1. NodeIds(d) \union {Null} \subseteq 0 .. MaxNode
    BY <1>0 DEF Forest, Null
  <2> QED  BY <2>1, <1>5 DEF Rows
<1> HIDE DEF row, node, e
<1>7. Typed(e)
  <2>1. e.next \in 1 .. MaxNode + 1
    BY <1>2, <1>4, <1>0
  <2>2. NodeIds(e) \subseteq 1 .. e.next - 1
    BY <1>0, <1>2, <1>3, <1>4 DEF Typed, NodeIds
  <2>3. e.node \in [NodeIds(e) -> Rows]
    <3>1. \A x \in DOMAIN node : node[x] \in Rows
      BY <1>0, <1>3, <1>4, <1>6 DEF Typed, NodeIds
    <3> QED  BY <3>1, <1>2, <1>3 DEF NodeIds
  <2>4. DOMAIN e.share \subseteq NodeIds(e) \X Users
    BY <1>0, <1>2, <1>3 DEF Typed, NodeIds
  <2>5. \A p \in DOMAIN e.proc : e.proc[p].node < e.next
    BY <1>0, <1>2, <1>4 DEF Typed, Runs
  <2> QED  BY <1>0, <1>2, <2>1, <2>2, <2>3, <2>4, <2>5 DEF Typed, Db
<1>8. /\ NodeIds(e) = NodeIds(d) \union {new}
      /\ \A n \in NodeIds(d) : Parent(e, n) = Parent(d, n) /\ e.node[n] = d.node[n]
      /\ Parent(e, new) = parent
  <2>1. NodeIds(e) = NodeIds(d) \union {new}
    BY <1>2, <1>3 DEF NodeIds
  <2>2. \A n \in NodeIds(d) : e.node[n] = d.node[n]
    BY <1>2, <1>3, <1>4 DEF NodeIds
  <2>3. \A n \in NodeIds(d) : Parent(e, n) = Parent(d, n)
    BY <2>1, <2>2 DEF Parent, Exists
  <2>4. e.node[new] = row
    BY <1>2, <1>3
  <2>5. Parent(e, new) = parent
    BY <2>1, <2>4 DEF Parent, Exists, row
  <2> QED  BY <2>1, <2>2, <2>3, <2>5
<1>9. new # Null /\ e.node[new] = row
  BY <1>2, <1>3, <1>4 DEF Null
<1>10. \A n \in NodeIds(e) : Fits(e, Parent(e, n), e.node[n].owner)
  <2>1. \A f, o : Fits(d, f, o) => Fits(e, f, o)
    BY <1>8 DEF Fits, Exists
  <2> QED  BY <2>1, <1>8, <1>9 DEF Sound, row
<1>11. \A s \in DOMAIN e.share : e.node[s[1]].folder
  BY <1>0, <1>2, <1>8 DEF Sound, Typed
<1>12. \A p \in DOMAIN e.proc :
         Exists(e, e.proc[p].node) => e.node[e.proc[p].node].owner = e.proc[p].owner
  <2>1. \A p \in DOMAIN d.proc : d.proc[p].node # new
    BY <1>0, <1>4 DEF Typed, Runs
  <2> QED  BY <2>1, <1>2, <1>8 DEF Sound, Exists
<1>13. Rooted(e)
  <2> SUFFICES ASSUME NEW S \in SUBSET NodeIds(e), S # {} PROVE \E n \in S : Parent(e, n) \notin S
    BY DEF Rooted
  <2>1. CASE S \intersect NodeIds(d) = {}
    <3>1. S = {new} /\ parent \notin S
      BY <2>1, <1>4, <1>5, <1>8, <1>9 DEF NodeIds
    <3> QED  BY <3>1, <1>8
  <2>2. CASE S \intersect NodeIds(d) # {}
    <3>1. PICK n \in S \intersect NodeIds(d) : Parent(d, n) \notin S \intersect NodeIds(d)
      BY <2>2 DEF Sound, Rooted
    <3>2. Parent(e, n) \in NodeIds(d) \union {Null} /\ Parent(e, n) = Parent(d, n)
      BY <1>0, <1>8, NullIsNoNode
    <3>3. Null \notin S
      BY <1>0, <1>8, <1>9, NullIsNoNode
    <3> QED  BY <3>1, <3>2, <3>3
  <2> QED  BY <2>1, <2>2
<1>14. Sound(e)
  BY <1>7, <1>10, <1>11, <1>12, <1>13 DEF Sound
<1> QED
  BY <1>14, <1>8, <1>4, <1>2 DEF e, NodeIds

LEMMA PatchRow ==
  ASSUME NEW d, Typed(d), NEW n \in NodeIds(d), NEW f
  PROVE  PatchParent(d, n, f) = Db([d.node EXCEPT ![n].parent = f], d.share, d.pshare, d.next, d.proc)
<1>1. PatchParent(d, n, f) = [d EXCEPT !.node[n].parent = f]
  BY DEF PatchParent, Exists
<1>2. [d EXCEPT !.node[n].parent = f] = [d EXCEPT !.node = [d.node EXCEPT ![n].parent = f]]
  BY DEF Typed
<1> QED
  BY <1>1, <1>2, DbOf

\* A move to a place that fits, and is not below the node.
LEMMA PatchIsSound ==
  ASSUME NEW d, Sound(d), NEW n \in NodeIds(d), NEW f,
         Fits(d, f, d.node[n].owner), n \notin UpIds(d, f)
  PROVE  LET e == PatchParent(d, n, f)
         IN /\ Sound(e) /\ NodeIds(e) = NodeIds(d)
            /\ \A m \in NodeIds(d) : /\ e.node[m].owner = d.node[m].owner
                                     /\ m # n => Parent(e, m) = Parent(d, m)
            /\ Parent(e, n) = f
            /\ e.share = d.share /\ e.pshare = d.pshare /\ e.proc = d.proc /\ e.next = d.next
<1> DEFINE e == PatchParent(d, n, f)
           node == [d.node EXCEPT ![n].parent = f]
<1>0. Typed(d) /\ Forest(d) /\ MaxNode \in Nat
  BY SoundForest, NodeTreeAssumption DEF Sound
<1>1. e = Db(node, d.share, d.pshare, d.next, d.proc)
  BY <1>0, PatchRow
<1>2. /\ e.node = node /\ e.share = d.share /\ e.pshare = d.pshare /\ e.next = d.next
      /\ e.proc = d.proc /\ e = Db(e.node, e.share, e.pshare, e.next, e.proc)
  BY <1>1, DbFields
<1>3. f \in 0 .. MaxNode /\ f \in NodeIds(d) \union {Null}
  BY <1>0 DEF Fits, Exists, Forest, Null
<1>4. /\ node \in [NodeIds(d) -> Rows]
      /\ \A m \in NodeIds(d) : /\ node[m].owner = d.node[m].owner /\ node[m].folder = d.node[m].folder
                               /\ m # n => node[m] = d.node[m]
      /\ node[n].parent = f
  BY <1>0, <1>3 DEF Typed, Rows
<1> HIDE DEF e, node
<1>5. NodeIds(e) = NodeIds(d)
  BY <1>2, <1>4 DEF NodeIds
<1>6. Typed(e)
  BY <1>0, <1>2, <1>4, <1>5 DEF Typed, Db
<1>7. /\ \A m \in NodeIds(d) : m # n => Parent(e, m) = Parent(d, m)
      /\ Parent(e, n) = f
  BY <1>2, <1>4, <1>5 DEF Parent, Exists
<1>8. \A m \in NodeIds(e) : Fits(e, Parent(e, m), e.node[m].owner)
  <2>1. \A g, o : Fits(d, g, o) => Fits(e, g, o)
    BY <1>2, <1>4, <1>5 DEF Fits, Exists
  <2>2. \A m \in NodeIds(d) : e.node[m].owner = d.node[m].owner
    BY <1>2, <1>4
  <2> QED  BY <2>1, <2>2, <1>5, <1>7 DEF Sound
<1>9. \A s \in DOMAIN e.share : e.node[s[1]].folder
  BY <1>0, <1>2, <1>4 DEF Sound, Typed
<1>10. \A p \in DOMAIN e.proc :
         Exists(e, e.proc[p].node) => e.node[e.proc[p].node].owner = e.proc[p].owner
  BY <1>2, <1>4, <1>5 DEF Sound, Exists
<1>11. Rooted(e)
  <2> SUFFICES ASSUME NEW S \in SUBSET NodeIds(e), S # {}, \A m \in S : Parent(e, m) \in S PROVE FALSE
    BY DEF Rooted
  <2>1. PICK m \in S : Parent(d, m) \notin S
    BY <1>5 DEF Sound, Rooted
  <2>2. m = n /\ f \in S /\ f \in NodeIds(d)
    BY <2>1, <1>5, <1>7
  <2> DEFINE R == S \intersect UpIds(d, f)
  <2>3. f \in R
    BY <2>2, <1>0, UpTyped
  <2>4. ASSUME NEW x \in R PROVE Parent(d, x) \in R
    <3>1. x # n /\ x \in NodeIds(d)
      BY <1>5
    <3>2. Parent(d, x) \in S
      BY <3>1, <1>7
    <3>3. Parent(d, x) # Null
      BY <3>2, <1>0, <1>5, NullIsNoNode
    <3> QED  BY <3>2, <3>3, <2>2, <1>0, UpClosed
  <2>5. R \in SUBSET NodeIds(d) /\ R # {}
    BY <2>3, <1>5
  <2> HIDE DEF R
  <2> QED  BY <2>4, <2>5 DEF Sound, Rooted
<1>12. Sound(e)
  BY <1>6, <1>8, <1>9, <1>10, <1>11 DEF Sound
<1> QED
  BY <1>12, <1>5, <1>7, <1>2, <1>4 DEF e

\* A delete takes all below with it.
LEMMA DeleteIsSound ==
  ASSUME NEW d, Sound(d), NEW n \in NodeIds(d)
  PROVE  LET e == DeleteNode(d, n)
         IN /\ Sound(e) /\ NodeIds(e) = NodeIds(d) \ Down(d, n)
            /\ \A m \in NodeIds(e) : e.node[m] = d.node[m]
            /\ \A m \in NodeIds(e) : \A u : <<m, u>> \in DOMAIN e.share <=> <<m, u>> \in DOMAIN d.share
            /\ \A s \in DOMAIN e.share : e.share[s] = d.share[s]
            /\ e.pshare = d.pshare /\ e.proc = d.proc
<1> DEFINE e == DeleteNode(d, n)
           gone == Down(d, n)
           node == Restrict(d.node, DOMAIN d.node \ gone)
           share == Restrict(d.share, {r \in DOMAIN d.share : r[1] \notin gone})
<1>0. Typed(d) /\ Forest(d)
  BY SoundForest DEF Sound
<1>1. e = Db(node, share, d.pshare, d.next, d.proc)
  <2>1. e = [d EXCEPT !.node = node, !.share = share]
    BY DEF DeleteNode
  <2> HIDE DEF node, share, e
  <2> QED  BY <2>1, <1>0, DbOf
<1>2. /\ e.node = node /\ e.share = share /\ e.pshare = d.pshare /\ e.next = d.next
      /\ e.proc = d.proc /\ e = Db(e.node, e.share, e.pshare, e.next, e.proc)
  BY <1>1, DbFields
<1>3. /\ node \in [NodeIds(d) \ gone -> Rows] /\ \A m \in NodeIds(d) \ gone : node[m] = d.node[m]
      /\ DOMAIN share = {r \in DOMAIN d.share : r[1] \notin gone}
      /\ \A r \in DOMAIN share : share[r] = d.share[r]
      /\ share \in [DOMAIN share -> Perms]
  BY <1>0, Restricted DEF Typed, NodeIds
<1> HIDE DEF e, node, share
<1>4. NodeIds(e) = NodeIds(d) \ gone
  BY <1>2, <1>3 DEF NodeIds
<1>5. \A m \in NodeIds(e) : Parent(e, m) = Parent(d, m) /\ e.node[m] = d.node[m]
  BY <1>2, <1>3, <1>4 DEF Parent, Exists
<1>6. \A m \in NodeIds(e) : Parent(d, m) \notin gone
  <2> SUFFICES ASSUME NEW m \in NodeIds(e), Parent(d, m) \in gone PROVE FALSE
    OBVIOUS
  <2>1. m \in Children(d, Parent(d, m))
    BY <1>4 DEF Children, Parent, Exists
  <2>2. m \in gone
    BY <2>1, <1>0, DownClosed
  <2> QED  BY <2>2, <1>4
<1>7. Typed(e)
  <2>1. DOMAIN e.share \subseteq NodeIds(e) \X Users
    BY <1>0, <1>2, <1>3, <1>4 DEF Typed
  <2> QED  BY <2>1, <1>0, <1>2, <1>3, <1>4 DEF Typed, Db
<1>8. \A m \in NodeIds(e) : Fits(e, Parent(e, m), e.node[m].owner)
  BY <1>4, <1>5, <1>6 DEF Sound, Fits, Exists
<1>9. \A s \in DOMAIN e.share : e.node[s[1]].folder
  <2> SUFFICES ASSUME NEW s \in DOMAIN e.share PROVE e.node[s[1]].folder
    OBVIOUS
  <2>1. s \in DOMAIN d.share /\ s[1] \in NodeIds(e)
    BY <1>2, <1>3, <1>7 DEF Typed
  <2> QED  BY <2>1, <1>5 DEF Sound
<1>10. \A p \in DOMAIN e.proc :
         Exists(e, e.proc[p].node) => e.node[e.proc[p].node].owner = e.proc[p].owner
  BY <1>2, <1>4, <1>5 DEF Sound, Exists
<1>11. Rooted(e)
  BY <1>4, <1>5 DEF Sound, Rooted
<1>12. Sound(e)
  BY <1>7, <1>8, <1>9, <1>10, <1>11 DEF Sound
<1> QED
  BY <1>12, <1>2, <1>3, <1>4, <1>5 DEF e

-----------------------------------------------------------------------------
(* Rows of the other tables.                                               *)

\* Only shares, or runs, differ.
LEMMA OthersAreSound ==
  ASSUME NEW d, Sound(d), NEW e, Typed(e), e.node = d.node, e.next = d.next,
         \A s \in DOMAIN e.share : d.node[s[1]].folder,
         \A p \in DOMAIN e.proc :
            Exists(d, e.proc[p].node) => d.node[e.proc[p].node].owner = e.proc[p].owner
  PROVE  Sound(e) /\ NodeIds(e) = NodeIds(d) /\ \A n : Parent(e, n) = Parent(d, n)
<1>1. NodeIds(e) = NodeIds(d) /\ \A n : Parent(e, n) = Parent(d, n)
  BY DEF NodeIds, Parent, Exists
<1> QED
  BY <1>1 DEF Sound, Rooted, Fits, Exists

LEMMA ShareIsSound ==
  ASSUME NEW d, Sound(d), NEW n \in NodeIds(d), NEW u \in Users, NEW perm \in Perms, d.node[n].folder
  PROVE  LET e == UpsertNodeShare(d, n, u, perm)
         IN /\ Sound(e) /\ e.node = d.node /\ e.pshare = d.pshare /\ e.proc = d.proc
            /\ \A s : s # <<n, u>> => (s \in DOMAIN e.share <=> s \in DOMAIN d.share)
            /\ \A s \in DOMAIN d.share : s # <<n, u>> => e.share[s] = d.share[s]
<1> DEFINE e == UpsertNodeShare(d, n, u, perm)
           k == <<n, u>>
           share == Put(d.share, k, perm)
<1>0. Typed(d)
  BY DEF Sound
<1>1. e = Db(d.node, share, d.pshare, d.next, d.proc)
  <2>1. e = [d EXCEPT !.share = share]
    BY DEF UpsertNodeShare
  <2> HIDE DEF share, e
  <2> QED  BY <2>1, <1>0, DbOf
<1>2. /\ e.node = d.node /\ e.share = share /\ e.pshare = d.pshare /\ e.next = d.next
      /\ e.proc = d.proc /\ e = Db(e.node, e.share, e.pshare, e.next, e.proc)
  BY <1>1, DbFields
<1>3. k \in NodeIds(d) \X Users /\ k[1] = n
  OBVIOUS
<1> HIDE DEF k
<1>4. /\ DOMAIN share = {k} \union DOMAIN d.share /\ share[k] = perm
      /\ \A s \in DOMAIN d.share : s # k => share[s] = d.share[s]
      /\ share = [s \in DOMAIN share |-> share[s]]
  BY DEF Put
<1> HIDE DEF share, e
<1>5. share \in [DOMAIN share -> Perms] /\ DOMAIN share \subseteq NodeIds(d) \X Users
  BY <1>0, <1>3, <1>4 DEF Typed
<1>6. Typed(e)
  BY <1>0, <1>2, <1>5 DEF Typed, Db, NodeIds
<1>7. \A s \in DOMAIN e.share : d.node[s[1]].folder
  BY <1>2, <1>3, <1>4 DEF Sound
<1>8. Sound(e)
  BY <1>2, <1>6, <1>7, OthersAreSound DEF Sound
<1> QED
  BY <1>8, <1>2, <1>4 DEF e, k

LEMMA UnshareIsSound ==
  ASSUME NEW d, Sound(d), NEW n, NEW u
  PROVE  LET e == DeleteNodeShare(d, n, u)
         IN /\ Sound(e) /\ e.node = d.node /\ e.pshare = d.pshare /\ e.proc = d.proc
            /\ \A s : s # <<n, u>> => (s \in DOMAIN e.share <=> s \in DOMAIN d.share)
            /\ \A s \in DOMAIN e.share : e.share[s] = d.share[s]
<1> DEFINE e == DeleteNodeShare(d, n, u)
           k == <<n, u>>
           share == Restrict(d.share, DOMAIN d.share \ {k})
<1>0. Typed(d)
  BY DEF Sound
<1>1. e = Db(d.node, share, d.pshare, d.next, d.proc)
  <2>1. e = [d EXCEPT !.share = share]
    BY DEF DeleteNodeShare
  <2> HIDE DEF share, e
  <2> QED  BY <2>1, <1>0, DbOf
<1>2. /\ e.node = d.node /\ e.share = share /\ e.pshare = d.pshare /\ e.next = d.next
      /\ e.proc = d.proc /\ e = Db(e.node, e.share, e.pshare, e.next, e.proc)
  BY <1>1, DbFields
<1> HIDE DEF k
<1>4. /\ DOMAIN share = DOMAIN d.share \ {k}
      /\ \A s \in DOMAIN share : share[s] = d.share[s]
      /\ share = [s \in DOMAIN share |-> share[s]]
  BY Restricted
<1> HIDE DEF share, e
<1>5. share \in [DOMAIN share -> Perms] /\ DOMAIN share \subseteq NodeIds(d) \X Users
  BY <1>0, <1>4 DEF Typed
<1>6. Typed(e)
  BY <1>0, <1>2, <1>5 DEF Typed, Db, NodeIds
<1>7. \A s \in DOMAIN e.share : d.node[s[1]].folder
  BY <1>2, <1>4 DEF Sound
<1>8. Sound(e)
  BY <1>2, <1>6, <1>7, OthersAreSound DEF Sound
<1> QED
  BY <1>8, <1>2, <1>4 DEF e, k

LEMMA ProcessShareIsSound ==
  ASSUME NEW d, Sound(d), NEW p \in DOMAIN d.proc, NEW u \in Users, NEW perm \in Perms
  PROVE  LET e == UpsertProcessShare(d, p, u, perm)
         IN /\ Sound(e) /\ e.node = d.node /\ e.share = d.share /\ e.proc = d.proc
            /\ \A s : s # <<p, u>> => (s \in DOMAIN e.pshare <=> s \in DOMAIN d.pshare)
            /\ \A s \in DOMAIN d.pshare : s # <<p, u>> => e.pshare[s] = d.pshare[s]
<1> DEFINE e == UpsertProcessShare(d, p, u, perm)
           k == <<p, u>>
           pshare == Put(d.pshare, k, perm)
<1>0. Typed(d)
  BY DEF Sound
<1>1. e = Db(d.node, d.share, pshare, d.next, d.proc)
  <2>1. e = [d EXCEPT !.pshare = pshare]
    BY DEF UpsertProcessShare
  <2> HIDE DEF pshare, e
  <2> QED  BY <2>1, <1>0, DbOf
<1>2. /\ e.node = d.node /\ e.share = d.share /\ e.pshare = pshare /\ e.next = d.next
      /\ e.proc = d.proc /\ e = Db(e.node, e.share, e.pshare, e.next, e.proc)
  BY <1>1, DbFields
<1>3. k \in (DOMAIN d.proc) \X Users
  OBVIOUS
<1> HIDE DEF k
<1>4. /\ DOMAIN pshare = {k} \union DOMAIN d.pshare /\ pshare[k] = perm
      /\ \A s \in DOMAIN d.pshare : s # k => pshare[s] = d.pshare[s]
      /\ pshare = [s \in DOMAIN pshare |-> pshare[s]]
  BY DEF Put
<1> HIDE DEF pshare, e
<1>5. pshare \in [DOMAIN pshare -> Perms] /\ DOMAIN pshare \subseteq (DOMAIN d.proc) \X Users
  BY <1>0, <1>3, <1>4 DEF Typed
<1>6. Typed(e)
  BY <1>0, <1>2, <1>5 DEF Typed, Db, NodeIds
<1>7. /\ \A s \in DOMAIN e.share : d.node[s[1]].folder
      /\ \A q \in DOMAIN e.proc :
            Exists(d, e.proc[q].node) => d.node[e.proc[q].node].owner = e.proc[q].owner
  BY <1>2 DEF Sound
<1>8. Sound(e)
  BY <1>2, <1>6, <1>7, OthersAreSound
<1> QED
  BY <1>8, <1>2, <1>4 DEF e, k

LEMMA ProcessUnshareIsSound ==
  ASSUME NEW d, Sound(d), NEW p, NEW u
  PROVE  LET e == DeleteProcessShare(d, p, u)
         IN /\ Sound(e) /\ e.node = d.node /\ e.share = d.share /\ e.proc = d.proc
            /\ \A s : s # <<p, u>> => (s \in DOMAIN e.pshare <=> s \in DOMAIN d.pshare)
            /\ \A s \in DOMAIN e.pshare : e.pshare[s] = d.pshare[s]
<1> DEFINE e == DeleteProcessShare(d, p, u)
           k == <<p, u>>
           pshare == Restrict(d.pshare, DOMAIN d.pshare \ {k})
<1>0. Typed(d)
  BY DEF Sound
<1>1. e = Db(d.node, d.share, pshare, d.next, d.proc)
  <2>1. e = [d EXCEPT !.pshare = pshare]
    BY DEF DeleteProcessShare
  <2> HIDE DEF pshare, e
  <2> QED  BY <2>1, <1>0, DbOf
<1>2. /\ e.node = d.node /\ e.share = d.share /\ e.pshare = pshare /\ e.next = d.next
      /\ e.proc = d.proc /\ e = Db(e.node, e.share, e.pshare, e.next, e.proc)
  BY <1>1, DbFields
<1> HIDE DEF k
<1>4. /\ DOMAIN pshare = DOMAIN d.pshare \ {k}
      /\ \A s \in DOMAIN pshare : pshare[s] = d.pshare[s]
      /\ pshare = [s \in DOMAIN pshare |-> pshare[s]]
  BY Restricted
<1> HIDE DEF pshare, e
<1>5. pshare \in [DOMAIN pshare -> Perms] /\ DOMAIN pshare \subseteq (DOMAIN d.proc) \X Users
  BY <1>0, <1>4 DEF Typed
<1>6. Typed(e)
  BY <1>0, <1>2, <1>5 DEF Typed, Db, NodeIds
<1>8. Sound(e)
  BY <1>2, <1>6, OthersAreSound DEF Sound
<1> QED
  BY <1>8, <1>2, <1>4 DEF e, k

LEMMA ExecIsSound ==
  ASSUME NEW d, Sound(d), NEW p \in Procs \ DOMAIN d.proc, NEW n \in NodeIds(d)
  PROVE  LET e == CreateProcess(d, p, n, d.node[n].owner)
         IN /\ Sound(e) /\ e.node = d.node /\ e.share = d.share /\ e.pshare = d.pshare
            /\ DOMAIN e.proc = DOMAIN d.proc \union {p} /\ e.proc[p].live
            /\ \A q \in DOMAIN d.proc : e.proc[q] = d.proc[q]
<1> DEFINE owner == d.node[n].owner
           e == CreateProcess(d, p, n, owner)
           run == [owner |-> owner, node |-> n, live |-> TRUE]
           proc == Put(d.proc, p, run)
<1>0. Typed(d) /\ Forest(d)
  BY SoundForest DEF Sound
<1>1. e = Db(d.node, d.share, d.pshare, d.next, proc)
  <2>1. e = [d EXCEPT !.proc = proc]
    BY DEF CreateProcess
  <2> HIDE DEF proc, e
  <2> QED  BY <2>1, <1>0, DbOf
<1>2. /\ e.node = d.node /\ e.share = d.share /\ e.pshare = d.pshare /\ e.next = d.next
      /\ e.proc = proc /\ e = Db(e.node, e.share, e.pshare, e.next, e.proc)
  BY <1>1, DbFields
<1>3. /\ DOMAIN proc = DOMAIN d.proc \union {p} /\ proc[p] = run
      /\ \A q \in DOMAIN d.proc : q # p => proc[q] = d.proc[q]
      /\ proc = [q \in DOMAIN proc |-> proc[q]]
  BY DEF Put
<1>4. run \in Runs /\ n < d.next
  BY <1>0, NodeTreeAssumption DEF Typed, Forest, Runs, Rows
<1> HIDE DEF proc, e
<1>5. proc \in [DOMAIN proc -> Runs] /\ DOMAIN proc \subseteq Procs /\ \A q \in DOMAIN proc : proc[q].node < d.next
  <2>1. DOMAIN proc \subseteq Procs
    BY <1>0, <1>3 DEF Typed
  <2>2. \A q \in DOMAIN proc : proc[q] \in Runs
    BY <1>0, <1>3, <1>4 DEF Typed
  <2>3. \A q \in DOMAIN proc : proc[q].node < d.next
    <3>1. run.node = n
      OBVIOUS
    <3> HIDE DEF run
    <3> QED  BY <3>1, <1>0, <1>3, <1>4 DEF Typed
  <2> HIDE DEF run
  <2> QED  BY <2>1, <2>2, <2>3, <1>3
<1>6. Typed(e)
  <2>1. DOMAIN e.pshare \subseteq (DOMAIN e.proc) \X Users
    BY <1>0, <1>2, <1>3 DEF Typed
  <2> QED  BY <2>1, <1>0, <1>2, <1>5 DEF Typed, Db, NodeIds
<1>7. \A q \in DOMAIN e.proc :
         Exists(d, e.proc[q].node) => d.node[e.proc[q].node].owner = e.proc[q].owner
  BY <1>2, <1>3 DEF Sound
<1>8. Sound(e)
  BY <1>2, <1>6, <1>7, OthersAreSound DEF Sound
<1>9. e.proc[p].live
  BY <1>2, <1>3
<1> QED
  BY <1>8, <1>2, <1>3, <1>9 DEF e

LEMMA DoneIsSound ==
  ASSUME NEW d, Sound(d), NEW p \in DOMAIN d.proc
  PROVE  LET e == MarkProcessDone(d, p)
         IN /\ Sound(e) /\ e.node = d.node /\ e.share = d.share /\ e.pshare = d.pshare
            /\ e.next = d.next /\ DOMAIN e.proc = DOMAIN d.proc
            /\ \A q \in DOMAIN d.proc : /\ e.proc[q].owner = d.proc[q].owner
                                        /\ e.proc[q].node = d.proc[q].node
            /\ Live(e) = Live(d) \ {p}
<1> DEFINE e == MarkProcessDone(d, p)
           proc == [d.proc EXCEPT ![p].live = FALSE]
<1>0. Typed(d)
  BY DEF Sound
<1>1. e = Db(d.node, d.share, d.pshare, d.next, proc)
  <2>1. e = [d EXCEPT !.proc = proc]
    BY <1>0 DEF MarkProcessDone, Typed
  <2> HIDE DEF proc, e
  <2> QED  BY <2>1, <1>0, DbOf
<1>2. /\ e.node = d.node /\ e.share = d.share /\ e.pshare = d.pshare /\ e.next = d.next
      /\ e.proc = proc /\ e = Db(e.node, e.share, e.pshare, e.next, e.proc)
  BY <1>1, DbFields
<1>3. /\ proc \in [DOMAIN d.proc -> Runs]
      /\ \A q \in DOMAIN d.proc : /\ proc[q].owner = d.proc[q].owner /\ proc[q].node = d.proc[q].node
                                  /\ proc[q].live = (IF q = p THEN FALSE ELSE d.proc[q].live)
  BY <1>0 DEF Typed, Runs
<1> HIDE DEF proc, e
<1>4. DOMAIN proc = DOMAIN d.proc
  BY <1>3
<1>6. Typed(e)
  BY <1>0, <1>2, <1>3, <1>4 DEF Typed, Db, NodeIds
<1>7. \A q \in DOMAIN e.proc :
         Exists(d, e.proc[q].node) => d.node[e.proc[q].node].owner = e.proc[q].owner
  BY <1>2, <1>3, <1>4 DEF Sound
<1>8. Sound(e)
  BY <1>2, <1>6, <1>7, OthersAreSound DEF Sound
<1>9. Live(e) = Live(d) \ {p}
  BY <1>2, <1>3, <1>4 DEF Live
<1> QED
  BY <1>8, <1>9, <1>2, <1>3, <1>4 DEF e

-----------------------------------------------------------------------------
(* insertCopy.                                                             *)

\* The ids of the copies are new, and differ.
LEMMA NewIdsDiffer ==
  ASSUME NEW next \in Nat, NEW ids, ids \subseteq 1 .. MaxNode
  PROVE  /\ Cardinality(ids) \in Nat
         /\ \A m \in ids : NewId(next, ids, m) \in next .. next + Cardinality(ids) - 1
         /\ \A m \in ids, k \in ids : m # k => NewId(next, ids, m) # NewId(next, ids, k)
<1> DEFINE B(m) == {k \in ids : k < m}
<1>0. MaxNode \in Nat
  BY NodeTreeAssumption
<1>1. IsFiniteSet(ids)
  <2>1. IsFiniteSet(1 .. MaxNode)
    BY <1>0, FS_Interval
  <2> QED  BY <2>1, FS_Subset
<1>2. Cardinality(ids) \in Nat
  BY <1>1, FS_CardinalityType
<1>3. ASSUME NEW m \in ids PROVE /\ IsFiniteSet(B(m)) /\ Cardinality(B(m)) \in Nat
                                 /\ Cardinality(B(m)) < Cardinality(ids)
  <2>1. B(m) \in SUBSET ids /\ m \notin B(m)
    BY <1>0
  <2> HIDE DEF B
  <2>2. /\ IsFiniteSet(B(m)) /\ Cardinality(B(m)) <= Cardinality(ids)
        /\ (Cardinality(ids) = Cardinality(B(m)) => ids = B(m))
    BY <1>1, <2>1, FS_Subset
  <2>3. Cardinality(B(m)) \in Nat
    BY <2>2, FS_CardinalityType
  <2>4. ids # B(m)
    BY <2>1, <1>3
  <2>5. Cardinality(ids) # Cardinality(B(m))
    BY <2>2, <2>4
  <2> QED  BY <2>2, <2>3, <2>5, <1>2
<1>4. ASSUME NEW m \in ids, NEW k \in ids, m < k PROVE Cardinality(B(m)) < Cardinality(B(k))
  <2>1. B(m) \in SUBSET B(k) /\ m \in B(k) /\ m \notin B(m)
    <3>1. m \in Nat /\ k \in Nat /\ \A x \in ids : x \in Nat
      BY <1>0
    <3>2. m \in B(k) /\ m \notin B(m)
      BY <3>1, <1>4
    <3>3. \A x \in B(m) : x \in ids /\ x < k
      BY <3>1, <1>4
    <3> QED  BY <3>2, <3>3
  <2> HIDE DEF B
  <2>2. IsFiniteSet(B(k)) /\ Cardinality(B(k)) \in Nat /\ Cardinality(B(m)) \in Nat
    BY <1>3
  <2>3. /\ Cardinality(B(m)) <= Cardinality(B(k))
        /\ (Cardinality(B(k)) = Cardinality(B(m)) => B(k) = B(m))
    BY <2>1, <2>2, FS_Subset
  <2>4. B(k) # B(m)
    BY <2>1
  <2>5. Cardinality(B(k)) # Cardinality(B(m))
    BY <2>3, <2>4
  <2> QED  BY <2>2, <2>3, <2>5
<1>5. \A m : NewId(next, ids, m) = next + Cardinality(B(m))
  BY DEF NewId
<1> HIDE DEF B
<1>6. \A m \in ids : NewId(next, ids, m) \in next .. next + Cardinality(ids) - 1
  BY <1>2, <1>3, <1>5
<1>7. ASSUME NEW m \in ids, NEW k \in ids, m # k PROVE NewId(next, ids, m) # NewId(next, ids, k)
  <2>1. m < k \/ k < m
    BY <1>0, <1>7
  <2>2. Cardinality(B(m)) \in Nat /\ Cardinality(B(k)) \in Nat
    BY <1>3
  <2>3. Cardinality(B(m)) # Cardinality(B(k))
    BY <2>1, <2>2, <1>4
  <2> QED  BY <2>2, <2>3, <1>5
<1> QED
  BY <1>2, <1>6, <1>7

\* insertCopy: the copies hang together as the nodes they were made of.
LEMMA CopyIsSound ==
  ASSUME Sound(db), NEW r, r.owner \in Users, Fits(db, r.to, r.owner),
         DOMAIN r.copies \subseteq NodeIds(db), r.copies = Restrict(db.node, DOMAIN r.copies),
         r.node \in DOMAIN r.copies,
         \A m \in DOMAIN r.copies : m # r.node => Parent(db, m) \in DOMAIN r.copies,
         db.next + Cardinality(DOMAIN r.copies) <= MaxNode + 1
  PROVE  LET e == InsertCopy(r)
         IN /\ Sound(e) /\ NodeIds(db) \subseteq NodeIds(e)
            /\ \A n \in NodeIds(e) \ NodeIds(db) : n >= db.next
            /\ \A n \in NodeIds(db) : e.node[n] = db.node[n]
            /\ e.share = db.share /\ e.pshare = db.pshare /\ e.proc = db.proc
<1> DEFINE e == InsertCopy(r)
           ids == DOMAIN r.copies
           id(m) == NewId(db.next, ids, m)
           source(i) == CHOOSE m \in ids : id(m) = i
           row(m) == [owner |-> r.owner, folder |-> r.copies[m].folder, of |-> m,
                      parent |-> IF m = r.node THEN r.to ELSE id(r.copies[m].parent)]
           new == {id(m) : m \in ids}
           node == [i \in NodeIds(db) \union new |->
                      IF Exists(db, i) THEN db.node[i] ELSE row(source(i))]
           next == db.next + Cardinality(ids)
<1>0. Typed(db) /\ Forest(db) /\ MaxNode \in Nat /\ db.next \in Nat /\ db.next \in 1 .. MaxNode + 1
  <2>1. Typed(db) /\ Forest(db) /\ MaxNode \in Nat
    BY SoundForest, NodeTreeAssumption DEF Sound
  <2>2. db.next \in 1 .. MaxNode + 1
    BY <2>1 DEF Typed
  <2> QED  BY <2>1, <2>2
<1>1. e = Db(node, db.share, db.pshare, next, db.proc)
  <2>1. e = [[db EXCEPT !.next = next] EXCEPT !.node = node]
    BY <1>0 DEF InsertCopy, Typed
  <2> HIDE DEF e, node, next
  <2>2. [[db EXCEPT !.next = next] EXCEPT !.node = node] = Db(node, db.share, db.pshare, next, db.proc)
    BY <1>0, DbGrows, Zenon
  <2> QED  BY <2>1, <2>2, Zenon
<1>2. /\ e.node = node /\ e.share = db.share /\ e.pshare = db.pshare /\ e.next = next
      /\ e.proc = db.proc /\ e = Db(e.node, e.share, e.pshare, e.next, e.proc)
  <2> HIDE DEF e, node, next
  <2> QED  BY <1>1, DbFields
<1>3. /\ ids \subseteq 1 .. MaxNode /\ ids \subseteq NodeIds(db) /\ r.node \in ids
      /\ \A m \in ids : r.copies[m] = db.node[m]
  <2>1. ids \subseteq 1 .. MaxNode
    BY <1>0 DEF Forest
  <2> QED  BY <2>1, Restricted
<1>4. /\ Cardinality(ids) \in Nat
      /\ \A m \in ids : id(m) \in db.next .. db.next + Cardinality(ids) - 1
      /\ \A m \in ids, k \in ids : m # k => id(m) # id(k)
  <2> HIDE DEF ids
  <2> QED  BY <1>0, <1>3, NewIdsDiffer
<1>5. \A m \in ids : source(id(m)) = m
  <2> HIDE DEF id, ids
  <2> QED  BY <1>4
<1>6. /\ next \in 1 .. MaxNode + 1 /\ db.next <= next
      /\ \A i \in new : i \in db.next .. next - 1 /\ i >= db.next /\ i \notin NodeIds(db) /\ i # Null
  <2> HIDE DEF id, ids
  <2>1. next \in 1 .. MaxNode + 1 /\ db.next <= next
    BY <1>0, <1>4 DEF ids
  <2>2. \A i \in db.next .. next - 1 : i >= db.next /\ i # Null /\ i \notin 1 .. db.next - 1
    BY <1>0, <2>1 DEF Null
  <2>3. \A i \in new : i \in db.next .. next - 1
    <3>1. next - 1 = db.next + Cardinality(ids) - 1
      BY <1>0, <1>4
    <3> HIDE DEF next, new
    <3>2. \A m \in ids : id(m) \in db.next .. next - 1
      BY <3>1, <1>4
    <3> QED  BY <3>2 DEF new
  <2> QED  BY <2>1, <2>2, <2>3, <1>0 DEF Typed
<1>7. \A m \in ids : m # r.node => r.copies[m].parent \in ids /\ r.copies[m].parent = Parent(db, m)
  BY <1>3 DEF Parent, Exists
<1>8. r.to \in NodeIds(db) \union {Null}
  BY DEF Fits, Exists
<1>9. \A m \in ids : /\ row(m) \in Rows /\ row(m).owner = r.owner /\ row(m).folder = db.node[m].folder
                     /\ row(m).parent = IF m = r.node THEN r.to ELSE id(Parent(db, m))
  <2> TAKE m \in ids
  <2> DEFINE up == IF m = r.node THEN r.to ELSE id(r.copies[m].parent)
  <2>1. up = IF m = r.node THEN r.to ELSE id(Parent(db, m))
    BY <1>7
  <2>2. up \in 0 .. MaxNode
    <3>1. NodeIds(db) \union {Null} \subseteq 0 .. MaxNode
      BY <1>0 DEF Forest, Null
    <3>2. \A i \in db.next .. next - 1 : i \in 0 .. MaxNode
      BY <1>0, <1>6
    <3> HIDE DEF id, ids, next
    <3>3. m # r.node => id(r.copies[m].parent) \in new
      BY <1>7
    <3> QED  BY <3>1, <3>2, <3>3, <1>6, <1>8
  <2>3. r.copies[m] = db.node[m] /\ db.node[m].folder \in BOOLEAN /\ m \in 1 .. MaxNode
    BY <1>0, <1>3 DEF Typed, Rows, NodeIds
  <2> HIDE DEF up, id, ids
  <2>4. row(m) = [owner |-> r.owner, folder |-> r.copies[m].folder, of |-> m, parent |-> up]
    BY DEF up
  <2> HIDE DEF row
  <2> QED  BY <2>1, <2>2, <2>3, <2>4 DEF Rows
<1>10. /\ DOMAIN node = NodeIds(db) \union new
       /\ \A n \in NodeIds(db) : node[n] = db.node[n]
       /\ \A m \in ids : node[id(m)] = row(m)
       /\ node = [i \in NodeIds(db) \union new |-> node[i]]
  <2> HIDE DEF id, ids, row, source, next
  <2>1. \A i \in NodeIds(db) \union new : node[i] = IF Exists(db, i) THEN db.node[i] ELSE row(source(i))
    OBVIOUS
  <2>2. \A n \in NodeIds(db) : node[n] = db.node[n]
    BY <2>1 DEF Exists
  <2>3. ASSUME NEW m \in ids PROVE node[id(m)] = row(m)
    <3>1. id(m) \in new
      OBVIOUS
    <3>2. ~Exists(db, id(m))
      BY <3>1, <1>6 DEF Exists
    <3>3. node[id(m)] = row(source(id(m)))
      BY <2>1, <3>1, <3>2
    <3>4. source(id(m)) = m
      BY <1>5
    <3> QED  BY <3>3, <3>4, Zenon
  <2> QED  BY <2>2, <2>3
<1> HIDE DEF e, id, source, row, node, next, ids
<1>11. /\ NodeIds(e) = NodeIds(db) \union new
       /\ \A n \in NodeIds(db) : e.node[n] = db.node[n] /\ Parent(e, n) = Parent(db, n)
       /\ \A m \in ids : e.node[id(m)] = row(m) /\ id(m) \in NodeIds(e)
       /\ \A m \in ids : Parent(e, id(m)) = IF m = r.node THEN r.to ELSE id(Parent(db, m))
  <2>1. NodeIds(e) = NodeIds(db) \union new
    BY <1>2, <1>10 DEF NodeIds
  <2>2. \A n \in NodeIds(db) : e.node[n] = db.node[n]
    BY <1>2, <1>10
  <2>3. \A n \in NodeIds(db) : Parent(e, n) = Parent(db, n)
    BY <2>1, <2>2 DEF Parent, Exists
  <2>4. \A m \in ids : e.node[id(m)] = row(m) /\ id(m) \in NodeIds(e)
    BY <2>1, <1>2, <1>10
  <2>5. \A m \in ids : Parent(e, id(m)) = IF m = r.node THEN r.to ELSE id(Parent(db, m))
    BY <2>4, <1>9 DEF Parent, Exists
  <2> QED  BY <2>1, <2>2, <2>3, <2>4, <2>5
<1>12. Typed(e)
  <2>1. NodeIds(e) \subseteq 1 .. e.next - 1
    <3>1. NodeIds(db) \subseteq 1 .. next - 1
      BY <1>0, <1>6 DEF Typed
    <3>2. \A i \in db.next .. next - 1 : i \in 1 .. next - 1
      BY <1>0, <1>6
    <3> QED  BY <3>1, <3>2, <1>2, <1>6, <1>11
  <2>2. e.node \in [NodeIds(e) -> Rows]
    <3>1. \A n \in NodeIds(db) : db.node[n] \in Rows
      BY <1>0 DEF Typed
    <3>2. \A n \in NodeIds(e) : e.node[n] \in Rows
      BY <3>1, <1>9, <1>11
    <3> QED  BY <3>2, <1>2, <1>10, <1>11
  <2>3. \A p \in DOMAIN e.proc : e.proc[p].node < e.next
    <3>1. \A x \in 1 .. MaxNode : x < db.next => x < next
      BY <1>0, <1>6
    <3> QED  BY <3>1, <1>0, <1>2 DEF Typed, Runs
  <2>4. DOMAIN e.share \subseteq NodeIds(e) \X Users
    BY <1>0, <1>2, <1>11 DEF Typed
  <2>5. e.next \in 1 .. MaxNode + 1
    BY <1>2, <1>6
  <2>6. e = [node |-> e.node, share |-> e.share, pshare |-> e.pshare, next |-> e.next, proc |-> e.proc]
    BY <1>2 DEF Db
  <2> QED  BY <2>1, <2>2, <2>3, <2>4, <2>5, <2>6, <1>0, <1>2 DEF Typed
<1>13. \A n \in NodeIds(e) : Fits(e, Parent(e, n), e.node[n].owner)
  <2>1. \A f, o : Fits(db, f, o) => Fits(e, f, o)
    BY <1>11 DEF Fits, Exists
  <2>2. \A n \in NodeIds(db) : Fits(e, Parent(e, n), e.node[n].owner)
    BY <2>1, <1>11 DEF Sound
  <2>3. ASSUME NEW m \in ids PROVE Fits(e, Parent(e, id(m)), e.node[id(m)].owner)
    <3>1. e.node[id(m)].owner = r.owner
      BY <1>9, <1>11
    <3>2. CASE m = r.node
      BY <3>1, <3>2, <2>1, <1>11
    <3>3. CASE m # r.node
      <4> DEFINE f == Parent(db, m)
      <4>1. f \in ids
        BY <3>3, <1>7
      <4>2. Fits(db, f, db.node[m].owner) /\ f # Null
        BY <1>0, <1>3, <4>1, NullIsNoNode DEF Sound
      <4>3. db.node[f].folder
        BY <4>2 DEF Fits
      <4>4. /\ e.node[id(f)].folder /\ e.node[id(f)].owner = r.owner /\ Exists(e, id(f))
            /\ Parent(e, id(m)) = id(f)
        BY <4>1, <4>3, <3>3, <1>9, <1>11 DEF Exists
      <4> QED  BY <4>4, <3>1 DEF Fits
    <3> QED  BY <3>2, <3>3
  <2> QED  BY <2>2, <2>3, <1>11
<1>14. \A s \in DOMAIN e.share : e.node[s[1]].folder
  BY <1>0, <1>2, <1>11 DEF Sound, Typed
<1>15. \A p \in DOMAIN e.proc :
         Exists(e, e.proc[p].node) => e.node[e.proc[p].node].owner = e.proc[p].owner
  <2>1. \A p \in DOMAIN db.proc : db.proc[p].node \notin new
    <3>1. \A x \in 1 .. MaxNode : x < db.next => ~(x >= db.next)
      BY <1>0
    <3> QED  BY <3>1, <1>0, <1>6 DEF Typed, Runs
  <2> QED  BY <2>1, <1>2, <1>11 DEF Sound, Exists
<1>16. Rooted(e)
  <2> SUFFICES ASSUME NEW S \in SUBSET NodeIds(e), S # {} PROVE \E n \in S : Parent(e, n) \notin S
    BY DEF Rooted
  <2>1. Null \notin S
    BY <1>0, <1>6, <1>11, NullIsNoNode
  <2>2. CASE S \intersect NodeIds(db) # {}
    <3>1. PICK n \in S \intersect NodeIds(db) : Parent(db, n) \notin S \intersect NodeIds(db)
      BY <2>2 DEF Sound, Rooted
    <3>2. Parent(e, n) \in NodeIds(db) \union {Null} /\ Parent(e, n) = Parent(db, n)
      BY <1>0, <1>11, NullIsNoNode
    <3> QED  BY <3>1, <3>2, <2>1
  <2>3. CASE S \intersect NodeIds(db) = {}
    <3> DEFINE R == {m \in ids : id(m) \in S}
    <3>1. R \in SUBSET NodeIds(db) /\ R # {}
      <4>1. PICK i \in S : i \in new
        BY <2>3, <1>11
      <4>2. PICK m \in ids : i = id(m)
        BY <4>1
      <4> QED  BY <4>1, <4>2, <1>3
    <3>2. PICK m \in R : Parent(db, m) \notin R
      BY <3>1 DEF Sound, Rooted
    <3>3. CASE m = r.node
      BY <3>3, <2>1, <2>3, <1>8, <1>11
    <3>4. CASE m # r.node
      BY <3>2, <3>4, <1>7, <1>11
    <3> QED  BY <3>3, <3>4
  <2> QED  BY <2>2, <2>3
<1>17. Sound(e)
  BY <1>12, <1>13, <1>14, <1>15, <1>16 DEF Sound
<1> QED
  BY <1>17, <1>2, <1>6, <1>11 DEF e

-----------------------------------------------------------------------------
(* What a request knows when it has been checked.                          *)

Fields == {"step", "user", "what", "node", "id", "to", "owner", "perm", "copies", "users", "uids",
           "judge", "told"}
Kinds == {"folder", "script", "copy", "move", "delete", "share", "unshare", "pshare", "punshare", "exec"}
Asked(r) == DOMAIN r = Fields /\ r.what \in Kinds

MayReach(d, u, f) == f # Null => NodePermission(d, u, f) >= Edit

WantsNew(d, r) == r.what \in {"folder", "script"} =>
  /\ r.owner \in Users /\ Fits(d, r.to, r.owner) /\ d.next <= MaxNode /\ r.node = d.next
  /\ MayReach(d, r.user, r.to)
WantsCopy(d, r) == r.what = "copy" =>
  /\ r.owner \in Users /\ Fits(d, r.to, r.owner)
  /\ DOMAIN r.copies \subseteq NodeIds(d) /\ r.copies = Restrict(d.node, DOMAIN r.copies)
  /\ r.node \in DOMAIN r.copies
  /\ \A m \in DOMAIN r.copies : m # r.node => Parent(d, m) \in DOMAIN r.copies
  /\ d.next + Cardinality(DOMAIN r.copies) <= MaxNode + 1
  /\ \A m \in DOMAIN r.copies : NodePermission(d, r.user, m) > Block
  /\ MayReach(d, r.user, r.to)
WantsTree(d, r) == r.what \in {"move", "delete"} =>
  r.node \in NodeIds(d) /\ \A m \in Down(d, r.node) : NodePermission(d, r.user, m) >= Edit
WantsMove(d, r) == r.what = "move" =>
  /\ Fits(d, r.to, d.node[r.node].owner) /\ r.node \notin UpIds(d, r.to)
  /\ MayReach(d, r.user, r.to)
WantsShare(d, r) ==
  /\ r.what = "share" =>
       r.node \in NodeIds(d) /\ d.node[r.node].folder /\ r.to \in Users /\ r.perm \in Perms
  /\ r.what = "pshare" => r.node \in DOMAIN d.proc /\ r.to \in Users /\ r.perm \in Perms
WantsRun(d, r) == r.what = "exec" =>
  r.node \in NodeIds(d) /\ r.owner = d.node[r.node].owner /\ r.to \in Procs \ DOMAIN d.proc

Wanted(d, r) ==
  /\ WantsNew(d, r) /\ WantsCopy(d, r) /\ WantsTree(d, r) /\ WantsMove(d, r)
  /\ WantsShare(d, r) /\ WantsRun(d, r)

\* The accounts and processes that a request will look at are those it may concern.
Concerned(d, r) ==
  /\ r.what \in {"folder", "script", "copy"} => r.users = {}
  /\ r.what \in {"share", "unshare"} =>
       r.to \in r.users /\ ListLiveProcessesUnder(d, r.node) \subseteq r.uids
  /\ r.what \in {"pshare", "punshare"} => r.to \in r.users /\ r.node \in r.uids
  /\ r.what \in {"move", "delete"} =>
       /\ SharedOn(d, UpIds(d, r.node) \union Down(d, r.node)) \subseteq r.users
       /\ ListLiveProcessesUnder(d, r.node) \subseteq r.uids
  /\ r.what = "move" =>
       LET e == PatchParent(d, r.node, r.to)
       IN SharedOn(e, UpIds(e, r.node) \union Down(e, r.node)) \subseteq r.users

Steps == {"idle", "write", "told", "access", "viewers", "join", "clean"}

ReqOk(d, r) ==
  /\ r.step \in Steps
  /\ r.step \in {"write", "told", "access"} =>
       Asked(r) /\ r.users \subseteq Users /\ r.uids \subseteq DOMAIN d.proc
  /\ r.step = "told" /\ r.what \notin {"move", "delete"} => r.users = {}
  /\ r.step = "write" => Wanted(d, r) /\ Concerned(d, r)
  /\ r.step = "viewers" => r.to \in DOMAIN d.proc
  /\ r.step = "join" => r.proc \in DOMAIN d.proc /\ r.users \subseteq Users

State(d, q, s) ==
  /\ Sound(d)
  /\ q = [h \in Threads |-> q[h]]
  /\ \A h \in Threads : ReqOk(d, q[h])
  /\ \A h, g \in Threads : q[h].step = "write" /\ q[g].step = "write" => h = g
  /\ s \subseteq Users \X DOMAIN d.proc

-----------------------------------------------------------------------------
(* The tables a permission is read from.                                   *)

UpIn(node, n) ==
  LET row[k \in 0..MaxDepth] ==
        IF k > 0 THEN IF row[k - 1] \in DOMAIN node THEN node[row[k - 1]].parent ELSE Null
        ELSE IF n \in DOMAIN node THEN n ELSE Null
  IN row
DownIn(node, n) ==
  LET row[k \in 0..MaxDepth] ==
        IF k = 0 THEN {n} ELSE UNION {{m \in DOMAIN node : node[m].parent = x} : x \in row[k - 1]}
  IN UNION Range(row)
PermissionIn(node, share, u, n) ==
  LET up == UpIn(node, n)
      hit == {k \in 0..MaxDepth : <<up[k], u>> \in DOMAIN share}
      src == IF hit = {} THEN Null ELSE up[Min(hit)]
  IN IF n \in DOMAIN node /\ node[n].owner = u THEN Owner
     ELSE IF src = Null THEN Block ELSE share[<<src, u>>]

LEMMA ReadFrom ==
  ASSUME NEW d
  PROVE  /\ \A n : Up(d, n) = UpIn(d.node, n)
         /\ \A n : Down(d, n) = DownIn(d.node, n)
         /\ \A u, n : NodePermission(d, u, n) = PermissionIn(d.node, d.share, u, n)
<1>1. \A n : Up(d, n) = UpIn(d.node, n)
  BY DEF Up, UpIn, Parent, Exists, NodeIds
<1>2. \A n : Down(d, n) = DownIn(d.node, n)
  BY DEF Down, DownIn, Children, NodeIds
<1>3. ASSUME NEW u, NEW n PROVE NodePermission(d, u, n) = PermissionIn(d.node, d.share, u, n)
  <2>1. Up(d, n) = UpIn(d.node, n)
    BY <1>1
  <2> QED  BY <2>1 DEF NodePermission, NearestNodeShare, PermissionIn, Exists, NodeIds
<1> QED
  BY <1>1, <1>2, <1>3

\* Rights and trees are read from nodes and shares, and from nothing else.
LEMMA SameTables ==
  ASSUME NEW d, NEW e, e.node = d.node, e.share = d.share
  PROVE  /\ NodeIds(e) = NodeIds(d)
         /\ \A n : Parent(e, n) = Parent(d, n)
         /\ \A n : UpIds(e, n) = UpIds(d, n) /\ Down(e, n) = Down(d, n)
         /\ \A u, n : NodePermission(e, u, n) = NodePermission(d, u, n)
<1>1. \A n : Up(e, n) = Up(d, n) /\ Down(e, n) = Down(d, n)
  BY ReadFrom
<1>2. \A n : UpIds(e, n) = UpIds(d, n)
  BY <1>1 DEF UpIds
<1>3. \A u, n : NodePermission(e, u, n) = NodePermission(d, u, n)
  BY ReadFrom
<1> QED
  BY <1>1, <1>2, <1>3 DEF NodeIds, Parent, Exists

LEMMA WantedKept ==
  ASSUME NEW d, NEW e, e.node = d.node, e.share = d.share, e.next = d.next, DOMAIN e.proc = DOMAIN d.proc,
         NEW r, Wanted(d, r)
  PROVE  Wanted(e, r)
<1>1. /\ NodeIds(e) = NodeIds(d)
      /\ \A n : Parent(e, n) = Parent(d, n)
      /\ \A n : UpIds(e, n) = UpIds(d, n) /\ Down(e, n) = Down(d, n)
      /\ \A u, n : NodePermission(e, u, n) = NodePermission(d, u, n)
  BY SameTables
<1>2. /\ \A f, o : Fits(e, f, o) <=> Fits(d, f, o)
      /\ \A u, f : MayReach(e, u, f) <=> MayReach(d, u, f)
  BY <1>1 DEF Fits, MayReach, Exists
<1>3. WantsNew(e, r)
  BY <1>1, <1>2 DEF Wanted, WantsNew
<1>4. WantsCopy(e, r)
  BY <1>1, <1>2 DEF Wanted, WantsCopy
<1>5. WantsTree(e, r) /\ WantsMove(e, r)
  BY <1>1, <1>2 DEF Wanted, WantsTree, WantsMove
<1>6. WantsShare(e, r) /\ WantsRun(e, r)
  BY <1>1 DEF Wanted, WantsShare, WantsRun
<1> QED
  BY <1>3, <1>4, <1>5, <1>6 DEF Wanted

LEMMA ConcernedKept ==
  ASSUME NEW d, Sound(d), NEW e, Sound(e), e.node = d.node, e.share = d.share, e.next = d.next,
         Live(e) \subseteq Live(d), DOMAIN e.proc = DOMAIN d.proc,
         \A p \in DOMAIN e.proc : e.proc[p].node = d.proc[p].node,
         NEW r, Wanted(d, r), Concerned(d, r)
  PROVE  Concerned(e, r)
<1>1. /\ NodeIds(e) = NodeIds(d)
      /\ \A n : UpIds(e, n) = UpIds(d, n) /\ Down(e, n) = Down(d, n)
  BY SameTables
<1>2. \A n : ListLiveProcessesUnder(e, n) \subseteq ListLiveProcessesUnder(d, n)
  BY <1>1 DEF ListLiveProcessesUnder, Live
<1>3. \A ns : SharedOn(e, ns) = SharedOn(d, ns)
  BY DEF SharedOn
<1>4. ASSUME r.what = "move"
      PROVE  LET c == PatchParent(e, r.node, r.to)
             IN SharedOn(c, UpIds(c, r.node) \union Down(c, r.node)) \subseteq r.users
  <2> DEFINE b == PatchParent(d, r.node, r.to)
             c == PatchParent(e, r.node, r.to)
  <2>1. /\ r.node \in NodeIds(d) /\ Fits(d, r.to, d.node[r.node].owner) /\ r.node \notin UpIds(d, r.to)
    BY <1>4 DEF Wanted, WantsTree, WantsMove
  <2>2. /\ r.node \in NodeIds(e) /\ Fits(e, r.to, e.node[r.node].owner) /\ r.node \notin UpIds(e, r.to)
    BY <2>1, <1>1 DEF Fits, Exists
  <2>3. b.node = [d.node EXCEPT ![r.node].parent = r.to] /\ b.share = d.share
    BY <2>1, PatchRow, DbFields DEF Sound
  <2>4. c.node = [e.node EXCEPT ![r.node].parent = r.to] /\ c.share = e.share
    BY <2>2, PatchRow, DbFields DEF Sound
  <2>5. c.node = b.node /\ c.share = b.share
    BY <2>3, <2>4
  <2>6. SharedOn(b, UpIds(b, r.node) \union Down(b, r.node)) \subseteq r.users
    BY <1>4 DEF Concerned
  <2> HIDE DEF b, c
  <2>7. UpIds(c, r.node) = UpIds(b, r.node) /\ Down(c, r.node) = Down(b, r.node)
    BY <2>5, SameTables
  <2>8. SharedOn(c, UpIds(c, r.node) \union Down(c, r.node)) =
          SharedOn(b, UpIds(b, r.node) \union Down(b, r.node))
    BY <2>5, <2>7 DEF SharedOn
  <2> QED  BY <2>6, <2>8 DEF c
<1>5. /\ r.what \in {"folder", "script", "copy"} => r.users = {}
      /\ r.what \in {"share", "unshare"} =>
           r.to \in r.users /\ ListLiveProcessesUnder(e, r.node) \subseteq r.uids
      /\ r.what \in {"pshare", "punshare"} => r.to \in r.users /\ r.node \in r.uids
  BY <1>2 DEF Concerned
<1>6. r.what \in {"move", "delete"} =>
       /\ SharedOn(e, UpIds(e, r.node) \union Down(e, r.node)) \subseteq r.users
       /\ ListLiveProcessesUnder(e, r.node) \subseteq r.uids
  <2>1. UpIds(e, r.node) \union Down(e, r.node) = UpIds(d, r.node) \union Down(d, r.node)
    BY <1>1
  <2> QED  BY <2>1, <1>2, <1>3 DEF Concerned
<1> QED
  BY <1>4, <1>5, <1>6 DEF Concerned

\* Past its write, a request needs of the tables only that its processes are there.
LEMMA ReqOkKept ==
  ASSUME NEW d, NEW e, NEW r, ReqOk(d, r), DOMAIN d.proc \subseteq DOMAIN e.proc,
         r.step = "write" => Wanted(e, r) /\ Concerned(e, r)
  PROVE  ReqOk(e, r)
BY DEF ReqOk

-----------------------------------------------------------------------------
(* The checks.                                                             *)

LEMMA AroundAreUsers ==
  ASSUME NEW d, Typed(d), NEW n
  PROVE  ListShareUsersAround(d, n) \subseteq Users /\ ListLiveProcessesUnder(d, n) \subseteq DOMAIN d.proc
<1>1. ListLiveProcessesUnder(d, n) \subseteq DOMAIN d.proc
  BY DEF ListLiveProcessesUnder, Live
<1>2. {s[2] : s \in {r \in DOMAIN d.pshare : r[1] \in ListLiveProcessesUnder(d, n)}} \subseteq Users
  BY DEF Typed
<1> QED
  BY <1>1, <1>2, SharedAreUsers DEF ListShareUsersAround

\* What is below a node is the node, or is below one of its children.
LEMMA BelowAChild ==
  ASSUME NEW d, Forest(d), NEW n \in NodeIds(d), NEW m \in Down(d, n), m # n
  PROVE  m \in UNION {Down(d, c) : c \in Children(d, n)}
<1> DEFINE S == {x \in NodeIds(d) : x \in Down(d, n) /\ x # n => \E c \in Children(d, n) : x \in Down(d, c)}
<1>1. ASSUME NEW x \in NodeIds(d), Parent(d, x) = Null \/ Parent(d, x) \in S PROVE x \in S
  <2> SUFFICES ASSUME x \in Down(d, n), x # n PROVE \E c \in Children(d, n) : x \in Down(d, c)
    OBVIOUS
  <2>1. PICK g \in Down(d, n) : x \in Children(d, g)
    BY DownStep
  <2>2. Parent(d, x) = g /\ g \in NodeIds(d)
    BY <2>1, DownTyped DEF Children, Parent, Exists
  <2>3. CASE g = n
    BY <2>1, <2>3, DownTyped
  <2>4. CASE g # n
    <3>1. g \in S
      BY <2>2, <1>1, NullIsNoNode
    <3>2. PICK c \in Children(d, n) : g \in Down(d, c)
      BY <3>1, <2>4
    <3>3. c \in NodeIds(d)
      BY DEF Children
    <3> QED  BY <3>2, <3>3, <2>1, DownClosed
  <2> QED  BY <2>3, <2>4
<1> HIDE DEF S
<1>2. NodeIds(d) \subseteq S
  BY <1>1, TreeInduction
<1> QED
  BY <1>2, DownTyped DEF S

\* requireNoLowerShare looks at all there is to look at.
LEMMA TakesWhatItMay ==
  ASSUME NEW d, Sound(d), NEW u, NEW n \in NodeIds(d), NodePermission(d, u, n) >= Edit,
         NodePermission(d, u, n) = Owner \/ ~HasLowerShareBelow(d, u, n, Edit)
  PROVE  \A m \in Down(d, n) : NodePermission(d, u, m) >= Edit
<1>0. Forest(d) /\ Owner >= Edit
  BY SoundForest DEF Owner, Edit
<1> DEFINE S == {m \in NodeIds(d) : m \in Down(d, n) => NodePermission(d, u, m) >= Edit}
<1>1. ASSUME NEW m \in NodeIds(d), Parent(d, m) = Null \/ Parent(d, m) \in S PROVE m \in S
  <2> SUFFICES ASSUME m \in Down(d, n), m # n PROVE NodePermission(d, u, m) >= Edit
    OBVIOUS
  <2>1. PICK g \in Down(d, n) : m \in Children(d, g)
    BY <1>0, DownStep
  <2>2. Parent(d, m) = g /\ g \in NodeIds(d)
    BY <2>1, <1>0, DownTyped DEF Children, Parent, Exists
  <2>3. NodePermission(d, u, g) >= Edit
    BY <2>2, <1>1, <1>0, NullIsNoNode
  <2>4. CASE d.node[m].owner = u
    BY <2>4, <1>0, OwnerIffOwns
  <2>5. CASE d.node[m].owner # u /\ <<m, u>> \notin DOMAIN d.share
    BY <2>2, <2>3, <2>5, PermissionStep
  <2>6. CASE d.node[m].owner # u /\ <<m, u>> \in DOMAIN d.share
    <3>1. m \in NodeIds(d) /\ n \in UpIds(d, m)
      BY <1>0, DownIsBelow
    <3>2. NodePermission(d, u, n) # Owner
      BY <3>1, <2>6, OwnerAlong, OwnerIffOwns
    <3>3. m \in UNION {Down(d, c) : c \in Children(d, n)}
      BY <1>0, BelowAChild
    <3>4. ~(d.share[<<m, u>>] < Edit)
      BY <3>2, <3>3, <2>6 DEF HasLowerShareBelow
    <3>5. d.share[<<m, u>>] \in Perms
      BY <2>6 DEF Sound, Typed
    <3>6. d.share[<<m, u>>] >= Edit
      BY <3>4, <3>5 DEF Perms, Block, View, Operate, Edit
    <3> QED  BY <3>6, <2>6, PermissionStep
  <2> QED  BY <2>4, <2>5, <2>6
<1> HIDE DEF S
<1>2. NodeIds(d) \subseteq S
  BY <1>1, <1>0, TreeInduction
<1> QED
  BY <1>2, <1>0, DownTyped DEF S

\* collectCopy, level by level.
FirstRow(u, n) == {<<n, NodePermission(db, u, n)>>}
NextRow(u, s) == UNION {ListChildrenVisible(db, u, c[1], c[2]) : c \in s}
CopyRows(u, n, f, m) == f = [k \in 0 .. m |-> IF k = 0 THEN FirstRow(u, n) ELSE NextRow(u, f[k - 1])]

LEMMA CopyRowsExist == ASSUME NEW u, NEW n PROVE \A m \in Nat : \E f : CopyRows(u, n, f, m)
<1> DEFINE T == {m \in Nat : \E f : CopyRows(u, n, f, m)}
<1>1. 0 \in T
  <2> DEFINE f == [k \in 0 .. 0 |-> FirstRow(u, n)]
  <2>1. CopyRows(u, n, f, 0)
    BY DEF CopyRows
  <2> QED  BY <2>1
<1>2. \A m \in Nat : m \in T => m + 1 \in T
  <2> SUFFICES ASSUME NEW m \in Nat, m \in T PROVE m + 1 \in T
    OBVIOUS
  <2>1. PICK f : CopyRows(u, n, f, m)
    OBVIOUS
  <2> DEFINE g == [k \in 0 .. m + 1 |-> IF k = m + 1 THEN NextRow(u, f[m]) ELSE f[k]]
  <2>2. \A k \in 0 .. m + 1 : g[k] = IF k = 0 THEN FirstRow(u, n) ELSE NextRow(u, g[k - 1])
    <3> SUFFICES ASSUME NEW k \in 0 .. m + 1
                 PROVE  g[k] = IF k = 0 THEN FirstRow(u, n) ELSE NextRow(u, g[k - 1])
      OBVIOUS
    <3>0. \A j \in 0 .. m + 1 : g[j] = IF j = m + 1 THEN NextRow(u, f[m]) ELSE f[j]
      OBVIOUS
    <3> HIDE DEF g
    <3>1. CASE k = m + 1
      <4>1. k - 1 = m /\ k # 0 /\ m \in 0 .. m + 1 /\ m # m + 1
        BY <3>1
      <4>2. g[k - 1] = f[m]
        BY <4>1, <3>0
      <4> QED  BY <4>1, <4>2, <3>1, <3>0
    <3>2. CASE k \in 0 .. m
      <4>1. f[k] = IF k = 0 THEN FirstRow(u, n) ELSE NextRow(u, f[k - 1])
        BY <2>1, <3>2 DEF CopyRows
      <4>2. k # m + 1 /\ (k # 0 => k - 1 \in 0 .. m + 1 /\ k - 1 # m + 1)
        BY <3>2
      <4>3. g[k] = f[k] /\ (k # 0 => g[k - 1] = f[k - 1])
        BY <4>2, <3>0
      <4> QED  BY <4>1, <4>3
    <3> QED  BY <3>1, <3>2
  <2>3. CopyRows(u, n, g, m + 1)
    BY <2>2 DEF CopyRows
  <2> QED  BY <2>3
<1> HIDE DEF T
<1>3. Nat \subseteq T
  BY <1>1, <1>2, DepthInduction
<1> QED
  BY <1>3 DEF T

\* collectCopy finds nodes the requester may view, each with its parent, up to the top.
LEMMA CopiesWhatItSees ==
  ASSUME Sound(db), NEW u, NEW n \in NodeIds(db), NodePermission(db, u, n) > Block
  PROVE  /\ n \in Collected(u, n) /\ Collected(u, n) \subseteq NodeIds(db)
         /\ \A m \in Collected(u, n) : /\ NodePermission(db, u, m) > Block
                                       /\ m # n => Parent(db, m) \in Collected(u, n)
<1>0. MaxDepth \in Nat
  BY NodeTreeAssumption
<1> DEFINE f == CHOOSE g : CopyRows(u, n, g, MaxDepth)
<1>1. CopyRows(u, n, f, MaxDepth)
  BY <1>0, CopyRowsExist
<1>2. Collected(u, n) = {c[1] : c \in UNION Range(f)}
  BY DEF Collected, CopyRows, FirstRow, NextRow
<1> HIDE DEF f
<1>3. /\ DOMAIN f = 0 .. MaxDepth /\ f[0] = {<<n, NodePermission(db, u, n)>>}
      /\ \A k \in 0 .. MaxDepth :
           k # 0 => f[k] = UNION {ListChildrenVisible(db, u, c[1], c[2]) : c \in f[k - 1]}
  BY <1>0, <1>1 DEF CopyRows, FirstRow, NextRow
<1>4. Collected(u, n) = {c[1] : c \in UNION {f[k] : k \in 0 .. MaxDepth}}
  BY <1>2, <1>3 DEF Range
<1> DEFINE Right(c) == /\ c[1] \in NodeIds(db) /\ c[2] = NodePermission(db, u, c[1])
                       /\ NodePermission(db, u, c[1]) > Block
           T == {k \in Nat : k \in 0 .. MaxDepth => \A c \in f[k] : Right(c)}
<1>5. ASSUME NEW k \in 0 .. MaxDepth, k # 0, \A c \in f[k - 1] : Right(c), NEW e \in f[k]
      PROVE  Right(e) /\ \E c \in f[k - 1] : Parent(db, e[1]) = c[1]
  <2>1. PICK c \in f[k - 1] : e \in ListChildrenVisible(db, u, c[1], c[2])
    BY <1>3, <1>5
  <2>2. Right(c)
    BY <1>5
  <2>3. NodePermission(db, u, c[1]) # Block
    BY <2>2 DEF Block
  <2>4. e \in {<<m, NodePermission(db, u, m)>> :
                 m \in {x \in Children(db, c[1]) : NodePermission(db, u, x) > Block}}
    BY <2>1, <2>2, <2>3, ListIsRight
  <2>5. PICK m \in Children(db, c[1]) : e = <<m, NodePermission(db, u, m)>> /\ NodePermission(db, u, m) > Block
    BY <2>4
  <2>6. e[1] = m /\ e[2] = NodePermission(db, u, m) /\ m \in NodeIds(db) /\ Parent(db, m) = c[1]
    BY <2>5 DEF Children, Parent, Exists
  <2> QED  BY <2>5, <2>6
<1>6. \A c \in f[0] : Right(c) /\ c[1] = n
  BY <1>3
<1>7. Nat \subseteq T
  <2>1. 0 \in T
    BY <1>6
  <2>2. \A k \in Nat : k \in T => k + 1 \in T
    <3> SUFFICES ASSUME NEW k \in Nat, k \in 0 .. MaxDepth => \A c \in f[k] : Right(c),
                        k + 1 \in 0 .. MaxDepth, NEW e \in f[k + 1]
                 PROVE  Right(e)
      OBVIOUS
    <3>1. k \in 0 .. MaxDepth /\ k + 1 # 0 /\ (k + 1) - 1 = k
      BY <1>0
    <3> HIDE DEF Right
    <3>2. \A c \in f[(k + 1) - 1] : Right(c)
      BY <3>1
    <3> QED  BY <3>1, <3>2, <1>5
  <2> HIDE DEF T
  <2> QED  BY <2>1, <2>2, DepthInduction
<1>8. \A k \in 0 .. MaxDepth : \A c \in f[k] : Right(c)
  <2>1. \A k \in 0 .. MaxDepth : k \in Nat
    BY <1>0
  <2> QED  BY <2>1, <1>7
<1>9. ASSUME NEW m \in Collected(u, n)
      PROVE  /\ m \in NodeIds(db) /\ NodePermission(db, u, m) > Block
             /\ m # n => Parent(db, m) \in Collected(u, n)
  <2>0. PICK k \in 0 .. MaxDepth : \E c \in f[k] : m = c[1]
    BY <1>4
  <2>1. PICK c \in f[k] : m = c[1]
    BY <2>0
  <2>2. Right(c)
    BY <1>8
  <2>3. CASE k = 0
    BY <2>1, <2>2, <2>3, <1>6
  <2>4. CASE k # 0
    <3>1. k - 1 \in 0 .. MaxDepth
      BY <2>4, <1>0
    <3>2. \A x \in f[k - 1] : Right(x)
      BY <3>1, <1>8
    <3>3. PICK x \in f[k - 1] : Parent(db, c[1]) = x[1]
      BY <2>4, <3>2, <1>5
    <3>4. Parent(db, m) \in Collected(u, n)
      BY <3>1, <3>3, <2>1, <1>4
    <3> QED  BY <3>4, <2>1, <2>2
  <2> QED  BY <2>3, <2>4
<1>10. n \in Collected(u, n)
  <2>1. <<n, NodePermission(db, u, n)>> \in f[0] /\ <<n, NodePermission(db, u, n)>>[1] = n
    BY <1>3
  <2>2. 0 \in 0 .. MaxDepth
    BY <1>0
  <2> QED  BY <2>1, <2>2, <1>4
<1> QED
  BY <1>9, <1>10

-----------------------------------------------------------------------------
(* The requests, checked.                                                  *)

\* No request checks while another has checked and not written.
OneAtATime == "checks" \notin Windows

\* A request begins, and nothing else happens.
Begun(h) ==
  /\ db' = db /\ subs' = subs
  /\ req[h] = Idle /\ req' = [req EXCEPT ![h] = req'[h]] /\ req'[h].step = "write"

\* A request that has been checked begins.
LEMMA ChecksKeep ==
  ASSUME OneAtATime, State(db, req, subs), NEW h \in Threads, NEW r, Ready(h), Begin(h, r), ReqOk(db, r),
         r.step = "write"
  PROVE  State(db', req', subs') /\ Begun(h)
<1>1. db' = db /\ subs' = subs /\ req' = [req EXCEPT ![h] = r]
  BY DEF Begin
<1>2. req = [g \in Threads |-> req[g]]
  BY DEF State
<1>3. \A g \in Threads : req'[g] = IF g = h THEN r ELSE req[g]
  BY <1>1, <1>2
<1>4. req' = [g \in Threads |-> req'[g]]
  BY <1>1, <1>2
<1>5. \A g \in Threads : req[g].step # "write"
  BY DEF Ready, At, OneAtATime
<1>6. \A g \in Threads : ReqOk(db, req'[g])
  BY <1>3 DEF State
<1>7. \A g, k \in Threads : req'[g].step = "write" /\ req'[k].step = "write" => g = k
  BY <1>3, <1>5
<1>8. Begun(h)
  BY <1>1, <1>3 DEF Begun, Ready
<1> QED
  BY <1>1, <1>4, <1>6, <1>7, <1>8 DEF State

\* A check that passes leaves a request that knows what its kind needs.
LEMMA CheckedOk ==
  ASSUME NEW d, NEW r, Asked(r), r.step = "write", r.users \subseteq Users, r.uids \subseteq DOMAIN d.proc,
         Wanted(d, r), Concerned(d, r)
  PROVE  ReqOk(d, r)
BY DEF ReqOk, Steps

LEMMA MayMeans ==
  ASSUME NEW u, NEW n, NEW min, May(u, n, min)
  PROVE  n \in NodeIds(db) /\ NodePermission(db, u, n) >= min
BY DEF May, Exists

LEMMA MayPutMeans ==
  ASSUME Sound(db), NEW u \in Users, NEW f, MayPut(u, f)
  PROVE  /\ MayReach(db, u, f) /\ Fits(db, f, OwnerIn(u, f)) /\ OwnerIn(u, f) \in Users
         /\ f # Null => f \in NodeIds(db) /\ db.node[f].folder
<1>1. f # Null => f \in NodeIds(db) /\ db.node[f].folder /\ NodePermission(db, u, f) >= Edit
  BY DEF MayPut, May, Exists
<1>2. f # Null => db.node[f].owner \in Users
  BY <1>1 DEF Sound, Typed, Rows
<1> QED
  BY <1>1, <1>2 DEF MayReach, Fits, OwnerIn, Exists

\* The check of each kind of request gives the request what its write needs.
LEMMA CreateAsks ==
  ASSUME OneAtATime, State(db, req, subs), NEW h \in Threads, NEW u \in Users, NEW f,
         NEW what \in {"folder", "script"}, Ready(h), AskCreate(h, u, f, what)
  PROVE  State(db', req', subs') /\ Begun(h)
<1> DEFINE r0 == NewRequest(u, what, db.next, f)
           r1 == [r0 EXCEPT !.owner = OwnerIn(u, f)]
           r2 == [r1 EXCEPT !.judge = JudgeIds(db.next, {f})]
<1>0. Begin(h, r2)
  BY DEF AskCreate
<1>1. /\ Asked(r0) /\ r0.step = "write" /\ r0.user = u /\ r0.what = what /\ r0.node = db.next
      /\ r0.to = f /\ r0.users = {} /\ r0.uids = {}
  BY DEF NewRequest, Asked, Fields, Kinds
<1> HIDE DEF r0
<1>2. /\ Asked(r1) /\ r1.step = "write" /\ r1.user = u /\ r1.what = what /\ r1.node = db.next
      /\ r1.to = f /\ r1.users = {} /\ r1.uids = {} /\ r1.owner = OwnerIn(u, f)
  BY <1>1 DEF Asked, Fields
<1> HIDE DEF r1
<1>3. /\ Asked(r2) /\ r2.step = "write" /\ r2.user = u /\ r2.what = what /\ r2.node = db.next
      /\ r2.to = f /\ r2.users = {} /\ r2.uids = {} /\ r2.owner = OwnerIn(u, f)
  BY <1>2 DEF Asked, Fields
<1> HIDE DEF r2
<1>4. db.next <= MaxNode /\ MayPut(u, f) /\ Sound(db)
  BY DEF AskCreate, State
<1>5. MayReach(db, u, f) /\ Fits(db, f, OwnerIn(u, f)) /\ OwnerIn(u, f) \in Users
  BY <1>4, MayPutMeans
<1>6. WantsNew(db, r2)
  BY <1>3, <1>4, <1>5 DEF WantsNew
<1>7. WantsCopy(db, r2) /\ WantsTree(db, r2) /\ WantsMove(db, r2) /\ WantsShare(db, r2) /\ WantsRun(db, r2)
  BY <1>3 DEF WantsCopy, WantsTree, WantsMove, WantsShare, WantsRun
<1>a. Concerned(db, r2)
  BY <1>3 DEF Concerned
<1>8. ReqOk(db, r2)
  BY <1>3, <1>6, <1>7, <1>a, CheckedOk DEF Wanted
<1> QED
  BY <1>0, <1>8, <1>3, ChecksKeep DEF State

LEMMA CopyAsks ==
  ASSUME OneAtATime, State(db, req, subs), NEW h \in Threads, NEW u \in Users, NEW n, NEW f,
         Ready(h), AskCopy(h, u, n, f)
  PROVE  State(db', req', subs') /\ Begun(h)
<1> DEFINE from == Collected(u, n)
           top == NewId(db.next, from, n)
           cp == Restrict(db.node, from)
           r0 == NewRequest(u, "copy", n, f)
           r1 == [r0 EXCEPT !.owner = OwnerIn(u, f)]
           r2 == [r1 EXCEPT !.copies = cp]
           r3 == [r2 EXCEPT !.id = top]
           r4 == [r3 EXCEPT !.judge = JudgeIds(top, {f})]
<1>0. Begin(h, r4) /\ db.next + Cardinality(from) <= MaxNode + 1 /\ May(u, n, View) /\ MayPut(u, f)
  BY DEF AskCopy
<1>a. DOMAIN cp = from /\ cp = Restrict(db.node, DOMAIN cp)
  BY Restricted
<1> HIDE DEF cp, top
<1>1. /\ Asked(r0) /\ r0.step = "write" /\ r0.user = u /\ r0.what = "copy" /\ r0.node = n
      /\ r0.to = f /\ r0.users = {} /\ r0.uids = {}
  BY DEF NewRequest, Asked, Fields, Kinds
<1> HIDE DEF r0
<1>2. /\ Asked(r1) /\ r1.step = "write" /\ r1.user = u /\ r1.what = "copy" /\ r1.node = n
      /\ r1.to = f /\ r1.users = {} /\ r1.uids = {} /\ r1.owner = OwnerIn(u, f)
  BY <1>1 DEF Asked, Fields
<1> HIDE DEF r1
<1>3. /\ Asked(r2) /\ r2.step = "write" /\ r2.user = u /\ r2.what = "copy" /\ r2.node = n
      /\ r2.to = f /\ r2.users = {} /\ r2.uids = {} /\ r2.owner = OwnerIn(u, f) /\ r2.copies = cp
  BY <1>2 DEF Asked, Fields
<1> HIDE DEF r2
<1>4. /\ Asked(r3) /\ r3.step = "write" /\ r3.user = u /\ r3.what = "copy" /\ r3.node = n
      /\ r3.to = f /\ r3.users = {} /\ r3.uids = {} /\ r3.owner = OwnerIn(u, f) /\ r3.copies = cp
  BY <1>3 DEF Asked, Fields
<1> HIDE DEF r3
<1>5. /\ Asked(r4) /\ r4.step = "write" /\ r4.user = u /\ r4.what = "copy" /\ r4.node = n
      /\ r4.to = f /\ r4.users = {} /\ r4.uids = {} /\ r4.owner = OwnerIn(u, f) /\ r4.copies = cp
  BY <1>4 DEF Asked, Fields
<1> HIDE DEF r4
<1>6. Sound(db) /\ n \in NodeIds(db) /\ NodePermission(db, u, n) >= View
  BY <1>0, MayMeans DEF State
<1>7. NodePermission(db, u, n) > Block
  BY <1>6, PermissionTyped DEF Perms, Owner, Block, View, Operate, Edit
<1>8. /\ n \in from /\ from \subseteq NodeIds(db)
      /\ \A m \in from : NodePermission(db, u, m) > Block /\ (m # n => Parent(db, m) \in from)
  BY <1>6, <1>7, CopiesWhatItSees
<1>9. MayReach(db, u, f) /\ Fits(db, f, OwnerIn(u, f)) /\ OwnerIn(u, f) \in Users
  BY <1>0, <1>6, MayPutMeans
<1> HIDE DEF from
<1>10. WantsCopy(db, r4)
  <2>1. DOMAIN r4.copies = from /\ r4.copies = Restrict(db.node, DOMAIN r4.copies)
    BY <1>5, <1>a
  <2> QED  BY <2>1, <1>0, <1>5, <1>8, <1>9 DEF WantsCopy
<1>11. WantsNew(db, r4) /\ WantsTree(db, r4) /\ WantsMove(db, r4) /\ WantsShare(db, r4) /\ WantsRun(db, r4)
  BY <1>5 DEF WantsNew, WantsTree, WantsMove, WantsShare, WantsRun
<1>b. Concerned(db, r4)
  BY <1>5 DEF Concerned
<1>12. ReqOk(db, r4)
  BY <1>5, <1>b, <1>10, <1>11, CheckedOk DEF Wanted
<1> QED
  BY <1>0, <1>12, <1>5, ChecksKeep

LEMMA MayTakeMeans ==
  ASSUME Sound(db), NEW u, NEW n, MayTake(u, n)
  PROVE  n \in NodeIds(db) /\ \A m \in Down(db, n) : NodePermission(db, u, m) >= Edit
<1>1. n \in NodeIds(db) /\ NodePermission(db, u, n) >= Edit
  BY MayMeans DEF MayTake
<1> QED
  BY <1>1, TakesWhatItMay DEF MayTake

LEMMA MoveAsks ==
  ASSUME OneAtATime, State(db, req, subs), NEW h \in Threads, NEW u \in Users, NEW n, NEW f,
         Ready(h), AskMove(h, u, n, f)
  PROVE  State(db', req', subs') /\ Begun(h)
<1> DEFINE us == MoveUsers(n, f)
           ps == ListLiveProcessesUnder(db, n)
           r0 == NewRequest(u, "move", n, f)
           r1 == [r0 EXCEPT !.users = us]
           r2 == [r1 EXCEPT !.uids = ps]
           r3 == [r2 EXCEPT !.judge = JudgeIds(n, {f, Parent(db, n)})]
<1>0. Begin(h, r3) /\ MayMove(u, n, f) /\ Sound(db)
  BY DEF AskMove, State
<1>1. Typed(db) /\ n \in NodeIds(db) /\ \A m \in Down(db, n) : NodePermission(db, u, m) >= Edit
  BY <1>0, MayTakeMeans DEF MayMove, Sound
<1>2. /\ f # Null => MayPut(u, f) /\ f \in NodeIds(db) /\ db.node[f].owner = db.node[n].owner
                     /\ n \notin UpIds(db, f)
      /\ f = Null => UpIds(db, f) = {}
  <2>1. f # Null => MayPut(u, f) /\ db.node[f].owner = db.node[n].owner /\ n \notin UpIds(db, f)
    BY <1>0 DEF MayMove, IsDescendant
  <2>2. f = Null => UpIds(db, f) = {}
    BY <1>0, SoundForest, NullIsNoNode, UpOfNone
  <2> QED  BY <2>1, <2>2, <1>0, MayPutMeans
<1>3. Fits(db, f, db.node[n].owner) /\ n \notin UpIds(db, f) /\ MayReach(db, u, f)
  <2>1. f # Null => MayReach(db, u, f) /\ db.node[f].folder
    BY <1>2, <1>0, MayPutMeans
  <2>2. f = Null => MayReach(db, u, f)
    BY DEF MayReach
  <2> QED  BY <1>2, <2>1, <2>2 DEF Fits, Exists
<1>4. us \subseteq Users /\ ps \subseteq DOMAIN db.proc
  <2>1. Typed(PatchParent(db, n, f))
    BY <1>0, <1>1, <1>3, PatchIsSound DEF Sound
  <2> QED  BY <2>1, <1>1, AroundAreUsers DEF MoveUsers
<1>a. /\ SharedOn(db, UpIds(db, n) \union Down(db, n)) \subseteq us
      /\ SharedOn(PatchParent(db, n, f), UpIds(PatchParent(db, n, f), n) \union Down(PatchParent(db, n, f), n))
           \subseteq us
      /\ ListLiveProcessesUnder(db, n) = ps
  BY DEF MoveUsers, ListShareUsersAround
<1> HIDE DEF us, ps
<1>5. /\ Asked(r0) /\ r0.step = "write" /\ r0.user = u /\ r0.what = "move" /\ r0.node = n /\ r0.to = f
  BY DEF NewRequest, Asked, Fields, Kinds
<1> HIDE DEF r0
<1>6. /\ Asked(r1) /\ r1.step = "write" /\ r1.user = u /\ r1.what = "move" /\ r1.node = n /\ r1.to = f
      /\ r1.users = us
  BY <1>5 DEF Asked, Fields
<1> HIDE DEF r1
<1>7. /\ Asked(r2) /\ r2.step = "write" /\ r2.user = u /\ r2.what = "move" /\ r2.node = n /\ r2.to = f
      /\ r2.users = us /\ r2.uids = ps
  BY <1>6 DEF Asked, Fields
<1> HIDE DEF r2
<1>8. /\ Asked(r3) /\ r3.step = "write" /\ r3.user = u /\ r3.what = "move" /\ r3.node = n /\ r3.to = f
      /\ r3.users = us /\ r3.uids = ps
  BY <1>7 DEF Asked, Fields
<1> HIDE DEF r3
<1>9. WantsTree(db, r3) /\ WantsMove(db, r3)
  BY <1>1, <1>3, <1>8 DEF WantsTree, WantsMove
<1>10. WantsNew(db, r3) /\ WantsCopy(db, r3) /\ WantsShare(db, r3) /\ WantsRun(db, r3)
  BY <1>8 DEF WantsNew, WantsCopy, WantsShare, WantsRun
<1>b. Concerned(db, r3)
  BY <1>8, <1>a DEF Concerned
<1>11. ReqOk(db, r3)
  BY <1>b, <1>4, <1>8, <1>9, <1>10, CheckedOk DEF Wanted
<1> QED
  BY <1>0, <1>11, <1>8, ChecksKeep

LEMMA DeleteAsks ==
  ASSUME OneAtATime, State(db, req, subs), NEW h \in Threads, NEW u \in Users, NEW n,
         Ready(h), AskDelete(h, u, n)
  PROVE  State(db', req', subs') /\ Begun(h)
<1> DEFINE us == ListShareUsersAround(db, n)
           ps == ListLiveProcessesUnder(db, n)
           r0 == NewRequest(u, "delete", n, Parent(db, n))
           r1 == [r0 EXCEPT !.users = us]
           r2 == [r1 EXCEPT !.uids = ps]
           r3 == [r2 EXCEPT !.told = Recipients(JudgeIds(n, {Parent(db, n)}))]
<1>0. Begin(h, r3) /\ MayTake(u, n) /\ Sound(db)
  BY DEF AskDelete, State
<1>1. Typed(db) /\ n \in NodeIds(db) /\ \A m \in Down(db, n) : NodePermission(db, u, m) >= Edit
  BY <1>0, MayTakeMeans DEF Sound
<1>2. us \subseteq Users /\ ps \subseteq DOMAIN db.proc
  BY <1>1, AroundAreUsers
<1>a. /\ SharedOn(db, UpIds(db, n) \union Down(db, n)) \subseteq us
      /\ ListLiveProcessesUnder(db, n) = ps
  BY DEF ListShareUsersAround
<1> HIDE DEF us, ps
<1>3. /\ Asked(r0) /\ r0.step = "write" /\ r0.user = u /\ r0.what = "delete" /\ r0.node = n
  BY DEF NewRequest, Asked, Fields, Kinds
<1> HIDE DEF r0
<1>4. /\ Asked(r1) /\ r1.step = "write" /\ r1.user = u /\ r1.what = "delete" /\ r1.node = n
      /\ r1.users = us
  BY <1>3 DEF Asked, Fields
<1> HIDE DEF r1
<1>5. /\ Asked(r2) /\ r2.step = "write" /\ r2.user = u /\ r2.what = "delete" /\ r2.node = n
      /\ r2.users = us /\ r2.uids = ps
  BY <1>4 DEF Asked, Fields
<1> HIDE DEF r2
<1>6. /\ Asked(r3) /\ r3.step = "write" /\ r3.user = u /\ r3.what = "delete" /\ r3.node = n
      /\ r3.users = us /\ r3.uids = ps
  BY <1>5 DEF Asked, Fields
<1> HIDE DEF r3
<1>7. WantsTree(db, r3)
  BY <1>1, <1>6 DEF WantsTree
<1>8. WantsNew(db, r3) /\ WantsCopy(db, r3) /\ WantsMove(db, r3) /\ WantsShare(db, r3) /\ WantsRun(db, r3)
  BY <1>6 DEF WantsNew, WantsCopy, WantsMove, WantsShare, WantsRun
<1>b. Concerned(db, r3)
  BY <1>6, <1>a DEF Concerned
<1>9. ReqOk(db, r3)
  BY <1>b, <1>2, <1>6, <1>7, <1>8, CheckedOk DEF Wanted
<1> QED
  BY <1>0, <1>9, <1>6, ChecksKeep

LEMMA ShareAsks ==
  ASSUME OneAtATime, State(db, req, subs), NEW h \in Threads, NEW u \in Users, NEW n, NEW v \in Users,
         NEW perm \in Given, Ready(h), AskShare(h, u, n, v, perm)
  PROVE  State(db', req', subs') /\ Begun(h)
<1> DEFINE ps == ListLiveProcessesUnder(db, n)
           r0 == NewRequest(u, "share", n, v)
           r1 == [r0 EXCEPT !.perm = perm]
           r2 == [r1 EXCEPT !.users = {v}]
           r3 == [r2 EXCEPT !.uids = ps]
<1>0. Begin(h, r3) /\ n \in NodeIds(db) /\ db.node[n].folder /\ Typed(db) /\ perm \in Perms
  BY NodeAccessAssumption, MayMeans DEF AskShare, State, Sound
<1>1. ps \subseteq DOMAIN db.proc
  BY <1>0, AroundAreUsers
<1>a. ListLiveProcessesUnder(db, n) = ps
  OBVIOUS
<1> HIDE DEF ps
<1>2. /\ Asked(r0) /\ r0.step = "write" /\ r0.what = "share" /\ r0.node = n /\ r0.to = v
  BY DEF NewRequest, Asked, Fields, Kinds
<1> HIDE DEF r0
<1>3. /\ Asked(r1) /\ r1.step = "write" /\ r1.what = "share" /\ r1.node = n /\ r1.to = v /\ r1.perm = perm
  BY <1>2 DEF Asked, Fields
<1> HIDE DEF r1
<1>4. /\ Asked(r2) /\ r2.step = "write" /\ r2.what = "share" /\ r2.node = n /\ r2.to = v /\ r2.perm = perm
      /\ r2.users = {v}
  BY <1>3 DEF Asked, Fields
<1> HIDE DEF r2
<1>5. /\ Asked(r3) /\ r3.step = "write" /\ r3.what = "share" /\ r3.node = n /\ r3.to = v /\ r3.perm = perm
      /\ r3.users = {v} /\ r3.uids = ps
  BY <1>4 DEF Asked, Fields
<1> HIDE DEF r3
<1>6. WantsShare(db, r3)
  BY <1>0, <1>5 DEF WantsShare
<1>7. WantsNew(db, r3) /\ WantsCopy(db, r3) /\ WantsTree(db, r3) /\ WantsMove(db, r3) /\ WantsRun(db, r3)
  BY <1>5 DEF WantsNew, WantsCopy, WantsTree, WantsMove, WantsRun
<1>b. Concerned(db, r3)
  BY <1>5, <1>a DEF Concerned
<1>8. ReqOk(db, r3)
  BY <1>b, <1>1, <1>5, <1>6, <1>7, CheckedOk DEF Wanted
<1> QED
  BY <1>0, <1>8, <1>5, ChecksKeep

LEMMA UnshareAsks ==
  ASSUME OneAtATime, State(db, req, subs), NEW h \in Threads, NEW u \in Users, NEW n, NEW v \in Users,
         Ready(h), AskUnshare(h, u, n, v)
  PROVE  State(db', req', subs') /\ Begun(h)
<1> DEFINE ps == ListLiveProcessesUnder(db, n)
           r0 == NewRequest(u, "unshare", n, v)
           r1 == [r0 EXCEPT !.users = {v}]
           r2 == [r1 EXCEPT !.uids = ps]
<1>0. Begin(h, r2) /\ Typed(db)
  BY DEF AskUnshare, State, Sound
<1>1. ps \subseteq DOMAIN db.proc
  BY <1>0, AroundAreUsers
<1>a. ListLiveProcessesUnder(db, n) = ps
  OBVIOUS
<1> HIDE DEF ps
<1>2. Asked(r0) /\ r0.step = "write" /\ r0.what = "unshare" /\ r0.node = n /\ r0.to = v
  BY DEF NewRequest, Asked, Fields, Kinds
<1> HIDE DEF r0
<1>3. Asked(r1) /\ r1.step = "write" /\ r1.what = "unshare" /\ r1.node = n /\ r1.to = v /\ r1.users = {v}
  BY <1>2 DEF Asked, Fields
<1> HIDE DEF r1
<1>4. Asked(r2) /\ r2.step = "write" /\ r2.what = "unshare" /\ r2.node = n /\ r2.to = v /\ r2.users = {v} /\ r2.uids = ps
  BY <1>3 DEF Asked, Fields
<1> HIDE DEF r2
<1>5. Wanted(db, r2)
  BY <1>4 DEF Wanted, WantsNew, WantsCopy, WantsTree, WantsMove, WantsShare, WantsRun
<1>b. Concerned(db, r2)
  BY <1>4, <1>a DEF Concerned
<1>6. ReqOk(db, r2)
  BY <1>b, <1>1, <1>4, <1>5, CheckedOk
<1> QED
  BY <1>0, <1>6, <1>4, ChecksKeep

LEMMA ShareProcessAsks ==
  ASSUME OneAtATime, State(db, req, subs), NEW h \in Threads, NEW u \in Users, NEW p, NEW v \in Users,
         NEW perm \in Given, Ready(h), AskShareProcess(h, u, p, v, perm)
  PROVE  State(db', req', subs') /\ Begun(h)
<1> DEFINE r0 == NewRequest(u, "pshare", p, v)
           r1 == [r0 EXCEPT !.perm = perm]
           r2 == [r1 EXCEPT !.users = {v}]
           r3 == [r2 EXCEPT !.uids = {p}]
<1>0. Begin(h, r3) /\ p \in DOMAIN db.proc /\ perm \in Perms
  BY NodeAccessAssumption DEF AskShareProcess, Live
<1>2. Asked(r0) /\ r0.step = "write" /\ r0.what = "pshare" /\ r0.node = p /\ r0.to = v
  BY DEF NewRequest, Asked, Fields, Kinds
<1> HIDE DEF r0
<1>3. Asked(r1) /\ r1.step = "write" /\ r1.what = "pshare" /\ r1.node = p /\ r1.to = v /\ r1.perm = perm
  BY <1>2 DEF Asked, Fields
<1> HIDE DEF r1
<1>4. /\ Asked(r2) /\ r2.step = "write" /\ r2.what = "pshare" /\ r2.node = p /\ r2.to = v /\ r2.perm = perm
      /\ r2.users = {v}
  BY <1>3 DEF Asked, Fields
<1> HIDE DEF r2
<1>5. /\ Asked(r3) /\ r3.step = "write" /\ r3.what = "pshare" /\ r3.node = p /\ r3.to = v /\ r3.perm = perm
      /\ r3.users = {v} /\ r3.uids = {p}
  BY <1>4 DEF Asked, Fields
<1> HIDE DEF r3
<1>6. WantsShare(db, r3)
  BY <1>0, <1>5 DEF WantsShare
<1>7. WantsNew(db, r3) /\ WantsCopy(db, r3) /\ WantsTree(db, r3) /\ WantsMove(db, r3) /\ WantsRun(db, r3)
  BY <1>5 DEF WantsNew, WantsCopy, WantsTree, WantsMove, WantsRun
<1>b. Concerned(db, r3)
  BY <1>5 DEF Concerned
<1>8. ReqOk(db, r3)
  BY <1>b, <1>0, <1>5, <1>6, <1>7, CheckedOk DEF Wanted
<1> QED
  BY <1>0, <1>8, <1>5, ChecksKeep

LEMMA UnshareProcessAsks ==
  ASSUME OneAtATime, State(db, req, subs), NEW h \in Threads, NEW u \in Users, NEW p \in DOMAIN db.proc,
         NEW v \in Users, Ready(h), AskUnshareProcess(h, u, p, v)
  PROVE  State(db', req', subs') /\ Begun(h)
<1> DEFINE r0 == NewRequest(u, "punshare", p, v)
           r1 == [r0 EXCEPT !.users = {v}]
           r2 == [r1 EXCEPT !.uids = {p}]
<1>0. Begin(h, r2)
  BY DEF AskUnshareProcess
<1>2. Asked(r0) /\ r0.step = "write" /\ r0.what = "punshare" /\ r0.node = p /\ r0.to = v
  BY DEF NewRequest, Asked, Fields, Kinds
<1> HIDE DEF r0
<1>3. Asked(r1) /\ r1.step = "write" /\ r1.what = "punshare" /\ r1.node = p /\ r1.to = v /\ r1.users = {v}
  BY <1>2 DEF Asked, Fields
<1> HIDE DEF r1
<1>4. Asked(r2) /\ r2.step = "write" /\ r2.what = "punshare" /\ r2.node = p /\ r2.to = v /\ r2.users = {v} /\ r2.uids = {p}
  BY <1>3 DEF Asked, Fields
<1> HIDE DEF r2
<1>5. Wanted(db, r2)
  BY <1>4 DEF Wanted, WantsNew, WantsCopy, WantsTree, WantsMove, WantsShare, WantsRun
<1>b. Concerned(db, r2)
  BY <1>4 DEF Concerned
<1>6. ReqOk(db, r2)
  BY <1>b, <1>4, <1>5, CheckedOk
<1> QED
  BY <1>0, <1>6, <1>4, ChecksKeep

LEMMA ExecAsks ==
  ASSUME OneAtATime, State(db, req, subs), NEW h \in Threads, NEW u \in Users, NEW n, NEW p \in Procs,
         Ready(h), AskExec(h, u, n, p)
  PROVE  State(db', req', subs') /\ Begun(h)
<1> DEFINE r0 == NewRequest(u, "exec", n, p)
           r1 == [r0 EXCEPT !.owner = db.node[n].owner]
<1>0. Begin(h, r1) /\ n \in NodeIds(db) /\ p \notin DOMAIN db.proc
  BY MayMeans DEF AskExec
<1>2. Asked(r0) /\ r0.step = "write" /\ r0.what = "exec" /\ r0.node = n /\ r0.to = p /\ r0.users = {} /\ r0.uids = {}
  BY DEF NewRequest, Asked, Fields, Kinds
<1> HIDE DEF r0
<1>3. /\ Asked(r1) /\ r1.step = "write" /\ r1.what = "exec" /\ r1.node = n /\ r1.to = p /\ r1.users = {}
      /\ r1.uids = {} /\ r1.owner = db.node[n].owner
  BY <1>2 DEF Asked, Fields
<1> HIDE DEF r1
<1>6. WantsRun(db, r1)
  BY <1>0, <1>3 DEF WantsRun
<1>7. WantsNew(db, r1) /\ WantsCopy(db, r1) /\ WantsTree(db, r1) /\ WantsMove(db, r1) /\ WantsShare(db, r1)
  BY <1>3 DEF WantsNew, WantsCopy, WantsTree, WantsMove, WantsShare
<1>b. Concerned(db, r1)
  BY <1>3 DEF Concerned
<1>8. ReqOk(db, r1)
  BY <1>b, <1>3, <1>6, <1>7, CheckedOk DEF Wanted
<1> QED
  BY <1>0, <1>8, <1>3, ChecksKeep

LEMMA AskKeeps ==
  ASSUME OneAtATime, State(db, req, subs), NEW h \in Threads, NEW u \in Users, Ask(h, u)
  PROVE  State(db', req', subs') /\ Begun(h)
<1>0. Ready(h)
  BY DEF Ask
<1>1. ASSUME NEW n \in NodeIds(db), AskDelete(h, u, n) PROVE State(db', req', subs') /\ Begun(h)
  BY <1>0, <1>1, DeleteAsks
<1>2. ASSUME NEW n \in NodeIds(db), NEW f \in NodeIds(db) \union {Null}, AskMove(h, u, n, f) \/ AskCopy(h, u, n, f)
      PROVE  State(db', req', subs') /\ Begun(h)
  BY <1>0, <1>2, MoveAsks, CopyAsks
<1>3. ASSUME NEW n \in NodeIds(db), NEW v \in Users, AskUnshare(h, u, n, v) PROVE State(db', req', subs') /\ Begun(h)
  BY <1>0, <1>3, UnshareAsks
<1>4. ASSUME NEW n \in NodeIds(db), NEW v \in Users, NEW perm \in Given, AskShare(h, u, n, v, perm)
      PROVE  State(db', req', subs') /\ Begun(h)
  BY <1>0, <1>4, ShareAsks
<1>5. ASSUME NEW n \in NodeIds(db), NEW p \in Procs, AskExec(h, u, n, p) PROVE State(db', req', subs') /\ Begun(h)
  BY <1>0, <1>5, ExecAsks
<1>6. ASSUME NEW f \in NodeIds(db) \union {Null}, NEW what \in {"folder", "script"}, AskCreate(h, u, f, what)
      PROVE  State(db', req', subs') /\ Begun(h)
  BY <1>0, <1>6, CreateAsks
<1>7. ASSUME NEW p \in DOMAIN db.proc, NEW v \in Users, AskUnshareProcess(h, u, p, v)
      PROVE  State(db', req', subs') /\ Begun(h)
  BY <1>0, <1>7, UnshareProcessAsks
<1>8. ASSUME NEW p \in DOMAIN db.proc, NEW v \in Users, NEW perm \in Given, AskShareProcess(h, u, p, v, perm)
      PROVE  State(db', req', subs') /\ Begun(h)
  BY <1>0, <1>8, ShareProcessAsks
<1> QED
  BY <1>1, <1>2, <1>3, <1>4, <1>5, <1>6, <1>7, <1>8 DEF Ask

-----------------------------------------------------------------------------
(* The steps of a request.                                                 *)

\* A step of one request.
LEMMA OneRequestKeeps ==
  ASSUME State(db, req, subs), NEW h \in Threads, NEW r, NEW d, NEW q, NEW s,
         q = [req EXCEPT ![h] = r], Sound(d), s \subseteq Users \X DOMAIN d.proc, ReqOk(d, r),
         r.step # "write", \A g \in Threads : g # h => ReqOk(d, req[g])
  PROVE  State(d, q, s)
<1>2. req = [g \in Threads |-> req[g]]
  BY DEF State
<1>3. \A g \in Threads : q[g] = IF g = h THEN r ELSE req[g]
  BY <1>2
<1>4. q = [g \in Threads |-> q[g]]
  BY <1>2
<1>6. \A g \in Threads : ReqOk(d, q[g])
  BY <1>3
<1>7. \A g, k \in Threads : q[g].step = "write" /\ q[k].step = "write" => g = k
  BY <1>3 DEF State
<1> QED
  BY <1>4, <1>6, <1>7 DEF State

\* The write that a request wants keeps the tables sound, and no process row goes.
LEMMA WrittenIsSound ==
  ASSUME Sound(db), NEW r, Asked(r), Wanted(db, r)
  PROVE  /\ Sound(Written(r)) /\ DOMAIN db.proc \subseteq DOMAIN Written(r).proc
         /\ r.what = "exec" => r.to \in DOMAIN Written(r).proc
<1>0. MaxNode \in Nat /\ db.next \in 1 .. MaxNode + 1
  BY NodeTreeAssumption DEF Sound, Typed
<1>1. CASE r.what \in {"folder", "script"}
  <2>1. /\ r.owner \in Users /\ Fits(db, r.to, r.owner) /\ db.next <= MaxNode /\ r.node = db.next
    BY <1>1 DEF Wanted, WantsNew
  <2> DEFINE b == r.what = "folder"
  <2>2. b \in BOOLEAN /\ r.node \in 1 .. MaxNode
    BY <2>1, <1>0
  <2>3. Written(r) = CreateNode(db, r.owner, r.to, b, r.node)
    BY <1>1 DEF Written
  <2> HIDE DEF b
  <2>4. Sound(Written(r)) /\ Written(r).proc = db.proc
    BY <2>1, <2>2, <2>3, CreateIsSound
  <2> QED  BY <2>4, <1>1
<1>2. CASE r.what = "copy"
  <2>1. Written(r) = InsertCopy(r)
    BY <1>2 DEF Written
  <2> QED  BY <2>1, <1>2, CopyIsSound DEF Wanted, WantsCopy
<1>3. CASE r.what = "move"
  <2>1. Written(r) = PatchParent(db, r.node, r.to)
    BY <1>3 DEF Written
  <2>2. r.node \in NodeIds(db) /\ Fits(db, r.to, db.node[r.node].owner) /\ r.node \notin UpIds(db, r.to)
    BY <1>3 DEF Wanted, WantsTree, WantsMove
  <2>3. Sound(Written(r)) /\ Written(r).proc = db.proc
    BY <2>1, <2>2, PatchIsSound
  <2> QED  BY <2>3, <1>3
<1>4. CASE r.what = "delete"
  <2>1. Written(r) = DeleteNode(db, r.node)
    BY <1>4 DEF Written
  <2> QED  BY <2>1, <1>4, DeleteIsSound DEF Wanted, WantsTree
<1>5. CASE r.what = "share"
  <2>1. Written(r) = UpsertNodeShare(db, r.node, r.to, r.perm)
    BY <1>5 DEF Written
  <2> QED  BY <2>1, <1>5, ShareIsSound DEF Wanted, WantsShare
<1>6. CASE r.what = "unshare"
  <2>1. Written(r) = DeleteNodeShare(db, r.node, r.to)
    BY <1>6 DEF Written
  <2> QED  BY <2>1, <1>6, UnshareIsSound
<1>7. CASE r.what = "pshare"
  <2>1. Written(r) = UpsertProcessShare(db, r.node, r.to, r.perm)
    BY <1>7 DEF Written
  <2> QED  BY <2>1, <1>7, ProcessShareIsSound DEF Wanted, WantsShare
<1>8. CASE r.what = "punshare"
  <2>1. Written(r) = DeleteProcessShare(db, r.node, r.to)
    BY <1>8 DEF Written
  <2> QED  BY <2>1, <1>8, ProcessUnshareIsSound
<1>9. CASE r.what = "exec"
  <2>1. Written(r) = CreateProcess(db, r.to, r.node, r.owner)
    BY <1>9 DEF Written
  <2>2. r.node \in NodeIds(db) /\ r.owner = db.node[r.node].owner /\ r.to \in Procs \ DOMAIN db.proc
    BY <1>9 DEF Wanted, WantsRun
  <2> QED  BY <2>1, <2>2, ExecIsSound
<1> QED
  BY <1>1, <1>2, <1>3, <1>4, <1>5, <1>6, <1>7, <1>8, <1>9 DEF Asked, Kinds

LEMMA StepSet ==
  ASSUME NEW r, Asked(r), NEW v
  PROVE  LET s == [r EXCEPT !.step = v]
         IN /\ s.step = v /\ Asked(s) /\ s.users = r.users /\ s.uids = r.uids /\ s.to = r.to
            /\ s.what = r.what /\ s.user = r.user /\ s.node = r.node /\ s.copies = r.copies
            /\ s.judge = r.judge /\ s.told = r.told /\ s.id = r.id
BY DEF Asked, Fields

\* The write finds what the check found: nobody has written in between.
LEMMA CommitKeeps ==
  ASSUME State(db, req, subs), NEW h \in Threads, Commit(h)
  PROVE  State(db', req', subs')
<1> DEFINE r == req[h]
           e == Written(r)
           v == Hooks(r.what)
           s == [r EXCEPT !.step = v]
<1>1. r.step = "write" /\ db' = e /\ subs' = subs
  BY DEF Commit
<1>2. req = [g \in Threads |-> req[g]]
  BY DEF State
<1>3. req' = [req EXCEPT ![h] = s]
  BY <1>2 DEF Commit
<1>a. r.what \in {"folder", "script", "copy"} => r.users = {}
  BY <1>1 DEF State, ReqOk, Concerned
<1>4. Sound(db) /\ Asked(r) /\ Wanted(db, r) /\ r.users \subseteq Users /\ r.uids \subseteq DOMAIN db.proc
  BY <1>1 DEF State, ReqOk
<1>5. /\ Sound(e) /\ DOMAIN db.proc \subseteq DOMAIN e.proc
      /\ r.what = "exec" => r.to \in DOMAIN e.proc
  BY <1>4, WrittenIsSound
<1>6. /\ v \in {"told", "access", "viewers"} /\ (v = "viewers" => r.what = "exec")
      /\ v = "told" => r.what \in {"folder", "script", "copy", "move", "delete"}
  BY <1>4 DEF Hooks, Asked, Kinds
<1> HIDE DEF e, v
<1>7. s.step = v /\ Asked(s) /\ s.users = r.users /\ s.uids = r.uids /\ s.to = r.to /\ s.what = r.what
  BY <1>4, StepSet
<1> HIDE DEF s
<1>8. ReqOk(e, s) /\ s.step # "write"
  BY <1>a, <1>4, <1>5, <1>6, <1>7 DEF ReqOk, Steps
<1>9. \A g \in Threads : g # h => ReqOk(e, req[g])
  <2> SUFFICES ASSUME NEW g \in Threads, g # h PROVE ReqOk(e, req[g])
    OBVIOUS
  <2>1. req[g].step # "write" /\ ReqOk(db, req[g])
    BY <1>1 DEF State
  <2> QED  BY <2>1, <1>5, ReqOkKept
<1>10. subs \subseteq Users \X DOMAIN e.proc
  BY <1>5 DEF State
<1>11. State(e, req', subs)
  BY <1>3, <1>5, <1>8, <1>9, <1>10, OneRequestKeeps
<1> QED
  BY <1>11, <1>1

LEMMA IdleOk == ASSUME NEW d PROVE ReqOk(d, Idle) /\ Idle.step = "idle"
BY DEF ReqOk, Idle, Steps

\* The steps of a request that leave the tables alone.
LEMMA HooksKeep ==
  ASSUME State(db, req, subs), NEW h \in Threads,
         RollBack(h) \/ Tell(h) \/ Access(h) \/ ReadViewers(h) \/ Join(h) \/ CleanupProcessTopic(h)
  PROVE  State(db', req', subs')
<1>0. /\ Sound(db) /\ \A g \in Threads : ReqOk(db, req[g])
      /\ subs \subseteq Users \X DOMAIN db.proc /\ req = [g \in Threads |-> req[g]]
  BY DEF State
<1>1. CASE RollBack(h)
  <2>1. req' = [req EXCEPT ![h] = Idle] /\ db' = db /\ subs' = subs
    BY <1>1 DEF RollBack
  <2> QED  BY <2>1, <1>0, IdleOk, OneRequestKeeps
<1>2. CASE Tell(h)
  <2> DEFINE r == req[h]
             s == IF r.what \in {"move", "delete"} THEN [r EXCEPT !.step = "access"] ELSE Idle
  <2>1. req' = [req EXCEPT ![h] = s] /\ db' = db /\ subs' = subs /\ r.step = "told"
    BY <1>2 DEF Tell
  <2>2. ReqOk(db, s) /\ s.step # "write"
    <3>1. Asked(r) /\ r.users \subseteq Users /\ r.uids \subseteq DOMAIN db.proc
      BY <2>1, <1>0 DEF ReqOk
    <3> DEFINE x == [r EXCEPT !.step = "access"]
    <3>2. x.step = "access" /\ Asked(x) /\ x.users = r.users /\ x.uids = r.uids
      BY <3>1, StepSet
    <3> HIDE DEF x
    <3>3. ReqOk(db, x) /\ x.step # "write"
      BY <3>1, <3>2 DEF ReqOk, Steps
    <3> QED  BY <3>3, IdleOk DEF x
  <2> HIDE DEF s
  <2> QED  BY <2>1, <2>2, <1>0, OneRequestKeeps
<1>3. CASE Access(h)
  <2> DEFINE r == req[h]
             seen == {s \in r.users \X r.uids : ProcessPermission(db, s[1], s[2]) > Block}
  <2>1. /\ req' = [req EXCEPT ![h] = Idle] /\ db' = db /\ r.step = "access"
        /\ subs' = (subs \ (r.users \X r.uids)) \union seen
    BY <1>3 DEF Access
  <2>2. r.users \subseteq Users /\ r.uids \subseteq DOMAIN db.proc
    BY <2>1, <1>0 DEF ReqOk
  <2>3. seen \subseteq Users \X DOMAIN db.proc
    BY <2>2
  <2> HIDE DEF seen
  <2>4. subs' \subseteq Users \X DOMAIN db.proc
    BY <2>1, <2>3, <1>0
  <2> QED  BY <2>1, <2>4, <1>0, IdleOk, OneRequestKeeps
<1>4. CASE ReadViewers(h)
  <2> DEFINE p == req[h].to
             s == [step |-> "join", proc |-> p, users |-> ListProcessViewers(db, p)]
  <2>1. req' = [req EXCEPT ![h] = s] /\ db' = db /\ subs' = subs /\ req[h].step = "viewers"
    BY <1>4, <1>0 DEF ReadViewers
  <2>2. p \in DOMAIN db.proc
    BY <2>1, <1>0 DEF ReqOk
  <2>3. ListProcessViewers(db, p) \subseteq Users
    BY <2>2, <1>0, ViewersRight
  <2>4. s.step = "join" /\ s.proc = p /\ s.users \subseteq Users
    BY <2>3
  <2> HIDE DEF s
  <2>5. ReqOk(db, s) /\ s.step # "write"
    BY <2>2, <2>4 DEF ReqOk, Steps
  <2> QED  BY <2>1, <2>5, <1>0, OneRequestKeeps
<1>5. CASE Join(h)
  <2>1. /\ req' = [req EXCEPT ![h] = Idle] /\ db' = db /\ req[h].step = "join"
        /\ subs' = subs \union (req[h].users \X {req[h].proc})
    BY <1>5 DEF Join
  <2>2. req[h].users \subseteq Users /\ req[h].proc \in DOMAIN db.proc
    BY <2>1, <1>0 DEF ReqOk
  <2>4. subs' \subseteq Users \X DOMAIN db.proc
    BY <2>1, <2>2, <1>0
  <2> QED  BY <2>1, <2>4, <1>0, IdleOk, OneRequestKeeps
<1>6. CASE CleanupProcessTopic(h)
  <2>1. /\ req' = [req EXCEPT ![h] = Idle] /\ db' = db
        /\ subs' = subs \ (Users \X {req[h].to})
    BY <1>6 DEF CleanupProcessTopic
  <2>4. subs' \subseteq Users \X DOMAIN db.proc
    BY <2>1, <1>0
  <2> QED  BY <2>1, <2>4, <1>0, IdleOk, OneRequestKeeps
<1> QED
  BY <1>1, <1>2, <1>3, <1>4, <1>5, <1>6

\* What a worker tells of a process.
LEMMA WorkerKeeps ==
  ASSUME State(db, req, subs), NEW h \in Threads, NEW p, Rebind(h, p) \/ End(h, p)
  PROVE  State(db', req', subs')
<1>0. /\ Sound(db) /\ \A g \in Threads : ReqOk(db, req[g])
      /\ subs \subseteq Users \X DOMAIN db.proc /\ req = [g \in Threads |-> req[g]]
  BY DEF State
<1>1. CASE Rebind(h, p)
  <2> DEFINE s == [step |-> "viewers", to |-> p]
  <2>1. req' = [req EXCEPT ![h] = s] /\ db' = db /\ subs' = subs /\ p \in DOMAIN db.proc
    BY <1>1 DEF Rebind, Live
  <2>2. s.step = "viewers" /\ s.to = p
    OBVIOUS
  <2> HIDE DEF s
  <2>3. ReqOk(db, s) /\ s.step # "write"
    BY <2>1, <2>2 DEF ReqOk, Steps
  <2> QED  BY <2>1, <2>3, <1>0, OneRequestKeeps
<1>2. CASE End(h, p)
  <2> DEFINE s == [step |-> "clean", to |-> p]
             e == MarkProcessDone(db, p)
  <2>1. req' = [req EXCEPT ![h] = s] /\ db' = e /\ subs' = subs /\ p \in DOMAIN db.proc
    BY <1>2 DEF End, Live
  <2>2. s.step = "clean"
    OBVIOUS
  <2>3. /\ Sound(e) /\ e.node = db.node /\ e.share = db.share /\ e.next = db.next /\ DOMAIN e.proc = DOMAIN db.proc
        /\ Live(e) \subseteq Live(db) /\ \A x \in DOMAIN e.proc : e.proc[x].node = db.proc[x].node
    BY <2>1, <1>0, DoneIsSound
  <2> HIDE DEF s, e
  <2>4. ReqOk(e, s) /\ s.step # "write"
    BY <2>2 DEF ReqOk, Steps
  <2>5. \A g \in Threads : g # h => ReqOk(e, req[g])
    <3> SUFFICES ASSUME NEW g \in Threads PROVE ReqOk(e, req[g])
      OBVIOUS
    <3>1. req[g].step = "write" => Wanted(e, req[g])
      BY <1>0, <2>3, WantedKept DEF ReqOk
    <3>2. req[g].step = "write" => Concerned(e, req[g])
      BY <1>0, <2>3, ConcernedKept DEF ReqOk
    <3> QED  BY <3>1, <3>2, <1>0, <2>3, ReqOkKept
  <2>6. State(e, req', subs)
    BY <2>1, <2>3, <2>4, <2>5, <1>0, OneRequestKeeps
  <2> QED  BY <2>1, <2>6
<1> QED
  BY <1>1, <1>2

LEMMA InitKeeps == Init => State(db, req, subs)
<1> SUFFICES ASSUME Init PROVE State(db, req, subs)
  OBVIOUS
<1>0. Folders \in Nat /\ Folders + 1 <= MaxNode /\ Given \subseteq Perms /\ MaxNode \in Nat
  BY NodeAccessAssumption, NodeTreeAssumption
<1>1. PICK o \in Users, at \in SUBSET ((1..Folders) \X Users) :
        \E share \in [at -> Given], procs \in SUBSET Procs :
            db = [node |-> [n \in 1..Folders + 1 |->
                              [owner |-> o, parent |-> n - 1, folder |-> n <= Folders, of |-> n]],
                  share |-> share, pshare |-> <<>>, next |-> Folders + 2,
                  proc |-> [p \in procs |-> [owner |-> o, node |-> Folders + 1, live |-> TRUE]]]
  BY DEF Init
<1>2. PICK share \in [at -> Given], procs \in SUBSET Procs :
            db = [node |-> [n \in 1..Folders + 1 |->
                              [owner |-> o, parent |-> n - 1, folder |-> n <= Folders, of |-> n]],
                  share |-> share, pshare |-> <<>>, next |-> Folders + 2,
                  proc |-> [p \in procs |-> [owner |-> o, node |-> Folders + 1, live |-> TRUE]]]
  BY <1>1
<1> DEFINE node == [n \in 1..Folders + 1 |->
                       [owner |-> o, parent |-> n - 1, folder |-> n <= Folders, of |-> n]]
           proc == [p \in procs |-> [owner |-> o, node |-> Folders + 1, live |-> TRUE]]
<1>3. /\ db.node = node /\ db.share = share /\ db.pshare = <<>> /\ db.next = Folders + 2 /\ db.proc = proc
      /\ db = [node |-> db.node, share |-> db.share, pshare |-> db.pshare, next |-> db.next, proc |-> db.proc]
  BY <1>2
<1>4. /\ NodeIds(db) = 1 .. Folders + 1
      /\ \A n \in NodeIds(db) : /\ db.node[n].owner = o /\ db.node[n].folder = (n <= Folders)
                                /\ Parent(db, n) = n - 1
  BY <1>3 DEF NodeIds, Parent, Exists
<1>5. Typed(db)
  <2>1. db.node \in [NodeIds(db) -> Rows]
    <3>1. \A n \in 1 .. Folders + 1 : n - 1 \in 0 .. MaxNode /\ n \in 1 .. MaxNode /\ (n <= Folders) \in BOOLEAN
      BY <1>0
    <3>2. \A n \in 1 .. Folders + 1 :
            [owner |-> o, parent |-> n - 1, folder |-> n <= Folders, of |-> n] \in Rows
      BY <3>1 DEF Rows
    <3> QED  BY <3>2, <1>3, <1>4
  <2>2. db.share \in [DOMAIN db.share -> Perms] /\ DOMAIN db.share \subseteq NodeIds(db) \X Users
    <3>1. 1 .. Folders \subseteq NodeIds(db)
      BY <1>4, <1>0
    <3>2. share \in [at -> Perms] /\ at \subseteq (1 .. Folders) \X Users
      BY <1>0
    <3> QED  BY <3>1, <3>2, <1>3
  <2>3. db.pshare \in [DOMAIN db.pshare -> Perms] /\ DOMAIN db.pshare = {}
    BY <1>3
  <2>4. db.proc \in [DOMAIN db.proc -> Runs] /\ DOMAIN db.proc \subseteq Procs
    <3>1. [owner |-> o, node |-> Folders + 1, live |-> TRUE] \in Runs
      BY <1>0 DEF Runs
    <3> QED  BY <3>1, <1>3
  <2>5. \A p \in DOMAIN db.proc : db.proc[p].node < db.next
    BY <1>0, <1>3
  <2>6. db.next \in 1 .. MaxNode + 1 /\ NodeIds(db) \subseteq 1 .. db.next - 1
    BY <1>0, <1>3, <1>4
  <2> QED  BY <2>1, <2>2, <2>3, <2>4, <2>5, <2>6, <1>3 DEF Typed
<1>6. \A n \in NodeIds(db) : Fits(db, Parent(db, n), db.node[n].owner)
  <2> SUFFICES ASSUME NEW n \in NodeIds(db) PROVE Fits(db, Parent(db, n), db.node[n].owner)
    OBVIOUS
  <2>1. n = 1 \/ (n - 1 \in NodeIds(db) /\ n - 1 <= Folders)
    BY <1>4, <1>0
  <2>2. CASE n = 1
    BY <2>2, <1>4 DEF Fits, Null
  <2>3. CASE n - 1 \in NodeIds(db) /\ n - 1 <= Folders
    <3>1. db.node[n - 1].folder /\ db.node[n - 1].owner = o
      BY <2>3, <1>4
    <3>2. Parent(db, n) = n - 1 /\ db.node[n].owner = o
      BY <1>4
    <3> QED  BY <3>1, <3>2, <2>3 DEF Fits, Exists
  <2> QED  BY <2>1, <2>2, <2>3
<1>7. \A s \in DOMAIN db.share : db.node[s[1]].folder
  <2>1. \A s \in DOMAIN db.share : s[1] \in 1 .. Folders
    BY <1>3
  <2>2. \A n \in 1 .. Folders : n \in NodeIds(db) /\ n <= Folders
    BY <1>4, <1>0
  <2> QED  BY <2>1, <2>2, <1>4
<1>8. \A p \in DOMAIN db.proc :
        Exists(db, db.proc[p].node) => db.node[db.proc[p].node].owner = db.proc[p].owner
  BY <1>3, <1>4 DEF Exists
<1>9. Rooted(db)
  <2> SUFFICES ASSUME NEW S \in SUBSET NodeIds(db), S # {} PROVE \E n \in S : Parent(db, n) \notin S
    BY DEF Rooted
  <2>1. S \subseteq Nat
    BY <1>4, <1>0
  <2>2. PICK n \in S : \A m \in 0 .. n - 1 : m \notin S
    BY <2>1, LeastDepth
  <2>3. n - 1 \in 0 .. n - 1 /\ Parent(db, n) = n - 1
    BY <1>4, <1>0
  <2> QED  BY <2>2, <2>3
<1>10. Sound(db)
  BY <1>5, <1>6, <1>7, <1>8, <1>9 DEF Sound
<1>11. req = [h \in Threads |-> Idle] /\ subs \subseteq Users \X DOMAIN db.proc
  BY DEF Init, Live
<1>12. \A h \in Threads : ReqOk(db, req[h]) /\ req[h].step # "write"
  BY <1>11, IdleOk
<1> QED
  BY <1>10, <1>11, <1>12 DEF State

LEMMA NextKeeps == OneAtATime /\ State(db, req, subs) /\ [Next]_vars => State(db', req', subs')
<1> SUFFICES ASSUME OneAtATime, State(db, req, subs), [Next]_vars PROVE State(db', req', subs')
  OBVIOUS
<1>1. CASE UNCHANGED vars
  BY <1>1 DEF vars
<1>2. CASE Next
  BY <1>2, AskKeeps, CommitKeeps, HooksKeep, WorkerKeeps DEF Next
<1> QED
  BY <1>1, <1>2

\* The inductive invariant: the tables are sound, each request holds what its kind needs, and
\* at most one has checked and not written.
Inv == State(db, req, subs)

\* The tables are sound in every state of every behaviour.
LEMMA InvHolds == OneAtATime => (Spec => []Inv)
<1>1. Init => Inv
  BY InitKeeps DEF Inv
<1>2. OneAtATime /\ Inv /\ [Next]_vars => Inv'
  BY NextKeeps DEF Inv
<1> SUFFICES ASSUME OneAtATime PROVE Spec => []Inv
  OBVIOUS
<1>3. Inv /\ [Next]_vars => Inv'
  BY <1>2
<1> QED
  BY <1>1, <1>3, PTL DEF Spec

\* Rows reference rows that exist, and a subscription names a process: no delete, copy or
\* unshare leaves a parent, a share or a topic without its row.
THEOREM AccessTyped == OneAtATime => (Spec => []TypeOK)
<1>1. Inv => TypeOK
  <2> SUFFICES ASSUME Sound(db), subs \subseteq Users \X DOMAIN db.proc PROVE TypeOK
    BY DEF Inv, State
  <2>1. \A n \in NodeIds(db) : db.node[n].parent \in NodeIds(db) \union {Null}
    BY DEF Sound, Fits, Parent, Exists
  <2> QED  BY <2>1 DEF Sound, Typed, TypeOK
<1> QED
  BY <1>1, InvHolds, PTL

\* The catalog stays a forest of folders with one owner per tree, whatever requests create,
\* copy, move and delete: checkMove and insertCopy never make a node its own ancestor.
THEOREM TreeStaysSound == OneAtATime => (Spec => []TreeIsSound)
<1>1. Inv => TreeIsSound
  BY SoundMeansTrees DEF Inv, State
<1> QED
  BY <1>1, InvHolds, PTL

\* The recursive statements (viewers, shares, runs and accounts around a node, children of a
\* folder) say of every account what the permission of each node and process says by itself.
THEOREM QueriesAlwaysAgree == OneAtATime => (Spec => []QueriesAgree)
<1>1. Inv => QueriesAgree
  BY SoundMeansAgreement DEF Inv, State
<1> QED
  BY <1>1, InvHolds, PTL

LEMMA StepKeepsRights ==
  ASSUME Inv, [Next]_vars, NEW h \in Threads, req[h].step = "write", req'[h].step \in {"told", "access"}
  PROVE  LET r == req[h]
         IN /\ r.what \in {"delete", "move"} =>
                 \A m \in Down(db, r.node) : NodePermission(db, r.user, m) >= Edit
            /\ r.what = "copy" =>
                 \A m \in DOMAIN r.copies : NodePermission(db, r.user, m) > Block
            /\ r.what \in {"folder", "script", "copy", "move"} /\ r.to # Null =>
                 NodePermission(db, r.user, r.to) >= Edit
<1>1. Wanted(db, req[h])
  BY DEF Inv, State, ReqOk
<1> QED
  BY <1>1 DEF Wanted, WantsNew, WantsCopy, WantsTree, WantsMove, MayReach

\* requireNoLowerShare and collectCopy: who does not own a node deletes or moves it only if
\* all below may be edited, copies only what may be viewed, and writes only where it may edit.
THEOREM RightsAreKept == OneAtATime => (Spec => RightsKept)
<1>1. Inv /\ [Next]_vars =>
       [\A h \in Threads :
          req[h].step = "write" /\ req'[h].step \in {"told", "access"} =>
            LET r == req[h]
            IN /\ r.what \in {"delete", "move"} =>
                    \A m \in Down(db, r.node) : NodePermission(db, r.user, m) >= Edit
               /\ r.what = "copy" =>
                    \A m \in DOMAIN r.copies : NodePermission(db, r.user, m) > Block
               /\ r.what \in {"folder", "script", "copy", "move"} /\ r.to # Null =>
                    NodePermission(db, r.user, r.to) >= Edit]_vars
  BY StepKeepsRights
<1> QED
  BY <1>1, InvHolds, PTL DEF RightsKept, Spec

-----------------------------------------------------------------------------
(* Whose view of which process a write changes.                            *)

Sees(d, u, p) == ProcessPermission(d, u, p) > Block

\* A permission is the same where nothing on the way up has changed.
LEMMA PermissionKept ==
  ASSUME NEW d, Sound(d), NEW e, Sound(e), NEW u, NEW S, S \subseteq NodeIds(d), S \subseteq NodeIds(e),
         \A m \in S : /\ e.node[m].owner = d.node[m].owner /\ Parent(e, m) = Parent(d, m)
                      /\ Parent(d, m) = Null \/ Parent(d, m) \in S
                      /\ <<m, u>> \in DOMAIN e.share <=> <<m, u>> \in DOMAIN d.share
                      /\ <<m, u>> \in DOMAIN e.share => e.share[<<m, u>>] = d.share[<<m, u>>]
  PROVE  \A m \in S : NodePermission(e, u, m) = NodePermission(d, u, m)
<1> DEFINE T == {m \in NodeIds(d) : m \in S => NodePermission(e, u, m) = NodePermission(d, u, m)}
<1>0. Forest(d) /\ Forest(e)
  BY SoundForest
<1>1. ASSUME NEW m \in NodeIds(d), Parent(d, m) = Null \/ Parent(d, m) \in T PROVE m \in T
  <2> SUFFICES ASSUME m \in S PROVE NodePermission(e, u, m) = NodePermission(d, u, m)
    OBVIOUS
  <2>1. NodePermission(e, u, Parent(e, m)) = NodePermission(d, u, Parent(d, m))
    <3>1. CASE Parent(d, m) = Null
      <4>1. Null \notin NodeIds(d) /\ Null \notin NodeIds(e)
        BY <1>0, NullIsNoNode
      <4>2. NodePermission(e, u, Null) = Block /\ NodePermission(d, u, Null) = Block
        BY <4>1, PermissionTyped
      <4> QED  BY <4>2, <3>1
    <3>2. CASE Parent(d, m) # Null
      <4>1. Parent(d, m) \in S /\ Parent(d, m) \in T
        BY <3>2, <1>1
      <4>2. Parent(e, m) = Parent(d, m)
        OBVIOUS
      <4> QED  BY <4>1, <4>2
    <3> QED  BY <3>1, <3>2
  <2>2. NodePermission(d, u, m) = IF d.node[m].owner = u THEN Owner
           ELSE IF <<m, u>> \in DOMAIN d.share THEN d.share[<<m, u>>]
           ELSE NodePermission(d, u, Parent(d, m))
    BY PermissionStep
  <2>3. m \in NodeIds(e)
    OBVIOUS
  <2>4. NodePermission(e, u, m) = IF e.node[m].owner = u THEN Owner
           ELSE IF <<m, u>> \in DOMAIN e.share THEN e.share[<<m, u>>]
           ELSE NodePermission(e, u, Parent(e, m))
    BY <2>3, PermissionStep
  <2> QED  BY <2>1, <2>2, <2>4
<1> HIDE DEF T
<1>2. NodeIds(d) \subseteq T
  BY <1>0, <1>1, TreeInduction
<1> QED
  BY <1>2 DEF T

\* The same when nothing at all has changed of the nodes there were.
LEMMA AllPermissionsKept ==
  ASSUME NEW d, Sound(d), NEW e, Sound(e), NodeIds(d) \subseteq NodeIds(e),
         \A m \in NodeIds(d) : e.node[m] = d.node[m], e.share = d.share
  PROVE  \A u : \A m \in NodeIds(d) : NodePermission(e, u, m) = NodePermission(d, u, m)
<1>1. \A m \in NodeIds(d) : /\ e.node[m].owner = d.node[m].owner /\ Parent(e, m) = Parent(d, m)
                            /\ Parent(d, m) = Null \/ Parent(d, m) \in NodeIds(d)
  BY DEF Parent, Exists, Sound, Fits
<1> QED
  BY <1>1, PermissionKept

LEMMA SeesFrom ==
  ASSUME NEW d, NEW e, NEW u, NEW p, e.proc[p].owner = d.proc[p].owner, e.proc[p].node = d.proc[p].node,
         <<p, u>> \in DOMAIN e.pshare <=> <<p, u>> \in DOMAIN d.pshare,
         <<p, u>> \in DOMAIN e.pshare => e.pshare[<<p, u>>] = d.pshare[<<p, u>>],
         NodePermission(e, u, d.proc[p].node) = NodePermission(d, u, d.proc[p].node)
  PROVE  Sees(e, u, p) <=> Sees(d, u, p)
BY DEF Sees, ProcessPermission

LEMMA OutsideStays ==
  ASSUME NEW d, Forest(d), NEW n \in NodeIds(d), NEW m \in NodeIds(d), m \notin Down(d, n)
  PROVE  Parent(d, m) = Null \/ Parent(d, m) \in NodeIds(d) \ Down(d, n)
<1> SUFFICES ASSUME Parent(d, m) # Null PROVE Parent(d, m) \in NodeIds(d) \ Down(d, n)
  OBVIOUS
<1>1. Parent(d, m) \in NodeIds(d) /\ m \in Children(d, Parent(d, m))
  BY NullIsNoNode DEF Children, Parent, Exists
<1> QED
  BY <1>1, DownClosed

LEMMA GrowthKeepsSight ==
  ASSUME NEW d, Sound(d), NEW e, Sound(e), NodeIds(d) \subseteq NodeIds(e),
         \A m \in NodeIds(d) : e.node[m] = d.node[m], \A m \in NodeIds(e) : m \notin NodeIds(d) => m >= d.next,
         e.share = d.share, e.pshare = d.pshare, e.proc = d.proc, NEW u, NEW p \in DOMAIN d.proc
  PROVE  Sees(e, u, p) <=> Sees(d, u, p)
<1> DEFINE m == d.proc[p].node
<1>1. m < d.next /\ m \in Nat /\ d.next \in Nat
  BY NodeTreeAssumption DEF Sound, Typed, Runs
<1>2. CASE m \in NodeIds(d)
  <2>1. NodePermission(e, u, m) = NodePermission(d, u, m)
    BY <1>2, AllPermissionsKept
  <2> QED  BY <2>1, SeesFrom
<1>3. CASE m \notin NodeIds(d)
  <2>1. m \notin NodeIds(e)
    BY <1>1, <1>3
  <2>2. NodePermission(e, u, m) = NodePermission(d, u, m)
    BY <1>3, <2>1, PermissionTyped
  <2> QED  BY <2>2, SeesFrom
<1> QED
  BY <1>2, <1>3

\* A share of a node: only the account named, and only below the node.
LEMMA ShareConcerns ==
  ASSUME NEW d, Sound(d), NEW e, Sound(e), e.node = d.node, e.pshare = d.pshare, e.proc = d.proc,
         NEW n, NEW v, \A s : s # <<n, v>> => (s \in DOMAIN e.share <=> s \in DOMAIN d.share),
         \A s \in DOMAIN d.share : s # <<n, v>> /\ s \in DOMAIN e.share => e.share[s] = d.share[s],
         NEW u, NEW p \in Live(d), (Sees(e, u, p) /\ ~Sees(d, u, p)) \/ (Sees(d, u, p) /\ ~Sees(e, u, p))
  PROVE  u = v /\ p \in ListLiveProcessesUnder(d, n)
<1> DEFINE m == d.proc[p].node
           S == {x \in NodeIds(d) : u = v => x \notin Down(d, n)}
<1>0. NodeIds(e) = NodeIds(d) /\ (\A x : Parent(e, x) = Parent(d, x)) /\ Forest(d)
  BY SoundForest DEF NodeIds, Parent, Exists
<1>1. NodePermission(e, u, m) # NodePermission(d, u, m)
  BY SeesFrom
<1>2. m \in NodeIds(d)
  BY <1>0, <1>1, PermissionTyped
<1>3. n \in NodeIds(d) \/ \A x \in NodeIds(d) : x # n
  OBVIOUS
<1>4. CASE n \in NodeIds(d)
  <2>1. ASSUME NEW x \in S
        PROVE  /\ e.node[x].owner = d.node[x].owner /\ Parent(e, x) = Parent(d, x)
               /\ Parent(d, x) = Null \/ Parent(d, x) \in S
               /\ <<x, u>> \in DOMAIN e.share <=> <<x, u>> \in DOMAIN d.share
               /\ <<x, u>> \in DOMAIN e.share => e.share[<<x, u>>] = d.share[<<x, u>>]
    <3>1. <<x, u>> # <<n, v>>
      BY <1>0, <1>4, DownTyped
    <3>2. Parent(d, x) = Null \/ Parent(d, x) \in S
      BY <1>0, <1>4, OutsideStays, NullIsNoNode
    <3> QED  BY <3>1, <3>2, <1>0
  <2>2. S \subseteq NodeIds(d) /\ S \subseteq NodeIds(e)
    BY <1>0
  <2> HIDE DEF S
  <2>3. \A x \in S : NodePermission(e, u, x) = NodePermission(d, u, x)
    BY <2>1, <2>2, PermissionKept
  <2>4. m \notin S
    BY <2>3, <1>1
  <2>5. u = v /\ m \in Down(d, n)
    BY <2>4, <1>2 DEF S
  <2> QED  BY <2>5 DEF ListLiveProcessesUnder
<1>5. CASE n \notin NodeIds(d)
  <2>1. \A x \in NodeIds(d) :
               /\ e.node[x].owner = d.node[x].owner /\ Parent(e, x) = Parent(d, x)
               /\ Parent(d, x) = Null \/ Parent(d, x) \in NodeIds(d)
               /\ <<x, u>> \in DOMAIN e.share <=> <<x, u>> \in DOMAIN d.share
               /\ <<x, u>> \in DOMAIN e.share => e.share[<<x, u>>] = d.share[<<x, u>>]
    <3> SUFFICES ASSUME NEW x \in NodeIds(d)
          PROVE  /\ e.node[x].owner = d.node[x].owner /\ Parent(e, x) = Parent(d, x)
                 /\ Parent(d, x) = Null \/ Parent(d, x) \in NodeIds(d)
                 /\ <<x, u>> \in DOMAIN e.share <=> <<x, u>> \in DOMAIN d.share
                 /\ <<x, u>> \in DOMAIN e.share => e.share[<<x, u>>] = d.share[<<x, u>>]
      OBVIOUS
    <3>1. <<x, u>> # <<n, v>>
      BY <1>5
    <3>2. Parent(d, x) = Null \/ Parent(d, x) \in NodeIds(d)
      BY <1>0, NullIsNoNode
    <3> QED  BY <3>1, <3>2, <1>0
  <2>2. \A x \in NodeIds(d) : NodePermission(e, u, x) = NodePermission(d, u, x)
    BY <1>0, <2>1, PermissionKept
  <2> QED  BY <2>2, <1>1, <1>2
<1> QED
  BY <1>4, <1>5

LEMMA ProcessShareConcerns ==
  ASSUME NEW d, NEW e, e.node = d.node, e.share = d.share, e.proc = d.proc,
         NEW n, NEW v, \A s : s # <<n, v>> => (s \in DOMAIN e.pshare <=> s \in DOMAIN d.pshare),
         \A s \in DOMAIN d.pshare : s # <<n, v>> /\ s \in DOMAIN e.pshare => e.pshare[s] = d.pshare[s],
         NEW u, NEW p, (Sees(e, u, p) /\ ~Sees(d, u, p)) \/ (Sees(d, u, p) /\ ~Sees(e, u, p))
  PROVE  u = v /\ p = n
<1> SUFFICES ASSUME <<p, u>> # <<n, v>> PROVE FALSE
  OBVIOUS
<1>1. \A x : NodePermission(e, u, x) = NodePermission(d, u, x)
  BY SameTables
<1> QED
  BY <1>1, SeesFrom

\* Who sees a process below a node by a right on its script, without owning it.
LEMMA SightIsAround ==
  ASSUME NEW d, Sound(d), NEW u, NEW p \in DOMAIN d.proc, NEW n \in NodeIds(d), d.proc[p].node \in Down(d, n),
         u # d.proc[p].owner, <<p, u>> \notin DOMAIN d.pshare, Sees(d, u, p)
  PROVE  u \in SharedOn(d, UpIds(d, n) \union Down(d, n))
<1> DEFINE m == d.proc[p].node
<1>1. m \in NodeIds(d) /\ n \in UpIds(d, m)
  BY SoundForest, DownIsBelow
<1>2. d.node[m].owner = d.proc[p].owner
  BY <1>1 DEF Sound, Exists
<1>3. d.node[n].owner # u
  BY <1>1, <1>2, OwnerAlong
<1>4. NodePermission(d, u, m) > Block
  BY DEF Sees, ProcessPermission
<1> QED
  BY <1>3, <1>4, AroundSuffices

\* A delete changes the sight only of accounts with a share around the node.
LEMMA DeleteConcerns ==
  ASSUME NEW d, Sound(d), NEW n \in NodeIds(d), NEW u, NEW p \in Live(d),
         (Sees(DeleteNode(d, n), u, p) /\ ~Sees(d, u, p)) \/ (Sees(d, u, p) /\ ~Sees(DeleteNode(d, n), u, p))
  PROVE  /\ u \in SharedOn(d, UpIds(d, n) \union Down(d, n))
         /\ p \in ListLiveProcessesUnder(d, n)
<1> DEFINE e == DeleteNode(d, n)
           m == d.proc[p].node
           S == NodeIds(d) \ Down(d, n)
<1>0. Forest(d) /\ p \in DOMAIN d.proc
  BY SoundForest DEF Live
<1>1. /\ Sound(e) /\ NodeIds(e) = S
      /\ \A x \in NodeIds(e) : e.node[x] = d.node[x]
      /\ \A x \in NodeIds(e) : \A v : <<x, v>> \in DOMAIN e.share <=> <<x, v>> \in DOMAIN d.share
      /\ \A s \in DOMAIN e.share : e.share[s] = d.share[s]
      /\ e.pshare = d.pshare /\ e.proc = d.proc
  BY DeleteIsSound
<1>2. (Sees(e, u, p) /\ ~Sees(d, u, p)) \/ (Sees(d, u, p) /\ ~Sees(e, u, p))
  OBVIOUS
<1> HIDE DEF e
<1>3. NodePermission(e, u, m) # NodePermission(d, u, m)
  BY <1>1, <1>2, SeesFrom
<1>4. \A x \in S : Parent(e, x) = Parent(d, x) /\ (Parent(d, x) = Null \/ Parent(d, x) \in S)
  BY <1>0, <1>1, OutsideStays DEF Parent, Exists
<1>5. \A x \in S : NodePermission(e, u, x) = NodePermission(d, u, x)
  BY <1>1, <1>4, PermissionKept
<1>6. m \in Down(d, n)
  <2>1. m \in NodeIds(d)
    <3> SUFFICES ASSUME m \notin NodeIds(d) PROVE FALSE
      OBVIOUS
    <3>1. m \notin NodeIds(e)
      BY <1>1
    <3> QED  BY <3>1, <1>1, <1>3, PermissionTyped
  <2> QED  BY <2>1, <1>3, <1>5
<1>7. m \notin NodeIds(e)
  BY <1>1, <1>6
<1>8. NodePermission(e, u, m) = Block
  BY <1>1, <1>7, PermissionTyped
<1>9. u # d.proc[p].owner /\ <<p, u>> \notin DOMAIN d.pshare
  BY <1>1, <1>2 DEF Sees, ProcessPermission
<1>10. Sees(d, u, p)
  BY <1>1, <1>2, <1>8, <1>9 DEF Sees, ProcessPermission, Block
<1> QED
  BY <1>0, <1>6, <1>9, <1>10, SightIsAround DEF ListLiveProcessesUnder

\* A move changes the sight only of accounts with a share around the node, before or after.
LEMMA MoveConcerns ==
  ASSUME NEW d, Sound(d), NEW n \in NodeIds(d), NEW f, Fits(d, f, d.node[n].owner), n \notin UpIds(d, f),
         NEW e, e = PatchParent(d, n, f), NEW u, NEW p \in Live(d),
         (Sees(e, u, p) /\ ~Sees(d, u, p)) \/ (Sees(d, u, p) /\ ~Sees(e, u, p))
  PROVE  /\ \/ u \in SharedOn(d, UpIds(d, n) \union Down(d, n))
            \/ u \in SharedOn(e, UpIds(e, n) \union Down(e, n))
         /\ p \in ListLiveProcessesUnder(d, n)
<1> DEFINE m == d.proc[p].node
           S == NodeIds(d) \ Down(d, n)
<1>1. /\ Sound(e) /\ NodeIds(e) = NodeIds(d)
      /\ \A x \in NodeIds(d) : /\ e.node[x].owner = d.node[x].owner
                               /\ x # n => Parent(e, x) = Parent(d, x)
      /\ e.share = d.share /\ e.pshare = d.pshare /\ e.proc = d.proc
  BY PatchIsSound
<1>0. Forest(d) /\ Forest(e) /\ p \in DOMAIN d.proc
  BY <1>1, SoundForest DEF Live
<1>3. NodePermission(e, u, m) # NodePermission(d, u, m)
  BY <1>1, SeesFrom
<1>4. \A x \in S : /\ Parent(e, x) = Parent(d, x) /\ e.node[x].owner = d.node[x].owner
                   /\ Parent(d, x) = Null \/ Parent(d, x) \in S
  BY <1>0, <1>1, OutsideStays, DownTyped
<1>5. \A x \in S : NodePermission(e, u, x) = NodePermission(d, u, x)
  <2>1. S \subseteq NodeIds(d) /\ S \subseteq NodeIds(e)
    BY <1>1
  <2> HIDE DEF S
  <2> QED  BY <2>1, <1>1, <1>4, PermissionKept
<1>6. m \in Down(d, n) /\ m \in NodeIds(d)
  <2>1. m \in NodeIds(d)
    BY <1>1, <1>3, PermissionTyped
  <2> QED  BY <2>1, <1>3, <1>5
<1>7. u # d.proc[p].owner /\ <<p, u>> \notin DOMAIN d.pshare
  BY <1>1 DEF Sees, ProcessPermission
<1>8. NodeIds(d) \subseteq {x \in NodeIds(d) : x \in Down(d, n) => x \in Down(e, n)}
  <2> DEFINE T == {x \in NodeIds(d) : x \in Down(d, n) => x \in Down(e, n)}
  <2>1. ASSUME NEW x \in NodeIds(d), Parent(d, x) = Null \/ Parent(d, x) \in T PROVE x \in T
    <3> SUFFICES ASSUME x \in Down(d, n) PROVE x \in Down(e, n)
      OBVIOUS
    <3>1. CASE x = n
      BY <3>1, <1>0, <1>1, DownTyped
    <3>2. CASE x # n
      <4>1. PICK g \in Down(d, n) : x \in Children(d, g)
        BY <1>0, <3>2, DownStep
      <4>2. Parent(d, x) = g /\ g \in NodeIds(d) /\ g # Null
        BY <4>1, <1>0, DownTyped, NullIsNoNode DEF Children, Parent, Exists
      <4>3. g \in Down(e, n)
        BY <4>2, <2>1
      <4>4. Parent(e, x) = g /\ x \in NodeIds(e)
        BY <4>2, <3>2, <1>1
      <4>5. x \in Children(e, g)
        BY <4>4 DEF Children, Parent, Exists
      <4> QED  BY <4>3, <4>5, <1>0, <1>1, DownClosed
    <3> QED  BY <3>1, <3>2
  <2> HIDE DEF T
  <2>2. NodeIds(d) \subseteq T
    BY <1>0, <2>1, TreeInduction
  <2> QED  BY <2>2 DEF T
<1>9. m \in Down(e, n)
  BY <1>6, <1>8
<1>10. Sees(d, u, p) => u \in SharedOn(d, UpIds(d, n) \union Down(d, n))
  BY <1>0, <1>6, <1>7, SightIsAround
<1>11. Sees(e, u, p) => u \in SharedOn(e, UpIds(e, n) \union Down(e, n))
  <2>1. /\ p \in DOMAIN e.proc /\ n \in NodeIds(e) /\ e.proc[p].node \in Down(e, n)
        /\ u # e.proc[p].owner /\ <<p, u>> \notin DOMAIN e.pshare
    BY <1>0, <1>1, <1>7, <1>9
  <2> QED  BY <2>1, <1>1, SightIsAround
<1> QED
  BY <1>6, <1>10, <1>11 DEF ListLiveProcessesUnder

\* reconcileAccess looks at every account and process whose sight a write changes.
LEMMA WrittenConcerns ==
  ASSUME Sound(db), NEW r, Asked(r), Wanted(db, r), Concerned(db, r), NEW u, NEW p \in Live(db),
         (Sees(Written(r), u, p) /\ ~Sees(db, u, p)) \/ (Sees(db, u, p) /\ ~Sees(Written(r), u, p))
  PROVE  u \in r.users /\ p \in r.uids /\ Hooks(r.what) \in {"told", "access"}
<1> DEFINE e == Written(r)
<1>0. /\ p \in DOMAIN db.proc /\ Sound(e) /\ db.next \in Nat
      /\ (Sees(e, u, p) /\ ~Sees(db, u, p)) \/ (Sees(db, u, p) /\ ~Sees(e, u, p))
  BY WrittenIsSound, NodeTreeAssumption DEF Live, Sound, Typed
<1>1. r.what \in {"folder", "script"} => FALSE
  <2> SUFFICES ASSUME r.what \in {"folder", "script"} PROVE FALSE
    OBVIOUS
  <2>1. /\ r.owner \in Users /\ Fits(db, r.to, r.owner) /\ db.next <= MaxNode /\ r.node = db.next
    BY DEF Wanted, WantsNew
  <2> DEFINE b == r.what = "folder"
  <2>2. b \in BOOLEAN /\ r.node \in 1 .. MaxNode
    BY <2>1, NodeTreeAssumption DEF Sound, Typed
  <2>3. e = CreateNode(db, r.owner, r.to, b, r.node)
    BY DEF Written
  <2> HIDE DEF b, e
  <2>4. /\ NodeIds(e) = NodeIds(db) \union {db.next}
        /\ \A n \in NodeIds(db) : e.node[n] = db.node[n]
        /\ e.share = db.share /\ e.pshare = db.pshare /\ e.proc = db.proc
    BY <2>1, <2>2, <2>3, CreateIsSound
  <2>5. \A m \in NodeIds(e) : m \notin NodeIds(db) => m >= db.next
    BY <2>4, <1>0
  <2> QED  BY <2>4, <2>5, <1>0, GrowthKeepsSight
<1>2. r.what = "copy" => FALSE
  <2> SUFFICES ASSUME r.what = "copy" PROVE FALSE
    OBVIOUS
  <2>1. e = InsertCopy(r)
    BY DEF Written
  <2> HIDE DEF e
  <2>2. /\ NodeIds(db) \subseteq NodeIds(e)
        /\ \A n \in NodeIds(e) \ NodeIds(db) : n >= db.next
        /\ \A n \in NodeIds(db) : e.node[n] = db.node[n]
        /\ e.share = db.share /\ e.pshare = db.pshare /\ e.proc = db.proc
    BY <2>1, CopyIsSound DEF Wanted, WantsCopy
  <2> QED  BY <2>2, <1>0, GrowthKeepsSight
<1>3. r.what = "exec" => FALSE
  <2> SUFFICES ASSUME r.what = "exec" PROVE FALSE
    OBVIOUS
  <2>1. r.node \in NodeIds(db) /\ r.owner = db.node[r.node].owner /\ r.to \in Procs \ DOMAIN db.proc
    BY DEF Wanted, WantsRun
  <2>2. e = CreateProcess(db, r.to, r.node, db.node[r.node].owner)
    BY <2>1 DEF Written
  <2> HIDE DEF e
  <2>3. /\ e.node = db.node /\ e.share = db.share /\ e.pshare = db.pshare
        /\ \A q \in DOMAIN db.proc : e.proc[q] = db.proc[q]
    BY <2>1, <2>2, ExecIsSound
  <2>4. \A n : NodePermission(e, u, n) = NodePermission(db, u, n)
    BY <2>3, SameTables
  <2> QED  BY <2>3, <2>4, <1>0, SeesFrom
<1>4. CASE r.what = "share"
  <2>1. r.node \in NodeIds(db) /\ db.node[r.node].folder /\ r.to \in Users /\ r.perm \in Perms
    BY <1>4 DEF Wanted, WantsShare
  <2>2. e = UpsertNodeShare(db, r.node, r.to, r.perm)
    BY <1>4 DEF Written
  <2> HIDE DEF e
  <2>3. /\ e.node = db.node /\ e.pshare = db.pshare /\ e.proc = db.proc
        /\ \A s : s # <<r.node, r.to>> => (s \in DOMAIN e.share <=> s \in DOMAIN db.share)
        /\ \A s \in DOMAIN db.share : s # <<r.node, r.to>> => e.share[s] = db.share[s]
    BY <2>1, <2>2, ShareIsSound
  <2> DEFINE n == r.node
             v == r.to
  <2>5. /\ \A s : s # <<n, v>> => (s \in DOMAIN e.share <=> s \in DOMAIN db.share)
        /\ \A s \in DOMAIN db.share : s # <<n, v>> /\ s \in DOMAIN e.share => e.share[s] = db.share[s]
    BY <2>3
  <2> HIDE DEF n, v
  <2>6. u = v /\ p \in ListLiveProcessesUnder(db, n)
    BY <2>3, <2>5, <1>0, ShareConcerns
  <2>4. u = r.to /\ p \in ListLiveProcessesUnder(db, r.node)
    BY <2>6 DEF n, v
  <2> QED  BY <2>4, <1>4 DEF Concerned, Hooks
<1>5. CASE r.what = "unshare"
  <2>2. e = DeleteNodeShare(db, r.node, r.to)
    BY <1>5 DEF Written
  <2> HIDE DEF e
  <2>3. /\ e.node = db.node /\ e.pshare = db.pshare /\ e.proc = db.proc
        /\ \A s : s # <<r.node, r.to>> => (s \in DOMAIN e.share <=> s \in DOMAIN db.share)
        /\ \A s \in DOMAIN e.share : e.share[s] = db.share[s]
    BY <2>2, UnshareIsSound
  <2>4. u = r.to /\ p \in ListLiveProcessesUnder(db, r.node)
    BY <2>3, <1>0, ShareConcerns
  <2> QED  BY <2>4, <1>5 DEF Concerned, Hooks
<1>6. CASE r.what = "pshare"
  <2>1. r.node \in DOMAIN db.proc /\ r.to \in Users /\ r.perm \in Perms
    BY <1>6 DEF Wanted, WantsShare
  <2>2. e = UpsertProcessShare(db, r.node, r.to, r.perm)
    BY <1>6 DEF Written
  <2> HIDE DEF e
  <2>3. /\ e.node = db.node /\ e.share = db.share /\ e.proc = db.proc
        /\ \A s : s # <<r.node, r.to>> => (s \in DOMAIN e.pshare <=> s \in DOMAIN db.pshare)
        /\ \A s \in DOMAIN db.pshare : s # <<r.node, r.to>> => e.pshare[s] = db.pshare[s]
    BY <2>1, <2>2, ProcessShareIsSound
  <2>4. u = r.to /\ p = r.node
    BY <2>3, <1>0, ProcessShareConcerns
  <2> QED  BY <2>4, <1>6 DEF Concerned, Hooks
<1>7. CASE r.what = "punshare"
  <2>2. e = DeleteProcessShare(db, r.node, r.to)
    BY <1>7 DEF Written
  <2> HIDE DEF e
  <2>3. /\ e.node = db.node /\ e.share = db.share /\ e.proc = db.proc
        /\ \A s : s # <<r.node, r.to>> => (s \in DOMAIN e.pshare <=> s \in DOMAIN db.pshare)
        /\ \A s \in DOMAIN e.pshare : e.pshare[s] = db.pshare[s]
    BY <2>2, ProcessUnshareIsSound
  <2>4. u = r.to /\ p = r.node
    BY <2>3, <1>0, ProcessShareConcerns
  <2> QED  BY <2>4, <1>7 DEF Concerned, Hooks
<1>8. CASE r.what = "delete"
  <2>1. r.node \in NodeIds(db) /\ e = DeleteNode(db, r.node)
    BY <1>8 DEF Wanted, WantsTree, Written
  <2>2. u \in SharedOn(db, UpIds(db, r.node) \union Down(db, r.node)) /\ p \in ListLiveProcessesUnder(db, r.node)
    BY <2>1, <1>0, DeleteConcerns
  <2> QED  BY <2>2, <1>8 DEF Concerned, Hooks
<1>9. CASE r.what = "move"
  <2>1. /\ r.node \in NodeIds(db) /\ Fits(db, r.to, db.node[r.node].owner) /\ r.node \notin UpIds(db, r.to)
    BY <1>9 DEF Wanted, WantsTree, WantsMove
  <2>2. e = PatchParent(db, r.node, r.to)
    BY <1>9 DEF Written
  <2>3. SharedOn(e, UpIds(e, r.node) \union Down(e, r.node)) \subseteq r.users
    BY <2>2, <1>9 DEF Concerned
  <2> HIDE DEF e
  <2>4. /\ \/ u \in SharedOn(db, UpIds(db, r.node) \union Down(db, r.node))
           \/ u \in SharedOn(e, UpIds(e, r.node) \union Down(e, r.node))
        /\ p \in ListLiveProcessesUnder(db, r.node)
    BY <2>1, <2>2, <1>0, MoveConcerns
  <2> QED  BY <2>3, <2>4, <1>9 DEF Concerned, Hooks
<1> QED
  BY <1>1, <1>2, <1>3, <1>4, <1>5, <1>6, <1>7, <1>8, <1>9 DEF Asked, Kinds

-----------------------------------------------------------------------------
(* Subscriptions.                                                          *)

\* No write is committed between the reading of the viewers of a process and their subscription.
ViewersInTurn == "viewers" \notin Windows

Knows(d, r) ==
  /\ r.step = "join" => r.users = ListProcessViewers(d, r.proc)
  /\ r.step = "clean" => r.to \in DOMAIN d.proc \ Live(d)

Covers(d, r, u, p) ==
  \/ r.step \in {"told", "access"} /\ u \in r.users /\ p \in r.uids
  \/ r.step = "viewers" /\ r.to = p /\ u \in ListProcessViewers(d, p)
  \/ r.step = "join" /\ r.proc = p /\ u \in r.users

Agrees(d, q, s) ==
  \A u \in Users, p \in Live(d) :
    (<<u, p>> \in s <=> Sees(d, u, p)) \/ \E h \in Threads : Covers(d, q[h], u, p)

Heard(d, q, s) == Agrees(d, q, s) /\ \A h \in Threads : Knows(d, q[h])

LEMMA HeardSaysSo ==
  ASSUME Heard(db, req, subs)
  PROVE  SubscribedAgrees
<1> SUFFICES ASSUME NEW u \in Users, NEW p \in Live(db), ~Covered(u, p)
             PROVE  (<<u, p>> \in subs) = (ProcessPermission(db, u, p) > Block)
  BY DEF SubscribedAgrees
<1>1. \A h \in Threads : ~Covers(db, req[h], u, p)
  BY DEF Covered, Covers
<1>2. <<u, p>> \in subs <=> Sees(db, u, p)
  BY <1>1 DEF Heard, Agrees
<1> QED
  BY <1>2 DEF Sees

\* A step of one request that leaves the tables alone.
LEMMA OneHears ==
  ASSUME State(db, req, subs), Heard(db, req, subs), NEW h \in Threads, NEW r, NEW q, NEW s,
         q = [req EXCEPT ![h] = r], Knows(db, r),
         \A u \in Users, p \in Live(db) :
           \/ Covers(db, r, u, p)
           \/ <<u, p>> \in s <=> Sees(db, u, p)
           \/ (<<u, p>> \in s <=> <<u, p>> \in subs) /\ ~Covers(db, req[h], u, p)
  PROVE  Heard(db, q, s)
<1>1. req = [g \in Threads |-> req[g]]
  BY DEF State
<1>2. \A g \in Threads : q[g] = IF g = h THEN r ELSE req[g]
  BY <1>1
<1>3. \A g \in Threads : Knows(db, q[g])
  BY <1>2 DEF Heard
<1>4. ASSUME NEW u \in Users, NEW p \in Live(db)
      PROVE  (<<u, p>> \in s <=> Sees(db, u, p)) \/ \E g \in Threads : Covers(db, q[g], u, p)
  <2>1. CASE Covers(db, r, u, p)
    BY <2>1, <1>2
  <2>2. CASE <<u, p>> \in s <=> Sees(db, u, p)
    BY <2>2
  <2>3. CASE (<<u, p>> \in s <=> <<u, p>> \in subs) /\ ~Covers(db, req[h], u, p)
    <3>1. CASE <<u, p>> \in subs <=> Sees(db, u, p)
      BY <3>1, <2>3
    <3>2. CASE \E g \in Threads : Covers(db, req[g], u, p)
      <4>1. PICK g \in Threads : Covers(db, req[g], u, p)
        BY <3>2
      <4>2. g # h
        BY <4>1, <2>3
      <4>3. Covers(db, q[g], u, p)
        BY <4>1, <4>2, <1>2
      <4> QED  BY <4>3
    <3> QED  BY <3>1, <3>2 DEF Heard, Agrees
  <2> QED  BY <2>1, <2>2, <2>3
<1> QED
  BY <1>3, <1>4 DEF Heard, Agrees

LEMMA IdleHears == ASSUME NEW d PROVE Knows(d, Idle) /\ \A u, p : ~Covers(d, Idle, u, p)
BY DEF Idle, Knows, Covers

LEMMA BegunHears ==
  ASSUME State(db, req, subs), Heard(db, req, subs), NEW h \in Threads, Begun(h)
  PROVE  Heard(db', req', subs')
<1> DEFINE r == req'[h]
<1>1. db' = db /\ subs' = subs /\ req' = [req EXCEPT ![h] = r] /\ r.step = "write" /\ req[h] = Idle
  BY DEF Begun
<1> HIDE DEF r
<1>2. Knows(db, r)
  BY <1>1 DEF Knows
<1>3. \A u, p : ~Covers(db, req[h], u, p)
  BY <1>1, IdleHears
<1> QED
  BY <1>1, <1>2, <1>3, OneHears

LEMMA SightOf ==
  ASSUME NEW d, Sound(d), NEW u \in Users, NEW p \in DOMAIN d.proc
  PROVE  Sees(d, u, p) <=> u \in ListProcessViewers(d, p)
BY ViewersRight DEF Sees

LEMMA HooksHear ==
  ASSUME State(db, req, subs), Heard(db, req, subs), NEW h \in Threads,
         RollBack(h) \/ Tell(h) \/ Access(h) \/ ReadViewers(h) \/ Join(h) \/ CleanupProcessTopic(h)
  PROVE  Heard(db', req', subs')
<1>0. /\ Sound(db) /\ ReqOk(db, req[h]) /\ Knows(db, req[h]) /\ req = [g \in Threads |-> req[g]]
      /\ \A p \in Live(db) : p \in DOMAIN db.proc
  BY DEF State, Heard, Live
<1>1. CASE RollBack(h)
  <2>1. req' = [req EXCEPT ![h] = Idle] /\ db' = db /\ subs' = subs /\ req[h].step = "write"
    BY <1>1 DEF RollBack
  <2>2. \A u, p : ~Covers(db, req[h], u, p)
    BY <2>1 DEF Covers
  <2> QED  BY <2>1, <2>2, IdleHears, OneHears
<1>2. CASE Tell(h)
  <2> DEFINE r == req[h]
             x == [r EXCEPT !.step = "access"]
             s == IF r.what \in {"move", "delete"} THEN x ELSE Idle
  <2>1. req' = [req EXCEPT ![h] = s] /\ db' = db /\ subs' = subs /\ r.step = "told"
    BY <1>2 DEF Tell
  <2>2. Asked(r) /\ (r.what \notin {"move", "delete"} => r.users = {})
    BY <2>1, <1>0 DEF ReqOk
  <2>3. x.step = "access" /\ x.users = r.users /\ x.uids = r.uids
    BY <2>2, StepSet
  <2> HIDE DEF x
  <2>4. CASE r.what \in {"move", "delete"}
    <3>1. Knows(db, s) /\ \A u, p : Covers(db, r, u, p) => Covers(db, s, u, p)
      BY <2>1, <2>3, <2>4 DEF Knows, Covers
    <3> HIDE DEF s
    <3> QED  BY <2>1, <3>1, OneHears
  <2>5. CASE r.what \notin {"move", "delete"} /\ r.users = {}
    <3>1. s = Idle /\ \A u, p : ~Covers(db, r, u, p)
      BY <2>1, <2>5 DEF Covers
    <3> QED  BY <2>1, <3>1, IdleHears, OneHears
  <2> QED  BY <2>2, <2>4, <2>5
<1>3. CASE Access(h)
  <2> DEFINE r == req[h]
             seen == {s \in r.users \X r.uids : ProcessPermission(db, s[1], s[2]) > Block}
  <2>1. /\ req' = [req EXCEPT ![h] = Idle] /\ db' = db /\ r.step = "access"
        /\ subs' = (subs \ (r.users \X r.uids)) \union seen
    BY <1>3 DEF Access
  <2>2. \A u \in Users, p \in Live(db) :
           \/ <<u, p>> \in subs' <=> Sees(db, u, p)
           \/ (<<u, p>> \in subs' <=> <<u, p>> \in subs) /\ ~Covers(db, req[h], u, p)
    <3> SUFFICES ASSUME NEW u \in Users, NEW p \in Live(db)
                 PROVE  \/ <<u, p>> \in subs' <=> Sees(db, u, p)
                        \/ (<<u, p>> \in subs' <=> <<u, p>> \in subs) /\ ~Covers(db, req[h], u, p)
      OBVIOUS
    <3>1. CASE u \in r.users /\ p \in r.uids
      <4>1. <<u, p>> \in seen <=> Sees(db, u, p)
        BY <3>1 DEF Sees
      <4>2. <<u, p>> \notin subs \ (r.users \X r.uids)
        BY <3>1
      <4> HIDE DEF seen
      <4> QED  BY <4>1, <4>2, <2>1
    <3>2. CASE ~(u \in r.users /\ p \in r.uids)
      <4>1. <<u, p>> \notin r.users \X r.uids
        BY <3>2
      <4>2. <<u, p>> \notin seen
        BY <4>1
      <4>3. ~Covers(db, req[h], u, p)
        BY <3>2, <2>1 DEF Covers
      <4> HIDE DEF seen
      <4> QED  BY <4>1, <4>2, <4>3, <2>1
    <3> QED  BY <3>1, <3>2
  <2> HIDE DEF seen
  <2>3. Heard(db, req', subs')
    BY <2>1, <2>2, IdleHears, OneHears
  <2> QED  BY <2>1, <2>3
<1>4. CASE ReadViewers(h)
  <2> DEFINE x == req[h].to
             s == [step |-> "join", proc |-> x, users |-> ListProcessViewers(db, x)]
  <2>1. req' = [req EXCEPT ![h] = s] /\ db' = db /\ subs' = subs /\ req[h].step = "viewers"
    BY <1>4, <1>0 DEF ReadViewers
  <2>2. s.step = "join" /\ s.proc = x /\ s.users = ListProcessViewers(db, x)
    OBVIOUS
  <2> HIDE DEF s
  <2>3. Knows(db, s) /\ \A u, p : Covers(db, req[h], u, p) => Covers(db, s, u, p)
    BY <2>1, <2>2 DEF Knows, Covers
  <2> QED  BY <2>1, <2>3, OneHears
<1>5. CASE Join(h)
  <2>1. /\ req' = [req EXCEPT ![h] = Idle] /\ db' = db /\ req[h].step = "join"
        /\ subs' = subs \union (req[h].users \X {req[h].proc})
    BY <1>5 DEF Join
  <2>2. req[h].users = ListProcessViewers(db, req[h].proc)
    BY <2>1, <1>0 DEF Knows
  <2>3. \A u \in Users, p \in Live(db) :
           \/ <<u, p>> \in subs' <=> Sees(db, u, p)
           \/ (<<u, p>> \in subs' <=> <<u, p>> \in subs) /\ ~Covers(db, req[h], u, p)
    <3> SUFFICES ASSUME NEW u \in Users, NEW p \in Live(db)
                 PROVE  \/ <<u, p>> \in subs' <=> Sees(db, u, p)
                        \/ (<<u, p>> \in subs' <=> <<u, p>> \in subs) /\ ~Covers(db, req[h], u, p)
      OBVIOUS
    <3>1. CASE p = req[h].proc /\ u \in req[h].users
      <4>1. Sees(db, u, p)
        BY <3>1, <2>2, <1>0, SightOf
      <4> QED  BY <4>1, <3>1, <2>1
    <3>2. CASE ~(p = req[h].proc /\ u \in req[h].users)
      BY <3>2, <2>1 DEF Covers
    <3> QED  BY <3>1, <3>2
  <2>4. Heard(db, req', subs')
    BY <2>1, <2>3, IdleHears, OneHears
  <2> QED  BY <2>1, <2>4
<1>6. CASE CleanupProcessTopic(h)
  <2>1. /\ req' = [req EXCEPT ![h] = Idle] /\ db' = db /\ req[h].step = "clean"
        /\ subs' = subs \ (Users \X {req[h].to})
    BY <1>6 DEF CleanupProcessTopic
  <2>2. req[h].to \notin Live(db)
    BY <2>1, <1>0 DEF Knows
  <2>3. \A u \in Users, p \in Live(db) :
          (<<u, p>> \in subs' <=> <<u, p>> \in subs) /\ ~Covers(db, req[h], u, p)
    BY <2>1, <2>2 DEF Covers
  <2>4. Heard(db, req', subs')
    BY <2>1, <2>3, IdleHears, OneHears
  <2> QED  BY <2>1, <2>4
<1> QED
  BY <1>1, <1>2, <1>3, <1>4, <1>5, <1>6

LEMMA WorkerHears ==
  ASSUME State(db, req, subs), Heard(db, req, subs), NEW h \in Threads, NEW x, Rebind(h, x) \/ End(h, x)
  PROVE  Heard(db', req', subs')
<1>0. /\ Sound(db) /\ req = [g \in Threads |-> req[g]]
      /\ \A p \in Live(db) : p \in DOMAIN db.proc
  BY DEF State, Live
<1>1. CASE Rebind(h, x)
  <2> DEFINE s == [step |-> "viewers", to |-> x]
  <2>1. req' = [req EXCEPT ![h] = s] /\ db' = db /\ subs' = subs /\ req[h] = Idle
    BY <1>1 DEF Rebind
  <2>2. Knows(db, s)
    BY DEF Knows
  <2>3. \A u, p : ~Covers(db, req[h], u, p)
    BY <2>1, IdleHears
  <2> HIDE DEF s
  <2> QED  BY <2>1, <2>2, <2>3, OneHears
<1>2. CASE End(h, x)
  <2> DEFINE s == [step |-> "clean", to |-> x]
             e == MarkProcessDone(db, x)
  <2>1. req' = [req EXCEPT ![h] = s] /\ db' = e /\ subs' = subs /\ req[h] = Idle /\ x \in DOMAIN db.proc
    BY <1>2 DEF End, Live
  <2>2. s.step = "clean" /\ s.to = x
    OBVIOUS
  <2>3. /\ Sound(e) /\ e.node = db.node /\ e.share = db.share /\ e.pshare = db.pshare
        /\ DOMAIN e.proc = DOMAIN db.proc /\ Live(e) = Live(db) \ {x}
        /\ \A p \in DOMAIN db.proc : e.proc[p].owner = db.proc[p].owner /\ e.proc[p].node = db.proc[p].node
    BY <2>1, <1>0, DoneIsSound
  <2> HIDE DEF s, e
  <2>4. ASSUME NEW u, NEW p \in DOMAIN db.proc PROVE Sees(e, u, p) <=> Sees(db, u, p)
    <3>1. \A n : NodePermission(e, u, n) = NodePermission(db, u, n)
      BY <2>3, SameTables
    <3> QED  BY <3>1, <2>3, SeesFrom
  <2>5. \A p \in DOMAIN db.proc : ListProcessViewers(e, p) = ListProcessViewers(db, p)
    <3> SUFFICES ASSUME NEW p \in DOMAIN db.proc PROVE ListProcessViewers(e, p) = ListProcessViewers(db, p)
      OBVIOUS
    <3>1. ListProcessViewers(db, p) = {u \in Users : Sees(db, u, p)}
      BY <1>0, ViewersRight DEF Sees
    <3>2. ListProcessViewers(e, p) = {u \in Users : Sees(e, u, p)}
      BY <2>3, ViewersRight DEF Sees
    <3> QED  BY <3>1, <3>2, <2>4
  <2>6. \A g \in Threads : req'[g] = IF g = h THEN s ELSE req[g]
    BY <2>1, <1>0
  <2>7. \A g \in Threads : Knows(e, req'[g])
    <3>1. Knows(e, s)
      BY <2>1, <2>2, <2>3 DEF Knows
    <3>2. ASSUME NEW g \in Threads PROVE Knows(e, req[g])
      <4>1. Knows(db, req[g]) /\ ReqOk(db, req[g])
        BY DEF Heard, State
      <4>2. req[g].step = "join" => req[g].proc \in DOMAIN db.proc
        BY <4>1 DEF ReqOk
      <4> QED  BY <4>1, <4>2, <2>3, <2>5 DEF Knows
    <3> QED  BY <3>1, <3>2, <2>6
  <2>8. ASSUME NEW u \in Users, NEW p \in Live(e)
        PROVE  (<<u, p>> \in subs <=> Sees(e, u, p)) \/ \E g \in Threads : Covers(e, req'[g], u, p)
    <3>1. p \in Live(db) /\ p \in DOMAIN db.proc
      BY <2>3, <1>0
    <3>2. CASE <<u, p>> \in subs <=> Sees(db, u, p)
      BY <3>1, <3>2, <2>4
    <3>3. CASE \E g \in Threads : Covers(db, req[g], u, p)
      <4>1. PICK g \in Threads : Covers(db, req[g], u, p)
        BY <3>3
      <4>2. g # h
        BY <4>1, <2>1, IdleHears
      <4>3. Covers(e, req[g], u, p)
        BY <4>1, <3>1, <2>5 DEF Covers
      <4> QED  BY <4>2, <4>3, <2>6
    <3> QED  BY <3>1, <3>2, <3>3 DEF Heard, Agrees
  <2>9. Heard(e, req', subs)
    BY <2>7, <2>8 DEF Heard, Agrees
  <2> QED  BY <2>1, <2>9
<1> QED
  BY <1>1, <1>2

\* What stays live is what was, and at most the run that the request starts.
LEMMA WrittenRuns ==
  ASSUME Sound(db), NEW r, Asked(r), Wanted(db, r)
  PROVE  /\ \A p \in DOMAIN db.proc : Written(r).proc[p] = db.proc[p]
         /\ \A p \in DOMAIN Written(r).proc : p \notin DOMAIN db.proc => r.what = "exec" /\ r.to = p
<1> DEFINE e == Written(r)
<1>0. r.what # "exec" => e.proc = db.proc
  <2>1. CASE r.what \in {"folder", "script"}
    <3>1. /\ r.owner \in Users /\ Fits(db, r.to, r.owner) /\ db.next <= MaxNode /\ r.node = db.next
      BY <2>1 DEF Wanted, WantsNew
    <3> DEFINE b == r.what = "folder"
    <3>2. b \in BOOLEAN /\ r.node \in 1 .. MaxNode
      BY <3>1, NodeTreeAssumption DEF Sound, Typed
    <3>3. e = CreateNode(db, r.owner, r.to, b, r.node)
      BY <2>1 DEF Written
    <3> HIDE DEF b, e
    <3> QED  BY <3>1, <3>2, <3>3, CreateIsSound
  <2>2. CASE r.what = "copy"
    <3>1. e = InsertCopy(r)
      BY <2>2 DEF Written
    <3> HIDE DEF e
    <3> QED  BY <3>1, <2>2, CopyIsSound DEF Wanted, WantsCopy
  <2>3. CASE r.what = "move"
    <3>1. /\ r.node \in NodeIds(db) /\ Fits(db, r.to, db.node[r.node].owner) /\ r.node \notin UpIds(db, r.to)
          /\ e = PatchParent(db, r.node, r.to)
      BY <2>3 DEF Wanted, WantsTree, WantsMove, Written
    <3> HIDE DEF e
    <3> QED  BY <3>1, PatchIsSound
  <2>4. CASE r.what = "delete"
    <3>1. r.node \in NodeIds(db) /\ e = DeleteNode(db, r.node)
      BY <2>4 DEF Wanted, WantsTree, Written
    <3> HIDE DEF e
    <3> QED  BY <3>1, DeleteIsSound
  <2>5. CASE r.what = "share"
    <3>1. /\ r.node \in NodeIds(db) /\ db.node[r.node].folder /\ r.to \in Users /\ r.perm \in Perms
          /\ e = UpsertNodeShare(db, r.node, r.to, r.perm)
      BY <2>5 DEF Wanted, WantsShare, Written
    <3> HIDE DEF e
    <3> QED  BY <3>1, ShareIsSound
  <2>6. CASE r.what = "unshare"
    <3>1. e = DeleteNodeShare(db, r.node, r.to)
      BY <2>6 DEF Written
    <3> HIDE DEF e
    <3> QED  BY <3>1, UnshareIsSound
  <2>7. CASE r.what = "pshare"
    <3>1. /\ r.node \in DOMAIN db.proc /\ r.to \in Users /\ r.perm \in Perms
          /\ e = UpsertProcessShare(db, r.node, r.to, r.perm)
      BY <2>7 DEF Wanted, WantsShare, Written
    <3> HIDE DEF e
    <3> QED  BY <3>1, ProcessShareIsSound
  <2>8. CASE r.what = "punshare"
    <3>1. e = DeleteProcessShare(db, r.node, r.to)
      BY <2>8 DEF Written
    <3> HIDE DEF e
    <3> QED  BY <3>1, ProcessUnshareIsSound
  <2> QED  BY <2>1, <2>2, <2>3, <2>4, <2>5, <2>6, <2>7, <2>8 DEF Asked, Kinds
<1>1. CASE r.what = "exec"
  <2>1. r.node \in NodeIds(db) /\ r.owner = db.node[r.node].owner /\ r.to \in Procs \ DOMAIN db.proc
    BY <1>1 DEF Wanted, WantsRun
  <2>2. e = CreateProcess(db, r.to, r.node, db.node[r.node].owner)
    BY <2>1, <1>1 DEF Written
  <2> HIDE DEF e
  <2>3. /\ DOMAIN e.proc = DOMAIN db.proc \union {r.to}
        /\ \A q \in DOMAIN db.proc : e.proc[q] = db.proc[q]
    BY <2>1, <2>2, ExecIsSound
  <2>4. /\ \A p \in DOMAIN db.proc : e.proc[p] = db.proc[p]
        /\ \A p \in DOMAIN e.proc : p \notin DOMAIN db.proc => r.what = "exec" /\ r.to = p
    BY <2>3, <1>1
  <2> QED  BY <2>4 DEF e
<1>2. CASE r.what # "exec"
  <2>1. e.proc = db.proc
    BY <1>0, <1>2
  <2> HIDE DEF e
  <2>2. /\ \A p \in DOMAIN db.proc : e.proc[p] = db.proc[p]
        /\ \A p \in DOMAIN e.proc : p \notin DOMAIN db.proc => r.what = "exec" /\ r.to = p
    BY <2>1
  <2> QED  BY <2>2 DEF e
<1> QED
  BY <1>1, <1>2

\* A commit leaves nobody out: who sees a process now, or no longer, is looked at by its hooks.
LEMMA CommitHears ==
  ASSUME ViewersInTurn, State(db, req, subs), Heard(db, req, subs), NEW h \in Threads, Commit(h)
  PROVE  Heard(db', req', subs')
<1> DEFINE r == req[h]
           e == Written(r)
           v == Hooks(r.what)
           s == [r EXCEPT !.step = v]
<1>1. r.step = "write" /\ db' = e /\ subs' = subs /\ \A g \in Threads : req[g].step # "join"
  BY DEF Commit, ViewersInTurn, At
<1>2. req = [g \in Threads |-> req[g]]
  BY DEF State
<1>3. req' = [req EXCEPT ![h] = s]
  BY <1>2 DEF Commit
<1>4. Sound(db) /\ Asked(r) /\ Wanted(db, r) /\ Concerned(db, r)
  BY <1>1 DEF State, ReqOk
<1>5. /\ Sound(e) /\ DOMAIN db.proc \subseteq DOMAIN e.proc
  BY <1>4, WrittenIsSound
<1>6. v \in {"told", "access", "viewers"} /\ (r.what = "exec" => v = "viewers")
  BY <1>4 DEF Hooks, Asked, Kinds
<1>7. /\ \A p \in DOMAIN db.proc : e.proc[p] = db.proc[p]
      /\ \A p \in DOMAIN e.proc : p \notin DOMAIN db.proc => r.what = "exec" /\ r.to = p
  BY <1>4, WrittenRuns
<1>8. ASSUME NEW u, NEW p \in Live(db), (Sees(e, u, p) /\ ~Sees(db, u, p)) \/ (Sees(db, u, p) /\ ~Sees(e, u, p))
      PROVE  u \in r.users /\ p \in r.uids /\ v \in {"told", "access"}
  BY <1>4, <1>8, WrittenConcerns
<1> HIDE DEF e, v
<1>9. s.step = v /\ s.users = r.users /\ s.uids = r.uids /\ s.to = r.to
  BY <1>4, StepSet
<1> HIDE DEF s
<1>10. \A g \in Threads : req'[g] = IF g = h THEN s ELSE req[g]
  BY <1>2, <1>3
<1>11. \A g \in Threads : Knows(e, req'[g])
  <2>1. Knows(e, s)
    BY <1>6, <1>9 DEF Knows
  <2>2. ASSUME NEW g \in Threads, g # h PROVE Knows(e, req[g])
    <3>1. Knows(db, req[g]) /\ req[g].step # "join"
      BY <1>1 DEF Heard
    <3>2. DOMAIN db.proc \ Live(db) \subseteq DOMAIN e.proc \ Live(e)
      BY <1>5, <1>7 DEF Live
    <3> QED  BY <3>1, <3>2 DEF Knows
  <2> QED  BY <2>1, <2>2, <1>10
<1>12. ASSUME NEW u \in Users, NEW p \in Live(e)
       PROVE  (<<u, p>> \in subs <=> Sees(e, u, p)) \/ \E g \in Threads : Covers(e, req'[g], u, p)
  <2>0. p \in DOMAIN e.proc
    BY DEF Live
  <2>1. CASE p \notin DOMAIN db.proc
    <3>1. s.step = "viewers" /\ s.to = p /\ <<u, p>> \notin subs
      BY <2>0, <2>1, <1>6, <1>7, <1>9 DEF State
    <3>2. CASE Sees(e, u, p)
      <4>1. u \in ListProcessViewers(e, p)
        BY <3>2, <2>0, <1>5, SightOf
      <4>2. Covers(e, req'[h], u, p)
        BY <3>1, <4>1, <1>10 DEF Covers
      <4> QED  BY <4>2
    <3> QED  BY <3>1, <3>2
  <2>2. CASE p \in DOMAIN db.proc
    <3>0. p \in Live(db)
      BY <2>2, <1>7 DEF Live
    <3>1. CASE ~(Sees(e, u, p) <=> Sees(db, u, p))
      <4>1. u \in r.users /\ p \in r.uids /\ v \in {"told", "access"}
        BY <3>0, <3>1, <1>8
      <4>2. Covers(e, req'[h], u, p)
        BY <4>1, <1>9, <1>10 DEF Covers
      <4> QED  BY <4>2
    <3>2. CASE (Sees(e, u, p) <=> Sees(db, u, p)) /\ (<<u, p>> \in subs <=> Sees(db, u, p))
      BY <3>2
    <3>3. CASE (Sees(e, u, p) <=> Sees(db, u, p)) /\ \E g \in Threads : Covers(db, req[g], u, p)
      <4>1. PICK g \in Threads : Covers(db, req[g], u, p)
        BY <3>3
      <4>2. g # h
        BY <4>1, <1>1 DEF Covers
      <4>3. u \in ListProcessViewers(db, p) => u \in ListProcessViewers(e, p)
        BY <3>3, <2>0, <2>2, <1>4, <1>5, SightOf
      <4>4. Covers(e, req[g], u, p)
        BY <4>1, <4>3 DEF Covers
      <4> QED  BY <4>2, <4>4, <1>10
    <3> QED  BY <3>0, <3>1, <3>2, <3>3 DEF Heard, Agrees
  <2> QED  BY <2>1, <2>2
<1>13. Heard(e, req', subs)
  BY <1>11, <1>12 DEF Heard, Agrees
<1> QED
  BY <1>1, <1>13

LEMMA InitHears == Init => Heard(db, req, subs)
<1> SUFFICES ASSUME Init PROVE Heard(db, req, subs)
  OBVIOUS
<1>1. req = [h \in Threads |-> Idle]
  BY DEF Init
<1>2. subs = {s \in Users \X Live(db) : ProcessPermission(db, s[1], s[2]) > Block}
  BY DEF Init
<1>3. \A u \in Users, p \in Live(db) : <<u, p>> \in subs <=> Sees(db, u, p)
  BY <1>2 DEF Sees
<1> QED
  BY <1>1, <1>3, IdleHears DEF Heard, Agrees

LEMMA NextHears ==
  ASSUME OneAtATime, ViewersInTurn, State(db, req, subs), Heard(db, req, subs), [Next]_vars
  PROVE  Heard(db', req', subs')
<1>1. CASE UNCHANGED vars
  BY <1>1 DEF vars
<1>2. ASSUME NEW h \in Threads, NEW u \in Users, Ask(h, u) PROVE Heard(db', req', subs')
  BY <1>2, AskKeeps, BegunHears
<1>3. CASE Next
  BY <1>2, <1>3, CommitHears, HooksHear, WorkerHears DEF Next
<1> QED
  BY <1>1, <1>3

\* A socket is subscribed to exactly the live processes its account may view, but for those
\* a request on its way is about to put right: hooks of shares, moves and deletes, and joins.
THEOREM SubscribedAsSeen == OneAtATime /\ ViewersInTurn => (Spec => []SubscribedAgrees)
<1> SUFFICES ASSUME OneAtATime, ViewersInTurn PROVE Spec => []SubscribedAgrees
  OBVIOUS
<1>1. Init => Heard(db, req, subs)
  BY InitHears
<1>2. Inv /\ Heard(db, req, subs) /\ [Next]_vars => Heard(db, req, subs)'
  BY NextHears DEF Inv
<1>3. Heard(db, req, subs) => SubscribedAgrees
  BY HeardSaysSo
<1>4. Spec => []Inv
  BY InvHolds
<1> QED
  BY <1>1, <1>2, <1>3, <1>4, PTL DEF Spec
=============================================================================
