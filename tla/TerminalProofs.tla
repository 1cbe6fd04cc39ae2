--------------------------- MODULE TerminalProofs ---------------------------
(* What a tab shows, whatever breaks on the way to it: gaps are marked and *)
(* nothing is shown twice; the way from the holder to the supervisor's     *)
(* screen joins without a gap; and what the tab misses is on no screen.    *)
EXTENDS TerminalStream, WellFoundedInduction, SequenceTheorems, TLAPS

(* A set of numbers has a least one; induction follows.                    *)
LEMMA Least ==
  ASSUME NEW T, T \subseteq Nat, T # {}
  PROVE  \E n \in T : \A m \in 0 .. n - 1 : m \notin T
<1> DEFINE R == {ss \in Nat \X Nat : ss[1] < ss[2]}
<1>1. IsWellFoundedOn(R, Nat)
  BY NatLessThanWellFounded DEF OpToRel
<1> HIDE DEF R
<1>2. PICK n \in T : \A m \in T : <<m, n>> \notin R
  BY <1>1, WFMin
<1>3. \A m \in Nat : m < n => <<m, n>> \in R
  BY <1>2 DEF R
<1>4. n \in Nat
  BY <1>2
<1>5. \A m \in 0 .. n - 1 : m \in Nat /\ m < n
  BY <1>4
<1> QED
  BY <1>2, <1>3, <1>5

LEMMA Induction ==
  ASSUME NEW T, 0 \in T, \A n \in Nat : n \in T => n + 1 \in T
  PROVE  Nat \subseteq T
<1> SUFFICES ASSUME NEW k \in Nat \ T PROVE FALSE
  OBVIOUS
<1>1. PICK n \in Nat \ T : \A m \in 0 .. n - 1 : m \notin Nat \ T
  BY Least
<1>2. n # 0 /\ n - 1 \in Nat /\ n - 1 \in 0 .. n - 1 /\ (n - 1) + 1 = n
  BY <1>1
<1> QED
  BY <1>1, <1>2

(* The function FlattenSeq is built with exists, so that it is what its    *)
(* definition says.                                                        *)
Flattens(f, s, n) == f = [i \in 1 .. n |-> IF i = 1 THEN s[i] ELSE f[i - 1] \o s[i]]

LEMMA FlattenExists == ASSUME NEW s PROVE \A n \in Nat : \E f : Flattens(f, s, n)
<1> DEFINE T == {n \in Nat : \E f : Flattens(f, s, n)}
<1>1. 0 \in T
  <2> DEFINE f == [i \in 1 .. 0 |-> s[i]]
  <2>1. Flattens(f, s, 0)
    BY DEF Flattens
  <2> QED  BY <2>1
<1>2. ASSUME NEW n \in Nat, n \in T PROVE n + 1 \in T
  <2>1. PICK f : Flattens(f, s, n)
    BY <1>2
  <2> DEFINE g == [i \in 1 .. n + 1 |-> IF i = n + 1 THEN IF i = 1 THEN s[i] ELSE f[i - 1] \o s[i] ELSE f[i]]
  <2>2. ASSUME NEW i \in 1 .. n + 1 PROVE g[i] = IF i = 1 THEN s[i] ELSE g[i - 1] \o s[i]
    <3>1. CASE i = n + 1
      <4>1. i # 1 => i - 1 \in 1 .. n /\ i - 1 # n + 1 /\ i - 1 \in 1 .. n + 1
        BY <3>1
      <4> QED  BY <3>1, <4>1
    <3>2. CASE i # n + 1
      <4>1. i \in 1 .. n /\ (i # 1 => i - 1 \in 1 .. n /\ i - 1 # n + 1 /\ i - 1 \in 1 .. n + 1)
        BY <3>2
      <4>2. f[i] = IF i = 1 THEN s[i] ELSE f[i - 1] \o s[i]
        BY <2>1, <4>1 DEF Flattens
      <4> QED  BY <3>2, <4>1, <4>2
    <3> QED  BY <3>1, <3>2
  <2>3. g = [i \in 1 .. n + 1 |-> g[i]]
    OBVIOUS
  <2> HIDE DEF g
  <2>4. Flattens(g, s, n + 1)
    BY <2>2, <2>3 DEF Flattens
  <2> QED  BY <2>4
<1> HIDE DEF T
<1>3. Nat \subseteq T
  BY <1>1, <1>2, Induction
<1> QED
  BY <1>3 DEF T

LEMMA FlattenUnfolds ==
  ASSUME NEW s, Len(s) \in Nat \ {0}
  PROVE  \E f : Flattens(f, s, Len(s)) /\ FlattenSeq(s) = f[Len(s)]
<1> DEFINE f == CHOOSE f : Flattens(f, s, Len(s))
<1>1. Flattens(f, s, Len(s))
  BY FlattenExists
<1>2. FlattenSeq(s) = f[Len(s)]
  BY DEF FlattenSeq, Flattens
<1> QED  BY <1>1, <1>2

-----------------------------------------------------------------------------
(* What a terminal may show that has been written up to n: output in       *)
(* order, each byte once, a line wherever some is left out.                *)
Reaches(t, n) ==
  /\ t = <<>> => n = 0
  /\ t # <<>> => t[Len(t)] \in {gap, n}
  /\ \A i \in DOMAIN t : t[i] # gap =>
       /\ t[i] \in 1 .. n
       /\ IF i = 1 THEN t[i] = 1 ELSE t[i - 1] = gap \/ t[i] = t[i - 1] + 1
       /\ \A j \in 1 .. i - 1 : t[j] # gap => t[j] < t[i]

Lines == Seq(1 .. MaxOut \cup {gap})

LEMMA BytesType ==
  ASSUME NEW a \in 0 .. MaxOut, NEW b \in 0 .. MaxOut, a <= b
  PROVE  /\ Bytes(a, b) \in Lines /\ Len(Bytes(a, b)) = b - a
         /\ \A i \in 1 .. b - a : Bytes(a, b)[i] = a + i
<1>1. b - a \in Nat /\ \A i \in 1 .. b - a : a + i \in 1 .. MaxOut
  BY BoundsAssumption
<1> QED  BY <1>1 DEF Bytes, Lines

(* What comes next.                                                        *)
LEMMA ShowNext ==
  ASSUME NEW t \in Lines, NEW n \in 0 .. MaxOut, Reaches(t, n), NEW b \in 0 .. MaxOut, n <= b
  PROVE  t \o Bytes(n, b) \in Lines /\ Reaches(t \o Bytes(n, b), b)
<1> DEFINE s == Bytes(n, b)
           u == t \o s
<1>1. s \in Lines /\ Len(s) = b - n /\ \A i \in 1 .. b - n : s[i] = n + i
  BY BytesType
<1> HIDE DEF s
<1>2. /\ u \in Lines /\ Len(u) = Len(t) + (b - n) /\ Len(t) \in Nat
      /\ \A i \in 1 .. Len(t) : u[i] = t[i]
      /\ \A i \in Len(t) + 1 .. Len(t) + (b - n) : u[i] = n + (i - Len(t)) /\ u[i] # gap
  <2>1. /\ u \in Lines /\ Len(u) = Len(t) + (b - n) /\ Len(t) \in Nat
        /\ \A i \in 1 .. Len(t) : u[i] = t[i]
    BY <1>1 DEF Lines
  <2>2. ASSUME NEW i \in Len(t) + 1 .. Len(t) + (b - n)
        PROVE  u[i] = n + (i - Len(t)) /\ u[i] # gap
    <3>1. i - Len(t) \in 1 .. b - n /\ u[i] = s[i - Len(t)]
      BY <1>1, <2>1 DEF Lines
    <3>2. s[i - Len(t)] = n + (i - Len(t)) /\ n + (i - Len(t)) \in Nat
      BY <1>1, <3>1
    <3> QED  BY <3>1, <3>2, NoneAssumption
  <2> QED  BY <2>1, <2>2
<1>3. DOMAIN t = 1 .. Len(t) /\ DOMAIN u = 1 .. Len(t) + (b - n)
  BY <1>2 DEF Lines
<1>4. u = <<>> => b = 0
  BY <1>2 DEF Reaches
<1> HIDE DEF u
<1>5. u # <<>> => u[Len(u)] \in {gap, b}
  <2>1. CASE b = n
    BY <1>2, <1>3, <2>1 DEF Reaches, Lines
  <2>2. CASE b > n
    <3>1. Len(u) \in Len(t) + 1 .. Len(t) + (b - n)
      BY <1>2, <2>2
    <3> QED  BY <1>2, <3>1
  <2> QED  BY <2>1, <2>2
<1>6. ASSUME NEW i \in DOMAIN u, u[i] # gap
      PROVE  /\ u[i] \in 1 .. b
             /\ IF i = 1 THEN u[i] = 1 ELSE u[i - 1] = gap \/ u[i] = u[i - 1] + 1
             /\ \A j \in 1 .. i - 1 : u[j] # gap => u[j] < u[i]
  <2>1. CASE i \in 1 .. Len(t)
    <3>1. \A j \in 1 .. i : u[j] = t[j] /\ j \in DOMAIN t
      BY <1>2, <1>3, <2>1
    <3> QED  BY <1>6, <2>1, <3>1 DEF Reaches
  <2>2. CASE i \notin 1 .. Len(t)
    <3>1. i \in Len(t) + 1 .. Len(t) + (b - n) /\ u[i] = n + (i - Len(t))
      BY <1>2, <1>3, <2>2
    <3>2. u[i] \in 1 .. b
      BY <3>1
    <3>3. IF i = 1 THEN u[i] = 1 ELSE u[i - 1] = gap \/ u[i] = u[i - 1] + 1
      <4>1. CASE i = 1
        <5>1. t = <<>>
          BY <1>2, <3>1, <4>1 DEF Lines
        <5> QED  BY <3>1, <4>1, <5>1 DEF Reaches
      <4>2. CASE i = Len(t) + 1 /\ i # 1
        <5>1. t # <<>> /\ i - 1 \in 1 .. Len(t) /\ u[i - 1] = t[Len(t)]
          BY <1>2, <4>2
        <5> QED  BY <3>1, <4>2, <5>1 DEF Reaches
      <4>3. CASE i > Len(t) + 1
        <5>1. i - 1 \in Len(t) + 1 .. Len(t) + (b - n)
          BY <1>2, <3>1, <4>3
        <5>2. u[i - 1] = n + ((i - 1) - Len(t))
          BY <1>2, <5>1
        <5> QED  BY <1>2, <3>1, <4>3, <5>2
      <4> QED  BY <3>1, <4>1, <4>2, <4>3
    <3>4. ASSUME NEW j \in 1 .. i - 1, u[j] # gap PROVE u[j] < u[i]
      <4>1. CASE j \in 1 .. Len(t)
        <5>1. j \in DOMAIN t /\ u[j] = t[j] /\ t[j] # gap
          BY <1>2, <1>3, <3>4, <4>1
        <5>2. t[j] \in 1 .. n
          BY <5>1 DEF Reaches
        <5> QED  BY <1>2, <3>1, <5>1, <5>2
      <4>2. CASE j \notin 1 .. Len(t)
        <5>1. j \in Len(t) + 1 .. Len(t) + (b - n) /\ j < i
          BY <1>2, <3>1, <4>2
        <5>2. u[j] = n + (j - Len(t))
          BY <1>2, <5>1
        <5> QED  BY <1>2, <3>1, <5>1, <5>2
      <4> QED  BY <4>1, <4>2
    <3> QED  BY <3>2, <3>3, <3>4
  <2> QED  BY <2>1, <2>2
<1>7. u \in Lines
  BY <1>2
<1> QED
  BY <1>4, <1>5, <1>6, <1>7 DEF Reaches, u, s

(* A line that says what is missing.                                       *)
LEMMA ShowGap ==
  ASSUME NEW t \in Lines, NEW n \in 0 .. MaxOut, Reaches(t, n), NEW a \in 0 .. MaxOut, n <= a
  PROVE  t \o <<gap>> \in Lines /\ Reaches(t \o <<gap>>, a)
<1> DEFINE u == t \o <<gap>>
<1>1. /\ u \in Lines /\ Len(u) = Len(t) + 1 /\ Len(t) \in Nat /\ u[Len(t) + 1] = gap
      /\ \A i \in 1 .. Len(t) : u[i] = t[i]
      /\ DOMAIN u = 1 .. Len(t) + 1 /\ DOMAIN t = 1 .. Len(t)
  BY DEF Lines
<1> HIDE DEF u
<1>2. ASSUME NEW i \in DOMAIN u, u[i] # gap
      PROVE  /\ u[i] \in 1 .. a
             /\ IF i = 1 THEN u[i] = 1 ELSE u[i - 1] = gap \/ u[i] = u[i - 1] + 1
             /\ \A j \in 1 .. i - 1 : u[j] # gap => u[j] < u[i]
  <2>1. i \in 1 .. Len(t) /\ \A j \in 1 .. i : u[j] = t[j] /\ j \in DOMAIN t
    BY <1>1, <1>2
  <2> QED  BY <1>2, <2>1 DEF Reaches
<1>3. u # <<>> /\ u[Len(u)] = gap
  BY <1>1
<1> QED
  BY <1>1, <1>2, <1>3 DEF Reaches, u

LEMMA OnlyGap == ASSUME NEW n \in 0 .. MaxOut PROVE <<gap>> \in Lines /\ Reaches(<<gap>>, n)
  BY DEF Reaches, Lines

LEMMA Nothing == <<>> \in Lines /\ Reaches(<<>>, 0)
  BY DEF Reaches, Lines

-----------------------------------------------------------------------------
(* Chunks have their two ends in order, and a relay has a screen to write  *)
(* to.                                                                     *)
Pieces == {f \in Frame : f.from <= f.to}

NetTypes ==
  /\ out \in 0 .. MaxOut /\ peer \in Seq(Pieces) \cup {None} /\ asked \in BOOLEAN
  /\ wconn \in 0 .. MaxConn /\ dialled \in Conns /\ synced \subseteq Conns
  /\ link \in [Conns -> BOOLEAN] /\ up \in [Conns -> Seq(Pieces)]
  /\ crashes \in 0 .. MaxCrash /\ boots \in 0 .. MaxBoot

RelayTypes ==
  /\ known \subseteq Conns /\ bound \in 0 .. MaxConn
  /\ queue \in [Conns -> Seq(Pieces)] /\ written \in [Conns -> Pieces \cup {None}]
  /\ screen \in Piece \cup {None} /\ (screen # None => screen.from <= screen.to)
  /\ screen = None => bound = 0 /\ \A e \in Conns : queue[e] = <<>>

TabTypes ==
  /\ sub \in BOOLEAN /\ wire \in Seq(Pieces) /\ held \in Seq(Pieces)
  /\ tab \in {"none", "asked", "answered", "live"}
  /\ answer \in Piece \cup {None} /\ (answer # None => answer.from <= answer.to)
  /\ last \in 0 .. MaxOut \cup {None} /\ term \in Lines

Types == NetTypes /\ RelayTypes /\ TabTypes

LEMMA ChunkType ==
  ASSUME NEW k \in {"data", "snap", "sync"}, NEW a \in 0 .. MaxOut, NEW b \in 0 .. MaxOut, a <= b
  PROVE  Chunk(k, a, b) \in Pieces
  BY DEF Chunk, Pieces, Frame

LEMMA FloorType == ASSUME NEW n \in 0 .. MaxOut PROVE Floor(n) \in 0 .. MaxOut /\ Floor(n) <= n
  BY CapAssumption, BoundsAssumption DEF Floor

LEMMA InitTypes == ASSUME Init PROVE Types
<1>1. 0 \in 0 .. MaxOut /\ 1 \in Conns /\ 0 \in 0 .. MaxCrash /\ 0 \in 0 .. MaxBoot /\ 1 \in 0 .. MaxConn
  BY BoundsAssumption DEF Conns
<1>2. <<Chunk("snap", 0, 0)>> \in Seq(Pieces)
  BY <1>1, ChunkType
<1>3. NetTypes
  <2>1. up \in [Conns -> Seq(Pieces)] /\ link \in [Conns -> BOOLEAN]
    BY DEF Init
  <2> QED  BY <1>1, <1>2, <2>1 DEF Init, NetTypes
<1>4. RelayTypes
  <2>1. queue \in [Conns -> Seq(Pieces)] /\ written \in [Conns -> Pieces \cup {None}]
    BY DEF Init
  <2>2. screen \in Piece /\ screen.from = 0 /\ screen.to = 0
    BY <1>1 DEF Init, Piece
  <2>3. screen # None
    BY <2>2, NoneAssumption
  <2> QED  BY <1>1, <2>1, <2>2, <2>3 DEF Init, RelayTypes
<1>5. TabTypes
  BY <1>1 DEF Init, TabTypes, Lines
<1> QED  BY <1>3, <1>4, <1>5 DEF Types

(* A prefix of a queue.                                                    *)
LEMMA PrefixType ==
  ASSUME NEW S, NEW s \in Seq(S), NEW k \in 0 .. Len(s)
  PROVE  SubSeq(s, 1, k) \in Seq(S)
  OBVIOUS

(* What WriteAt and Seed leave on the screen.                              *)
LEMMA NewScreen ==
  ASSUME RelayTypes, screen # None, NEW c \in Pieces, IsNew(screen, c)
  PROVE  /\ Seeded(c) \in Piece /\ Seeded(c).from <= Seeded(c).to
         /\ Written(screen, c) \in Piece /\ Written(screen, c).from <= Written(screen, c).to
<1>1. /\ c.from \in 0 .. MaxOut /\ c.to \in 0 .. MaxOut /\ c.from <= c.to
      /\ screen.from \in 0 .. MaxOut /\ screen.to \in 0 .. MaxOut
      /\ screen.from <= screen.to /\ screen.to < c.to
  BY DEF Pieces, Frame, RelayTypes, Piece, IsNew
<1>2. Floor(c.to) \in 0 .. MaxOut /\ Floor(c.to) <= c.to
  BY <1>1, FloorType
<1>3. Seeded(c) \in Piece /\ Seeded(c).from <= Seeded(c).to
  BY <1>1 DEF Seeded, Piece
<1>4. Written(screen, c) \in Piece /\ Written(screen, c).from <= Written(screen, c).to
  BY <1>1, <1>2 DEF Written, Piece, Greater
<1> QED  BY <1>3, <1>4

(* The holder, the worker and the network.                                 *)
LEMMA NetStep ==
  ASSUME NetTypes, RelayTypes,
         \/ \E n \in 1 .. 2 : Produce(n)
                \/ Snap \/ Forward \/ Dial \/ EndSession \/ Crash \/ Recover \/ Break
                \/ \E c \in Conns : SendSync(c)
  PROVE  NetTypes' /\ UNCHANGED <<relayVars, tabVars>>
<1>10. UNCHANGED <<relayVars, tabVars>>
  BY DEF Produce, Snap, Forward, Dial, EndSession, Crash, Recover, Break, SendSync
<1> SUFFICES NetTypes'
  BY <1>10
<1>1. ASSUME NEW n \in 1 .. 2, Produce(n) PROVE NetTypes'
  <2>1. out + n \in 0 .. MaxOut
    BY <1>1 DEF Produce, NetTypes
  <2>2. Chunk("data", out, out + n) \in Pieces
    BY <2>1, ChunkType DEF NetTypes
  <2> QED  BY <1>1, <2>1, <2>2 DEF Produce, NetTypes, workerVars, netVars
<1>2. CASE Snap
  <2>1. Chunk("snap", Floor(out), out) \in Pieces
    BY ChunkType, FloorType DEF NetTypes
  <2>2. peer' \in Seq(Pieces)
    BY <1>2, <2>1 DEF Snap, NetTypes
  <2> QED  BY <1>2, <2>2 DEF Snap, NetTypes, workerVars, netVars
<1>3. CASE Forward
  <2>1. Head(peer) \in Pieces /\ Tail(peer) \in Seq(Pieces)
    BY <1>3 DEF Forward, NetTypes
  <2>2. up' \in [Conns -> Seq(Pieces)]
    <3>1. CASE wconn # 0 /\ link[wconn]
      <4>1. wconn \in Conns
        BY <3>1 DEF NetTypes, Conns
      <4>2. Append(up[wconn], Head(peer)) \in Seq(Pieces)
        BY <2>1, <4>1 DEF NetTypes
      <4> QED  BY <1>3, <3>1, <4>1, <4>2 DEF Forward, NetTypes
    <3>2. CASE ~(wconn # 0 /\ link[wconn])
      BY <1>3, <3>2 DEF Forward, NetTypes
    <3> QED  BY <3>1, <3>2
  <2> QED  BY <1>3, <2>1, <2>2 DEF Forward, NetTypes, workerVars
<1>4. CASE Dial
  <2>1. dialled + 1 \in Conns /\ dialled + 1 \in 0 .. MaxConn
    BY <1>4, BoundsAssumption DEF Dial, NetTypes, Conns
  <2> QED  BY <1>4, <2>1 DEF Dial, NetTypes, holderVars
<1>5. CASE EndSession
  BY <1>5, BoundsAssumption DEF EndSession, NetTypes, holderVars, netVars
<1>6. CASE Crash
  <2>1. crashes + 1 \in 0 .. MaxCrash /\ 0 \in 0 .. MaxConn
    BY <1>6, BoundsAssumption DEF Crash, NetTypes
  <2>2. link' \in [Conns -> BOOLEAN]
    BY <1>6 DEF Crash
  <2> QED  BY <1>6, <2>1, <2>2 DEF Crash, NetTypes
<1>7. CASE Recover
  <2>1. Chunk("snap", Floor(out), out) \in Pieces
    BY ChunkType, FloorType DEF NetTypes
  <2>2. <<Chunk("snap", Floor(out), out)>> \in Seq(Pieces)
    BY <2>1
  <2> QED  BY <1>7, <2>2 DEF Recover, NetTypes, workerVars, netVars
<1>8. CASE Break
  <2>1. PICK k \in 0 .. Len(up[wconn]) : up' = [up EXCEPT ![wconn] = SubSeq(@, 1, k)]
    BY <1>8 DEF Break
  <2>2. wconn \in Conns /\ up[wconn] \in Seq(Pieces)
    BY <1>8 DEF Break, NetTypes, Conns
  <2>3. SubSeq(up[wconn], 1, k) \in Seq(Pieces)
    BY <2>2, PrefixType
  <2>4. up' \in [Conns -> Seq(Pieces)] /\ link' \in [Conns -> BOOLEAN]
    BY <1>8, <2>1, <2>3 DEF Break, NetTypes
  <2> QED  BY <1>8, <2>4 DEF Break, NetTypes, workerVars, holderVars
<1>9. ASSUME NEW c \in Conns, SendSync(c) PROVE NetTypes'
  <2>1. Chunk("sync", 0, 0) \in Pieces
    BY ChunkType, BoundsAssumption
  <2>2. up' \in [Conns -> Seq(Pieces)]
    BY <1>9, <2>1 DEF SendSync, NetTypes
  <2> QED  BY <1>9, <2>2 DEF SendSync, NetTypes
<1> QED
  BY <1>1, <1>2, <1>3, <1>4, <1>5, <1>6, <1>7, <1>8, <1>9

(* The supervisor.                                                         *)
LEMMA RelayStep ==
  ASSUME NetTypes, RelayTypes,
         \/ \E c \in Conns : Register(c) \/ Handle(c) \/ RelayWrite(c) \/ RelayPublish(c)
         \/ Detach \/ Boot
  PROVE  NetTypes' /\ RelayTypes'
<1>1. ASSUME NEW c \in Conns, Register(c) PROVE NetTypes' /\ RelayTypes'
  BY <1>1 DEF Register, NetTypes, RelayTypes, holderVars, workerVars, netVars
<1>2. ASSUME NEW c \in Conns, Handle(c) PROVE NetTypes' /\ RelayTypes'
  <2>1. up[c] # <<>> /\ Head(up[c]) \in Pieces /\ up' \in [Conns -> Seq(Pieces)]
    BY <1>2 DEF Handle, NetTypes
  <2>2. NetTypes'
    BY <1>2, <2>1 DEF Handle, NetTypes, holderVars, workerVars
  <2>3. CASE Head(up[c]).kind = "sync"
    <3>1. /\ bound' = c /\ c \in 0 .. MaxConn /\ queue' = queue
          /\ screen' = IF screen = None THEN [from |-> 0, to |-> 0] ELSE screen
          /\ UNCHANGED <<known, written>>
      BY <1>2, <2>3 DEF Handle, Conns
    <3>2. /\ [from |-> 0, to |-> 0] \in Piece /\ [from |-> 0, to |-> 0].from = 0
          /\ [from |-> 0, to |-> 0].to = 0
      BY BoundsAssumption DEF Piece
    <3>3. screen' \in Piece /\ screen'.from <= screen'.to
      BY <3>1, <3>2 DEF RelayTypes
    <3>4. screen' # None
      BY <3>3, NoneAssumption
    <3> QED  BY <2>2, <3>1, <3>3, <3>4 DEF RelayTypes
  <2>4. CASE Head(up[c]).kind # "sync"
    <3>1. /\ UNCHANGED <<known, written, bound, screen>>
          /\ queue' = IF bound = 0 \/ c \notin known THEN queue
                      ELSE [queue EXCEPT ![bound] = Append(@, Head(up[c]))]
      BY <1>2, <2>4 DEF Handle
    <3>2. queue' \in [Conns -> Seq(Pieces)]
      <4>1. CASE bound = 0 \/ c \notin known
        BY <3>1, <4>1 DEF RelayTypes
      <4>2. CASE ~(bound = 0 \/ c \notin known)
        <5>1. bound \in Conns /\ queue[bound] \in Seq(Pieces)
          BY <4>2 DEF RelayTypes, Conns
        <5>2. Append(queue[bound], Head(up[c])) \in Seq(Pieces)
          BY <2>1, <5>1
        <5> QED  BY <3>1, <4>2, <5>2 DEF RelayTypes
      <4> QED  BY <4>1, <4>2
    <3>3. screen = None => queue' = queue
      BY <3>1 DEF RelayTypes
    <3> QED  BY <2>2, <3>1, <3>2, <3>3 DEF RelayTypes
  <2> QED  BY <2>3, <2>4
<1>3. ASSUME NEW e \in Conns, RelayWrite(e) PROVE NetTypes' /\ RelayTypes'
  <2>1. /\ queue[e] # <<>> /\ Head(queue[e]) \in Pieces
        /\ queue' = [queue EXCEPT ![e] = Tail(@)] /\ queue' \in [Conns -> Seq(Pieces)]
        /\ screen # None
    <3>1. queue[e] # <<>> /\ queue[e] \in Seq(Pieces) /\ screen # None
      BY <1>3 DEF RelayWrite, RelayTypes
    <3>2. Head(queue[e]) \in Pieces /\ Tail(queue[e]) \in Seq(Pieces)
      BY <3>1
    <3> QED  BY <1>3, <3>1, <3>2 DEF RelayWrite, RelayTypes
  <2>2. NetTypes' /\ UNCHANGED <<known, bound>>
    BY <1>3 DEF RelayWrite, NetTypes, holderVars, workerVars, netVars
  <2> DEFINE c == Head(queue[e])
  <2>3. CASE ~IsNew(screen, c)
    <3>1. UNCHANGED <<screen, written>>
      BY <1>3, <2>3 DEF RelayWrite
    <3> QED  BY <2>1, <2>2, <3>1 DEF RelayTypes
  <2>4. CASE IsNew(screen, c)
    <3>1. /\ screen' = IF c.kind = "snap" THEN Seeded(c) ELSE Written(screen, c)
          /\ written' = [written EXCEPT ![e] = c]
      BY <1>3, <2>4 DEF RelayWrite
    <3>6. screen' \in Piece /\ screen'.from <= screen'.to
      BY <2>1, <2>4, <3>1, NewScreen
    <3>7. written' \in [Conns -> Pieces \cup {None}]
      BY <2>1, <3>1 DEF RelayTypes
    <3>8. screen' # None
      BY <3>6, NoneAssumption
    <3> QED  BY <2>1, <2>2, <3>6, <3>7, <3>8 DEF RelayTypes
  <2> QED  BY <2>3, <2>4
<1>4. ASSUME NEW e \in Conns, RelayPublish(e) PROVE NetTypes' /\ RelayTypes'
  BY <1>4 DEF RelayPublish, NetTypes, RelayTypes, holderVars, workerVars, netVars
<1>5. CASE Detach
  BY <1>5, BoundsAssumption DEF Detach, NetTypes, RelayTypes, holderVars, workerVars, netVars
<1>6. CASE Boot
  <2>1. boots + 1 \in 0 .. MaxBoot
    BY <1>6, BoundsAssumption DEF Boot, NetTypes
  <2> QED
    BY <1>6, <2>1, BoundsAssumption DEF Boot, NetTypes, RelayTypes, holderVars, workerVars
<1> QED
  BY <1>1, <1>2, <1>3, <1>4, <1>5, <1>6

LEMMA WayTypes == ASSUME NetTypes, RelayTypes, [Next]_vars PROVE NetTypes' /\ RelayTypes'
<1>1. CASE \/ \E n \in 1 .. 2 : Produce(n)
           \/ Snap \/ Forward \/ Dial \/ EndSession \/ Crash \/ Recover \/ Break
           \/ \E c \in Conns : SendSync(c)
  <2>1. NetTypes' /\ UNCHANGED <<relayVars, tabVars>>
    BY <1>1, NetStep
  <2> QED  BY <2>1 DEF RelayTypes, relayVars
<1>2. CASE \/ \E c \in Conns : Register(c) \/ Handle(c) \/ RelayWrite(c) \/ RelayPublish(c)
           \/ Detach \/ Boot
  BY <1>2, RelayStep
<1>3. CASE \/ SocketDown \/ SocketUp \/ Ask \/ TakeSnapshot \/ Restore \/ Hold \/ Purge \/ Show
           \/ UNCHANGED vars
  <2>1. UNCHANGED <<holderVars, workerVars, netVars, relayVars, crashes, boots>>
    BY <1>3 DEF SocketDown, SocketUp, Ask, TakeSnapshot, Restore, Hold, Purge, Show, vars
  <2> QED
    BY <2>1 DEF NetTypes, RelayTypes, holderVars, workerVars, netVars, relayVars
<1> QED  BY <1>1, <1>2, <1>3 DEF Next

-----------------------------------------------------------------------------
(* What is held is shown as one piece where it joins.                      *)
Joined == \A i \in 1 .. Len(held) - 1 : held[i + 1].from = held[i].to

LEMMA BytesJoin ==
  ASSUME NEW a \in 0 .. MaxOut, NEW b \in 0 .. MaxOut, NEW c \in 0 .. MaxOut, a <= b, b <= c
  PROVE  Bytes(a, b) \o Bytes(b, c) = Bytes(a, c)
<1> DEFINE s == Bytes(a, b)
           t == Bytes(b, c)
           u == Bytes(a, c)
<1>1. /\ s \in Lines /\ Len(s) = b - a /\ \A i \in 1 .. b - a : s[i] = a + i
      /\ t \in Lines /\ Len(t) = c - b /\ \A i \in 1 .. c - b : t[i] = b + i
      /\ u \in Lines /\ Len(u) = c - a /\ \A i \in 1 .. c - a : u[i] = a + i
  <2>1. a <= c
    OBVIOUS
  <2> HIDE DEF s, t, u
  <2>2. s \in Lines /\ Len(s) = b - a /\ \A i \in 1 .. b - a : s[i] = a + i
    BY BytesType DEF s
  <2>3. t \in Lines /\ Len(t) = c - b /\ \A i \in 1 .. c - b : t[i] = b + i
    BY BytesType DEF t
  <2>4. u \in Lines /\ Len(u) = c - a /\ \A i \in 1 .. c - a : u[i] = a + i
    BY <2>1, BytesType DEF u
  <2> QED  BY <2>2, <2>3, <2>4
<1> HIDE DEF s, t, u
<1>2. /\ s \o t \in Lines /\ Len(s \o t) = c - a
      /\ \A i \in 1 .. b - a : (s \o t)[i] = s[i]
      /\ \A i \in (b - a) + 1 .. c - a : (s \o t)[i] = t[i - (b - a)]
  BY <1>1 DEF Lines
<1>3. ASSUME NEW i \in 1 .. c - a PROVE (s \o t)[i] = u[i]
  <2>1. CASE i \in 1 .. b - a
    BY <1>1, <1>2, <2>1
  <2>2. CASE i \notin 1 .. b - a
    <3>1. i \in (b - a) + 1 .. c - a /\ i - (b - a) \in 1 .. c - b
      BY <2>2
    <3> QED  BY <1>1, <1>2, <3>1
  <2> QED  BY <2>1, <2>2
<1>4. s \o t = u
  BY <1>1, <1>2, <1>3, SeqEqual DEF Lines
<1> QED  BY <1>4 DEF s, t, u

LEMMA HeldRises ==
  ASSUME TabTypes, Joined
  PROVE  /\ \A i \in DOMAIN held : held[i].from \in 0 .. MaxOut /\ held[i].to \in 0 .. MaxOut /\ held[i].from <= held[i].to
         /\ \A i \in DOMAIN held : held[1].from <= held[i].to
<1>1. \A i \in DOMAIN held : held[i] \in Pieces
  BY DEF TabTypes
<1>2. \A i \in DOMAIN held : held[i].from \in 0 .. MaxOut /\ held[i].to \in 0 .. MaxOut /\ held[i].from <= held[i].to
  BY <1>1 DEF Pieces, Frame
<1> DEFINE T == {n \in Nat : n + 1 \in DOMAIN held => held[1].from <= held[n + 1].to}
<1>3. DOMAIN held = 1 .. Len(held) /\ Len(held) \in Nat
  BY DEF TabTypes
<1>4. 0 \in T
  BY <1>2
<1>5. ASSUME NEW n \in Nat, n \in T PROVE n + 1 \in T
  <2>1. SUFFICES ASSUME (n + 1) + 1 \in DOMAIN held
                 PROVE  held[1].from <= held[(n + 1) + 1].to
    OBVIOUS
  <2>2. n + 1 \in DOMAIN held /\ n + 1 \in 1 .. Len(held) - 1 /\ 1 \in DOMAIN held
    BY <1>3, <2>1
  <2>3. held[1].from <= held[n + 1].to /\ held[(n + 1) + 1].from = held[n + 1].to
    BY <1>5, <2>2 DEF Joined
  <2> QED  BY <1>2, <2>1, <2>2, <2>3
<1> HIDE DEF T
<1>6. Nat \subseteq T
  BY <1>4, <1>5, Induction
<1>7. ASSUME NEW i \in DOMAIN held PROVE held[1].from <= held[i].to
  <2>1. i - 1 \in Nat /\ (i - 1) + 1 = i
    BY <1>3
  <2>2. i - 1 \in T
    BY <1>6, <2>1
  <2> QED  BY <2>1, <2>2 DEF T
<1> QED  BY <1>2, <1>7

(* Without a snapshot.                                                     *)
LEMMA HeldWhole ==
  ASSUME TabTypes, Joined, held # <<>>
  PROVE  ShownHeld(None) = Bytes(held[1].from, held[Len(held)].to)
<1> DEFINE s == [i \in DOMAIN held |-> ShownChunk(i, None)]
<1>1. DOMAIN held = 1 .. Len(held) /\ Len(held) \in Nat \ {0} /\ Len(s) = Len(held)
  BY DEF TabTypes
<1>2. PICK f : Flattens(f, s, Len(s)) /\ FlattenSeq(s) = f[Len(s)]
  BY <1>1, FlattenUnfolds
<1>3. \A i \in DOMAIN held : s[i] = Bytes(held[i].from, held[i].to)
  BY DEF ShownChunk
<1> HIDE DEF s
<1>4. \A i \in DOMAIN held : f[i] = IF i = 1 THEN s[i] ELSE f[i - 1] \o s[i]
  BY <1>1, <1>2 DEF Flattens
<1> DEFINE T == {n \in Nat : n + 1 \in DOMAIN held => f[n + 1] = Bytes(held[1].from, held[n + 1].to)}
<1>5. 0 \in T
  <2>1. 1 \in DOMAIN held
    BY <1>1
  <2> QED  BY <1>3, <1>4, <2>1
<1>6. ASSUME NEW n \in Nat, n \in T PROVE n + 1 \in T
  <2>1. SUFFICES ASSUME (n + 1) + 1 \in DOMAIN held
                 PROVE  f[(n + 1) + 1] = Bytes(held[1].from, held[(n + 1) + 1].to)
    OBVIOUS
  <2>2. n + 1 \in DOMAIN held /\ n + 1 \in 1 .. Len(held) - 1 /\ 1 \in DOMAIN held
        /\ (n + 1) + 1 # 1 /\ ((n + 1) + 1) - 1 = n + 1
    BY <1>1, <2>1
  <2>3. held[(n + 1) + 1].from = held[n + 1].to
    BY <2>2 DEF Joined
  <2>4. f[n + 1] = Bytes(held[1].from, held[n + 1].to)
    BY <1>6, <2>2
  <2>5. f[(n + 1) + 1] = Bytes(held[1].from, held[n + 1].to) \o Bytes(held[n + 1].to, held[(n + 1) + 1].to)
    BY <1>3, <1>4, <2>1, <2>2, <2>3, <2>4
  <2> HIDE DEF T
  <2> QED  BY <2>1, <2>2, <2>3, <2>5, HeldRises, BytesJoin
<1> HIDE DEF T
<1>7. Nat \subseteq T
  BY <1>5, <1>6, Induction
<1>8. Len(held) - 1 \in T /\ (Len(held) - 1) + 1 = Len(held) /\ Len(held) \in DOMAIN held
  BY <1>1, <1>7
<1>9. f[Len(held)] = Bytes(held[1].from, held[Len(held)].to)
  BY <1>8 DEF T
<1>10. FlattenSeq(s) = f[Len(held)]
  BY <1>1, <1>2 DEF s
<1> QED
  BY <1>9, <1>10 DEF ShownHeld, s

(* Behind a snapshot that ends at from.                                    *)
Head1(from) == IF held[1].from > from THEN <<gap>> ELSE <<>>
Later(i, from) ==
  IF held[i].to <= from THEN <<>>
  ELSE Head1(from) \o Bytes(Greater(held[1].from, from), held[i].to)

LEMMA HeldBehind ==
  ASSUME TabTypes, Joined, held # <<>>, NEW from \in 0 .. MaxOut
  PROVE  ShownHeld(from) = Later(Len(held), from)
<1> DEFINE s == [i \in DOMAIN held |-> ShownChunk(i, from)]
<1>1. DOMAIN held = 1 .. Len(held) /\ Len(held) \in Nat \ {0} /\ Len(s) = Len(held)
  BY DEF TabTypes
<1>2. PICK f : Flattens(f, s, Len(s)) /\ FlattenSeq(s) = f[Len(s)]
  BY <1>1, FlattenUnfolds
<1>3. \A i \in DOMAIN held : s[i] = ShownChunk(i, from)
  OBVIOUS
<1> HIDE DEF s
<1>4. \A i \in DOMAIN held : f[i] = IF i = 1 THEN s[i] ELSE f[i - 1] \o s[i]
  BY <1>1, <1>2 DEF Flattens
<1>5. from # None
  BY NoneAssumption, BoundsAssumption
<1>6. Head1(from) \in Lines
  BY OnlyGap, Nothing, BoundsAssumption DEF Head1
<1> DEFINE T == {n \in Nat : n + 1 \in DOMAIN held => f[n + 1] = Later(n + 1, from)}
<1>7. 0 \in T
  <2>1. 1 \in DOMAIN held /\ ~(\E j \in 1 .. 1 - 1 : TRUE)
    BY <1>1
  <2>2. s[1] = Later(1, from)
    BY <1>3, <1>5, <2>1 DEF ShownChunk, Leaves, Later, Head1
  <2> QED  BY <1>4, <2>1, <2>2
<1>8. ASSUME NEW n \in Nat, n \in T PROVE n + 1 \in T
  <2>1. SUFFICES ASSUME (n + 1) + 1 \in DOMAIN held
                 PROVE  f[(n + 1) + 1] = Later((n + 1) + 1, from)
    OBVIOUS
  <2>2. n + 1 \in DOMAIN held /\ n + 1 \in 1 .. Len(held) - 1 /\ 1 \in DOMAIN held
        /\ (n + 1) + 1 # 1 /\ ((n + 1) + 1) - 1 = n + 1 /\ n + 1 \in 1 .. ((n + 1) + 1) - 1
    BY <1>1, <2>1
  <2>3. held[(n + 1) + 1].from = held[n + 1].to
    BY <2>2 DEF Joined
  <2>4. f[n + 1] = Later(n + 1, from)
    BY <1>8, <2>2
  <2>5. f[(n + 1) + 1] = f[n + 1] \o s[(n + 1) + 1]
    BY <1>4, <2>1, <2>2
  <2> HIDE DEF T
  <2> DEFINE a == held[1].from
             b == held[n + 1].to
             c == held[(n + 1) + 1].to
  <2>6. /\ a \in 0 .. MaxOut /\ b \in 0 .. MaxOut /\ c \in 0 .. MaxOut /\ a <= b /\ b <= c
    BY <2>1, <2>2, <2>3, HeldRises
  <2>7. ~Leaves((n + 1) + 1, from)
    BY <2>2, <2>3, <2>6 DEF Leaves
  <2>8. s[(n + 1) + 1] = IF c <= from THEN <<>> ELSE <<>> \o Bytes(Greater(b, from), c)
    BY <1>3, <1>5, <2>1, <2>3, <2>7 DEF ShownChunk
  <2>9. /\ Later(n + 1, from) = IF b <= from THEN <<>> ELSE Head1(from) \o Bytes(Greater(a, from), b)
        /\ Later((n + 1) + 1, from) = IF c <= from THEN <<>> ELSE Head1(from) \o Bytes(Greater(a, from), c)
    BY DEF Later
  <2>10. a > from <=> Head1(from) # <<>>
    BY DEF Head1
  <2> HIDE DEF a, b, c
  <2>11. CASE c <= from
    <3>1. b <= from
      BY <2>6, <2>11
    <3>2. f[n + 1] = <<>> /\ s[(n + 1) + 1] = <<>>
      BY <2>4, <2>8, <2>9, <2>11, <3>1
    <3> QED  BY <2>5, <2>9, <2>11, <3>2
  <2>12. CASE c > from /\ b <= from
    <3>1. a <= from /\ Greater(a, from) = from /\ Greater(b, from) = from
      BY <2>6, <2>12 DEF Greater
    <3>2. Bytes(from, c) \in Lines
      BY <2>6, <2>12, BytesType
    <3>3. f[n + 1] = <<>> /\ s[(n + 1) + 1] = <<>> \o Bytes(from, c) /\ Head1(from) = <<>>
      BY <2>4, <2>6, <2>8, <2>9, <2>10, <2>12, <3>1
    <3>4. <<>> \o Bytes(from, c) = Bytes(from, c)
      BY <3>2 DEF Lines
    <3>5. f[(n + 1) + 1] = <<>> \o Bytes(from, c)
      BY <2>5, <3>3, <3>4
    <3>6. Later((n + 1) + 1, from) = <<>> \o Bytes(from, c)
      BY <2>6, <2>9, <2>12, <3>1, <3>3
    <3> QED  BY <3>5, <3>6
  <2>13. CASE b > from
    <3>1. c > from /\ Greater(b, from) = b
      BY <2>6, <2>13 DEF Greater
    <3> DEFINE g == Greater(a, from)
    <3>2. g \in 0 .. MaxOut /\ g <= b
      BY <2>6, <2>13 DEF Greater
    <3>9. Greater(a, from) = g
      OBVIOUS
    <3> HIDE DEF g
    <3>3. Bytes(g, b) \in Lines /\ Bytes(b, c) \in Lines
      BY <2>6, <3>2, BytesType
    <3>10. ~(b <= from) /\ ~(c <= from)
      BY <2>6, <2>13, <3>1
    <3>4. f[n + 1] = Head1(from) \o Bytes(g, b) /\ s[(n + 1) + 1] = <<>> \o Bytes(b, c)
      BY <2>4, <2>8, <2>9, <3>1, <3>9, <3>10
    <3>5. <<>> \o Bytes(b, c) = Bytes(b, c)
      BY <3>3 DEF Lines
    <3>6. Bytes(g, b) \o Bytes(b, c) = Bytes(g, c)
      BY <2>6, <3>2, BytesJoin
    <3>7. (Head1(from) \o Bytes(g, b)) \o Bytes(b, c) = Head1(from) \o (Bytes(g, b) \o Bytes(b, c))
      BY <1>6, <3>3, ConcatAssociative DEF Lines
    <3>8. Later((n + 1) + 1, from) = Head1(from) \o Bytes(g, c)
      BY <2>9, <3>9, <3>10
    <3> QED  BY <2>5, <3>4, <3>5, <3>6, <3>7, <3>8
  <2> QED  BY <2>6, <2>11, <2>12, <2>13
<1> HIDE DEF T
<1>9. Nat \subseteq T
  BY <1>7, <1>8, Induction
<1>10. Len(held) - 1 \in T /\ (Len(held) - 1) + 1 = Len(held) /\ Len(held) \in DOMAIN held
  BY <1>1, <1>9
<1>11. f[Len(held)] = Later(Len(held), from)
  BY <1>10 DEF T
<1>12. FlattenSeq(s) = f[Len(held)]
  BY <1>1, <1>2 DEF s
<1> QED
  BY <1>11, <1>12 DEF ShownHeld, s

-----------------------------------------------------------------------------
(* The windows seam and behind are shut: what a tab holds joins, and does  *)
(* not end before the snapshot it waits for.                               *)
Joins == {"seam", "behind"} \cap Windows = {}

(* The tab keeps one piece until it has a terminal; then the terminal has  *)
(* been written up to lastOff, or shows only a line.                       *)
Shown ==
  /\ Joined
  /\ tab # "live" => term = <<>>
  /\ tab = "live" => IF last = None THEN term = <<gap>> ELSE Reaches(term, last)

LEMMA InitShown == ASSUME Init PROVE Shown
<1>1. held = <<>> /\ tab = "none" /\ term = <<>>
  BY DEF Init
<1>2. Joined
  BY <1>1 DEF Joined
<1> QED  BY <1>1, <1>2 DEF Shown

(* The snapshot, or the line in its place.                                 *)
LEMMA SnapshotShown ==
  ASSUME TabTypes, answer # None
  PROVE  /\ answer.to \in 0 .. MaxOut
         /\ ShownSnapshot(answer) \in Lines /\ Reaches(ShownSnapshot(answer), answer.to)
<1>1. answer.from \in 0 .. MaxOut /\ answer.to \in 0 .. MaxOut /\ answer.from <= answer.to
  BY DEF TabTypes, Piece
<1> DEFINE b == Bytes(answer.from, answer.to)
<1>2. CASE answer.from > 0
  <2>1. ShownSnapshot(answer) = <<gap>> \o b
    BY <1>2 DEF ShownSnapshot
  <2>2. <<gap>> \o b \in Lines /\ Reaches(<<gap>> \o b, answer.to)
    BY <1>1, OnlyGap, ShowNext
  <2> QED  BY <1>1, <2>1, <2>2
<1>3. CASE ~(answer.from > 0)
  <2>1. answer.from = 0
    BY <1>1, <1>3
  <2>2. ShownSnapshot(answer) = <<>> \o b
    BY <1>3 DEF ShownSnapshot
  <2>3. <<>> \o Bytes(0, answer.to) \in Lines /\ Reaches(<<>> \o Bytes(0, answer.to), answer.to)
    BY <1>1, <2>1, Nothing, ShowNext
  <2> QED  BY <1>1, <2>1, <2>2, <2>3
<1> QED  BY <1>2, <1>3

(* What the terminal gets behind a snapshot: nothing, what continues it,   *)
(* or a line and what was held.                                            *)
LEMMA RestoreTerm ==
  ASSUME TabTypes, Joined, Joins, Restore, answer # None
  PROVE  /\ last' \in 0 .. MaxOut /\ answer.to <= last'
         /\ last' = IF held = <<>> THEN answer.to ELSE held[Len(held)].to
         /\ \/ term' = ShownSnapshot(answer) /\ last' = answer.to
            \/ term' = ShownSnapshot(answer) \o Bytes(answer.to, last')
            \/ /\ held # <<>> /\ answer.to < held[1].from /\ held[1].from <= last'
               /\ term' = (ShownSnapshot(answer) \o <<gap>>) \o Bytes(held[1].from, last')
<1> DEFINE s == ShownSnapshot(answer)
           a == answer.to
           n == Len(held)
<1>1. /\ term' = s \o ShownHeld(a) /\ last' = LastHeld(a)
  BY DEF Restore
<1>2. a \in 0 .. MaxOut /\ s \in Lines
  BY SnapshotShown
<1>3. held = <<>> => ShownHeld(a) = <<>> /\ LastHeld(a) = a
  BY DEF ShownHeld, FlattenSeq, LastHeld
<1>4. held # <<>> => /\ n \in DOMAIN held /\ 1 \in DOMAIN held /\ LastHeld(a) = held[n].to
                     /\ held[1].from \in 0 .. MaxOut /\ held[n].to \in 0 .. MaxOut
                     /\ held[1].from <= held[n].to
  <2>1. held # <<>> => n \in DOMAIN held /\ 1 \in DOMAIN held
    BY DEF TabTypes
  <2> QED  BY <2>1, HeldRises DEF LastHeld, Last
<1>5. held # <<>> => a <= held[n].to
  <2>1. held # <<>> => ~(Last(held).to < answer.to)
    BY DEF Restore, Behind, Joins
  <2> QED  BY <1>2, <1>4, <2>1 DEF Last
<1> HIDE DEF s, a, n
<1>6. CASE held = <<>>
  <2>1. term' = s \o <<>> /\ last' = a
    BY <1>1, <1>3, <1>6
  <2>2. term' = s
    BY <1>2, <2>1 DEF Lines
  <2> QED  BY <1>2, <1>6, <2>1, <2>2 DEF s, a
<1>7. CASE held # <<>>
  <2>1. ShownHeld(a) = Later(n, a)
    BY <1>2, <1>7, HeldBehind DEF n
  <2>2. last' = held[n].to /\ last' \in 0 .. MaxOut /\ a <= last'
    BY <1>1, <1>4, <1>5, <1>7
  <2>3. CASE held[n].to <= a
    <3>1. ShownHeld(a) = <<>> /\ last' = a
      BY <1>2, <2>1, <2>2, <2>3 DEF Later
    <3>2. term' = s
      BY <1>1, <1>2, <3>1 DEF Lines
    <3> QED  BY <1>2, <1>7, <2>2, <3>1, <3>2 DEF s, a, n
  <2>4. CASE ~(held[n].to <= a)
    <3> DEFINE g == Greater(held[1].from, a)
    <3>1. g \in 0 .. MaxOut /\ g <= held[n].to /\ a <= g
      BY <1>2, <1>4, <1>7, <2>4 DEF Greater
    <3>2. term' = s \o (Head1(a) \o Bytes(g, last'))
      BY <1>1, <2>1, <2>2, <2>4 DEF Later
    <3>3. IF held[1].from > a THEN g = held[1].from ELSE g = a
      BY DEF Greater
    <3> HIDE DEF g
    <3>4. Bytes(g, last') \in Lines
      BY <1>4, <1>7, <2>2, <3>1, BytesType
    <3>5. CASE held[1].from > a
      <4>1. Head1(a) = <<gap>> /\ <<gap>> \in Lines
        BY <1>2, <3>5, OnlyGap DEF Head1
      <4>2. term' = (s \o <<gap>>) \o Bytes(g, last')
        BY <1>2, <3>2, <3>4, <4>1, ConcatAssociative DEF Lines
      <4>3. g = held[1].from /\ a < held[1].from /\ held[1].from <= last'
        BY <1>2, <1>4, <1>7, <2>2, <3>1, <3>3, <3>5
      <4> QED  BY <1>7, <2>2, <4>2, <4>3 DEF s, a, n
    <3>6. CASE ~(held[1].from > a)
      <4>1. Head1(a) = <<>> /\ g = a
        BY <3>3, <3>6 DEF Head1
      <4>2. <<>> \o Bytes(g, last') = Bytes(g, last')
        BY <3>4 DEF Lines
      <4>3. term' = s \o Bytes(a, last')
        BY <3>2, <4>1, <4>2
      <4> QED  BY <1>7, <2>2, <4>3 DEF s, a, n
    <3> QED  BY <3>5, <3>6
  <2> QED  BY <2>3, <2>4
<1> QED  BY <1>6, <1>7

LEMMA RestoreShown == ASSUME TabTypes, Shown, Joins, Restore PROVE TabTypes' /\ Shown'
<1>1. /\ answer' = None /\ held' = <<>> /\ tab' = "live" /\ sub' = sub /\ wire' = wire
  BY DEF Restore
<1>2. Joined /\ Joined'
  BY <1>1 DEF Shown, Joined
<1>3. SUFFICES /\ last' \in 0 .. MaxOut \cup {None} /\ term' \in Lines
               /\ IF last' = None THEN term' = <<gap>> ELSE Reaches(term', last')
  BY <1>1, <1>2 DEF TabTypes, Shown
<1>4. \A k \in 0 .. MaxOut : k # None
  BY NoneAssumption, BoundsAssumption
<1>5. CASE answer = None
  <2>1. term' = <<gap>> \o ShownHeld(None) /\ last' = LastHeld(None)
    BY <1>5 DEF Restore, ShownSnapshot
  <2>2. CASE held = <<>>
    <3>1. term' = <<gap>> \o <<>> /\ last' = None
      BY <2>1, <2>2 DEF ShownHeld, FlattenSeq, LastHeld
    <3>2. term' = <<gap>>
      BY <3>1
    <3>3. <<gap>> \in Lines
      BY OnlyGap, BoundsAssumption
    <3> QED  BY <3>1, <3>2, <3>3
  <2>3. CASE held # <<>>
    <3> DEFINE n == Len(held)
    <3>1. n \in DOMAIN held /\ 1 \in DOMAIN held
      BY <2>3 DEF TabTypes
    <3>2. /\ LastHeld(None) = held[n].to /\ held[1].from \in 0 .. MaxOut
          /\ held[n].to \in 0 .. MaxOut /\ held[1].from <= held[n].to
      BY <1>2, <2>3, <3>1, HeldRises DEF LastHeld, Last
    <3>3. ShownHeld(None) = Bytes(held[1].from, held[n].to)
      BY <1>2, <2>3, HeldWhole
    <3> HIDE DEF n
    <3>4. term' \in Lines /\ Reaches(term', last')
      BY <2>1, <3>2, <3>3, OnlyGap, ShowNext
    <3> QED  BY <1>4, <2>1, <3>2, <3>4
  <2> QED  BY <2>2, <2>3
<1>6. CASE answer # None
  <2> DEFINE s == ShownSnapshot(answer)
             a == answer.to
  <2>1. a \in 0 .. MaxOut /\ s \in Lines /\ Reaches(s, a)
    BY <1>6, SnapshotShown
  <2>2. /\ last' \in 0 .. MaxOut /\ a <= last'
        /\ \/ term' = s /\ last' = a
           \/ term' = s \o Bytes(a, last')
           \/ /\ held # <<>> /\ a < held[1].from /\ held[1].from <= last'
              /\ term' = (s \o <<gap>>) \o Bytes(held[1].from, last')
    BY <1>2, <1>6, RestoreTerm
  <2> HIDE DEF s, a
  <2>3. SUFFICES term' \in Lines /\ Reaches(term', last')
    BY <1>4, <2>2
  <2>4. CASE term' = s /\ last' = a
    BY <2>1, <2>4
  <2>5. CASE term' = s \o Bytes(a, last')
    BY <2>1, <2>2, <2>5, ShowNext
  <2>6. CASE /\ held # <<>> /\ a < held[1].from /\ held[1].from <= last'
             /\ term' = (s \o <<gap>>) \o Bytes(held[1].from, last')
    <3>1. held[1].from \in 0 .. MaxOut
      BY <1>2, <2>6, HeldRises DEF TabTypes
    <3>2. s \o <<gap>> \in Lines /\ Reaches(s \o <<gap>>, held[1].from)
      BY <2>1, <2>6, <3>1, ShowGap
    <3> QED  BY <2>2, <2>6, <3>1, <3>2, ShowNext
  <2> QED  BY <2>2, <2>4, <2>5, <2>6
<1> QED  BY <1>5, <1>6

LEMMA ShowShown == ASSUME TabTypes, Shown, Show PROVE TabTypes' /\ Shown'
<1> DEFINE c == Head(wire)
<1>1. /\ wire # <<>> /\ tab = "live" /\ wire' = Tail(wire)
      /\ UNCHANGED <<sub, tab, answer, held>>
      /\ IF IsShown(c) THEN UNCHANGED <<last, term>>
         ELSE /\ last' = c.to
              /\ term' = term \o (IF Skips(c) THEN <<gap>> ELSE <<>>) \o Bytes(CutAt(c), c.to)
  BY DEF Show
<1>2. c \in Pieces /\ wire' \in Seq(Pieces)
  BY <1>1 DEF TabTypes
<1>3. c.from \in 0 .. MaxOut /\ c.to \in 0 .. MaxOut /\ c.from <= c.to
  BY <1>2 DEF Pieces, Frame
<1> HIDE DEF c
<1>4. \A k \in 0 .. MaxOut : k # None
  BY NoneAssumption, BoundsAssumption
<1>5. Joined'
  BY <1>1 DEF Shown, Joined
<1>6. CASE IsShown(c)
  BY <1>1, <1>2, <1>5, <1>6 DEF TabTypes, Shown
<1>7. CASE ~IsShown(c)
  <2>1. last' = c.to /\ last' # None
    BY <1>1, <1>3, <1>4, <1>7
  <2>2. SUFFICES term' \in Lines /\ Reaches(term', c.to)
    BY <1>1, <1>2, <1>3, <1>5, <2>1 DEF TabTypes, Shown
  <2>3. term \in Lines /\ term \o <<>> = term
    BY DEF TabTypes, Lines
  <2>4. CASE last = None
    <3>1. term = <<gap>> /\ term' = <<gap>> \o <<>> \o Bytes(c.from, c.to)
      BY <1>1, <1>7, <2>4 DEF Shown, Skips, CutAt
    <3>2. term' = <<gap>> \o Bytes(c.from, c.to)
      BY <2>3, <3>1
    <3> QED  BY <1>3, <3>2, OnlyGap, ShowNext
  <2>5. CASE last # None
    <3>1. last \in 0 .. MaxOut /\ Reaches(term, last) /\ last < c.to
      BY <1>1, <1>3, <1>7, <2>5 DEF TabTypes, Shown, IsShown
    <3>2. CASE Skips(c)
      <4>1. last < c.from /\ CutAt(c) = c.from
        BY <1>3, <2>5, <3>1, <3>2 DEF Skips, CutAt
      <4>2. term' = (term \o <<gap>>) \o Bytes(c.from, c.to)
        BY <1>1, <1>7, <3>2, <4>1
      <4>3. term \o <<gap>> \in Lines /\ Reaches(term \o <<gap>>, c.from)
        BY <1>3, <2>3, <3>1, <4>1, ShowGap
      <4> QED  BY <1>3, <4>2, <4>3, ShowNext
    <3>3. CASE ~Skips(c)
      <4>1. CutAt(c) = last
        BY <1>3, <2>5, <3>1, <3>3 DEF Skips, CutAt
      <4>2. term' = term \o Bytes(last, c.to)
        BY <1>1, <1>7, <2>3, <3>3, <4>1
      <4> QED  BY <1>3, <2>3, <3>1, <4>2, ShowNext
    <3> QED  BY <3>2, <3>3
  <2> QED  BY <2>4, <2>5
<1> QED  BY <1>6, <1>7

LEMMA HoldShown == ASSUME TabTypes, Shown, Joins, Hold PROVE TabTypes' /\ Shown'
<1>1. /\ wire # <<>> /\ tab # "live" /\ held' = Append(held, Head(wire)) /\ wire' = Tail(wire)
      /\ held # <<>> => Last(held).to = Head(wire).from
      /\ UNCHANGED <<sub, tab, answer, last, term>>
  BY DEF Hold, Joins
<1>2. Head(wire) \in Pieces /\ wire' \in Seq(Pieces) /\ held' \in Seq(Pieces)
  BY <1>1 DEF TabTypes
<1>3. /\ Len(held) \in Nat /\ Len(held') = Len(held) + 1
      /\ \A i \in 1 .. Len(held) : held'[i] = held[i]
      /\ held'[Len(held) + 1] = Head(wire)
  BY <1>1, <1>2 DEF TabTypes
<1>4. ASSUME NEW i \in 1 .. Len(held') - 1 PROVE held'[i + 1].from = held'[i].to
  <2>1. CASE i \in 1 .. Len(held) - 1
    <3>1. i \in 1 .. Len(held) /\ i + 1 \in 1 .. Len(held)
      BY <1>3, <2>1
    <3> QED  BY <1>3, <2>1, <3>1 DEF Shown, Joined
  <2>2. CASE i \notin 1 .. Len(held) - 1
    <3>1. i = Len(held) /\ i \in 1 .. Len(held) /\ held # <<>>
      BY <1>3, <2>2 DEF TabTypes
    <3> QED  BY <1>1, <1>3, <3>1 DEF Last
  <2> QED  BY <2>1, <2>2
<1> QED
  BY <1>1, <1>2, <1>4 DEF TabTypes, Shown, Joined

LEMMA PurgeShown == ASSUME TabTypes, Shown, Purge PROVE TabTypes' /\ Shown'
<1>1. PICK k \in 1 .. Len(held) : held' = SubSeq(held, k + 1, Len(held))
  BY DEF Purge
<1>2. UNCHANGED <<sub, wire, tab, answer, last, term>>
  BY DEF Purge
<1>3. /\ held' \in Seq(Pieces) /\ Len(held') = Len(held) - k /\ Len(held) \in Nat
      /\ \A i \in 1 .. Len(held) - k : held'[i] = held[k + i]
  BY <1>1 DEF TabTypes
<1>4. ASSUME NEW i \in 1 .. Len(held') - 1 PROVE held'[i + 1].from = held'[i].to
  <2>1. /\ i \in 1 .. Len(held) - k /\ i + 1 \in 1 .. Len(held) - k
        /\ k + i \in 1 .. Len(held) - 1 /\ k + (i + 1) = (k + i) + 1
    BY <1>3
  <2> QED  BY <1>3, <2>1 DEF Shown, Joined
<1> QED
  BY <1>2, <1>3, <1>4 DEF TabTypes, Shown, Joined

(* What only queues it, or takes it off.                                   *)
LEMMA TabKept ==
  ASSUME TabTypes, Shown, UNCHANGED <<held, last, term>>,
         sub' \in BOOLEAN, wire' \in Seq(Pieces), answer' \in Piece \cup {None},
         answer' # None => answer'.from <= answer'.to,
         tab' \in {"none", "asked", "answered", "live"}, (tab' = "live") <=> (tab = "live")
  PROVE  TabTypes' /\ Shown'
  BY DEF TabTypes, Shown, Joined

LEMMA TabStep == ASSUME Types, Shown, Joins, [Next]_vars PROVE TabTypes' /\ Shown'
<1> USE DEF Types
<1>1. CASE UNCHANGED tabVars
  BY <1>1, TabKept DEF tabVars, TabTypes
<1>2. ASSUME NEW e \in Conns, RelayPublish(e) PROVE TabTypes' /\ Shown'
  <2>1. written[e] \in Pieces
    BY <1>2 DEF RelayPublish, RelayTypes
  <2>2. wire' \in Seq(Pieces)
    BY <1>2, <2>1 DEF RelayPublish, TabTypes
  <2> QED  BY <1>2, <2>2, TabKept DEF RelayPublish, TabTypes
<1>3. CASE Boot \/ SocketDown \/ SocketUp \/ Ask
  <2>4. UNCHANGED <<held, last, term>>
    BY <1>3 DEF Boot, SocketDown, SocketUp, Ask
  <2>5. sub' \in {sub, TRUE, FALSE} /\ wire' \in {wire, <<>>}
    BY <1>3 DEF Boot, SocketDown, SocketUp, Ask
  <2>6. sub' \in BOOLEAN
    BY <2>5 DEF TabTypes
  <2>1. wire' \in Seq(Pieces)
    <3>1. wire \in Seq(Pieces) /\ <<>> \in Seq(Pieces)
      BY DEF TabTypes
    <3> QED  BY <2>5, <3>1
  <2>2. answer' \in {answer, None}
    BY <1>3 DEF Boot, SocketDown, SocketUp, Ask
  <2>3. tab' \in {"none", "asked", "answered", "live"} /\ ((tab' = "live") <=> (tab = "live"))
    BY <1>3 DEF Boot, SocketDown, SocketUp, Ask, TabTypes
  <2> QED  BY <2>1, <2>2, <2>3, <2>4, <2>6, TabKept DEF TabTypes
<1>4. CASE TakeSnapshot
  <2>1. UNCHANGED <<held, last, term, sub, wire>> /\ answer' = screen /\ tab' = "answered" /\ tab = "asked"
    BY <1>4 DEF TakeSnapshot
  <2> QED  BY <2>1, TabKept DEF TabTypes, RelayTypes
<1>5. CASE Restore
  BY <1>5, RestoreShown
<1>6. CASE Hold
  BY <1>6, HoldShown
<1>7. CASE Purge
  BY <1>7, PurgeShown
<1>8. CASE Show
  BY <1>8, ShowShown
<1>9. \/ UNCHANGED tabVars
      \/ \E e \in Conns : RelayPublish(e)
      \/ Boot \/ SocketDown \/ SocketUp \/ Ask \/ TakeSnapshot \/ Restore \/ Hold \/ Purge \/ Show
  BY DEF Next, vars, Produce, Snap, Forward, Dial, EndSession, Crash, Recover, Break, Register,
     SendSync, Handle, RelayWrite, Detach
<1> QED
  BY <1>1, <1>2, <1>3, <1>4, <1>5, <1>6, <1>7, <1>8, <1>9

LEMMA ShownHolds == ASSUME Joins PROVE Spec => [](Types /\ Shown)
<1>1. Init => Types /\ Shown
  BY InitTypes, InitShown
<1>2. ASSUME Types, Shown, [Next]_vars PROVE Types' /\ Shown'
  <2>1. TabTypes' /\ Shown'
    BY <1>2, TabStep
  <2>2. NetTypes' /\ RelayTypes'
    BY <1>2, WayTypes DEF Types
  <2> QED  BY <2>1, <2>2 DEF Types
<1> QED
  BY <1>1, <1>2, PTL DEF Spec

(* However connections, programs and sockets fail and whatever the tab     *)
(* drops, the terminal never hides that output is missing: each byte       *)
(* follows the one before it or a line that says so.                       *)
THEOREM GapsMarked == ASSUME Joins PROVE Spec => []GapsAreMarked
<1>1. ASSUME Types, Shown PROVE GapsAreMarked
  <2>1. \/ term = <<>>
        \/ term = <<gap>>
        \/ last \in 0 .. MaxOut /\ Reaches(term, last)
    BY <1>1 DEF Types, TabTypes, Shown
  <2>2. CASE term = <<>>
    BY <2>2 DEF GapsAreMarked, Places
  <2>3. CASE term = <<gap>>
    BY <2>3 DEF GapsAreMarked, Places
  <2>4. CASE Reaches(term, last)
    BY <2>4 DEF GapsAreMarked, Places, Reaches
  <2> QED  BY <2>1, <2>2, <2>3, <2>4
<1> QED
  BY ShownHolds, <1>1, PTL

(* No byte is shown twice or after a later one, wherever the snapshot, the *)
(* chunks held and the live ones overlap.                                  *)
THEOREM OnceShown == ASSUME Joins PROVE Spec => []ShownOnce
<1>1. ASSUME Types, Shown PROVE ShownOnce
  <2>1. \/ term = <<>>
        \/ term = <<gap>>
        \/ last \in 0 .. MaxOut /\ Reaches(term, last)
    BY <1>1 DEF Types, TabTypes, Shown
  <2>2. CASE term = <<>>
    BY <2>2 DEF ShownOnce, Places
  <2>3. CASE term = <<gap>>
    BY <2>3 DEF ShownOnce, Places
  <2>4. CASE Reaches(term, last)
    <3>1. ASSUME NEW i \in Places, NEW j \in Places, i < j PROVE term[i] < term[j]
      <4>1. i \in DOMAIN term /\ j \in DOMAIN term /\ term[i] # gap /\ term[j] # gap
        BY DEF Places
      <4>2. i \in 1 .. j - 1
        BY <3>1, <4>1, <1>1 DEF Types, TabTypes, Lines
      <4> QED  BY <2>4, <4>1, <4>2 DEF Reaches
    <3> QED  BY <3>1 DEF ShownOnce
  <2> QED  BY <2>1, <2>2, <2>3, <2>4
<1> QED
  BY ShownHolds, <1>1, PTL

-----------------------------------------------------------------------------
(* The way of the output from the holder to the supervisor's screen: what  *)
(* is on it joins without a gap, whatever breaks.                          *)

(* A frame follows another if the screen, once it has the one, takes the   *)
(* other without a gap: after a sync that is a snapshot.                   *)
Follows(g, f) ==
  \/ f.kind = "snap"
  \/ g.kind # "sync" /\ (f.kind = "data" => f.from <= g.to)

(* A frame is of what was written up to n; a snapshot has all that a       *)
(* screen keeps of it.                                                     *)
Sound(f, n) == f.to <= n /\ (f.kind = "snap" => f.from = Floor(f.to))

Plain(s) == \A i \in 1 .. Len(s) : s[i].kind # "sync"
OneSync(s) == \A i, j \in 1 .. Len(s) : s[i].kind = "sync" /\ s[j].kind = "sync" => i = j
Linked(s, n) ==
  /\ \A i \in 1 .. Len(s) : Sound(s[i], n)
  /\ \A i \in 1 .. Len(s) - 1 : Follows(s[i], s[i + 1])

LEMMA FloorRises ==
  ASSUME NEW a \in Nat, NEW b \in Nat, a <= b
  PROVE  Floor(a) \in Nat /\ Floor(a) <= Floor(b)
BY CapAssumption DEF Floor

LEMMA FollowsOn ==
  ASSUME NEW f \in Pieces, NEW g \in Pieces, NEW h \in Pieces,
         h.kind # "sync", g.to <= h.to, Follows(g, f)
  PROVE  Follows(h, f)
<1>1. f.from \in Nat /\ g.to \in Nat /\ h.to \in Nat
  BY BoundsAssumption DEF Pieces, Frame
<1>2. f.kind # "snap" => g.kind # "sync" /\ (f.kind = "data" => f.from <= g.to)
  BY DEF Follows
<1>3. f.kind # "snap" => (f.kind = "data" => f.from <= h.to)
  BY <1>1, <1>2
<1> QED  BY <1>3 DEF Follows

LEMMA LinkedLater ==
  ASSUME NEW s \in Seq(Pieces), NEW n \in Nat, NEW m \in Nat, n <= m, Linked(s, n)
  PROVE  Linked(s, m)
<1>1. \A i \in 1 .. Len(s) : s[i].to \in Nat
  BY DEF Pieces, Frame
<1> QED  BY <1>1 DEF Linked, Sound

LEMMA LinkedEmpty ==
  ASSUME NEW n PROVE Linked(<<>>, n) /\ Plain(<<>>) /\ OneSync(<<>>)
BY DEF Linked, Plain, OneSync

LEMMA LinkedOne ==
  ASSUME NEW f \in Pieces, NEW n \in Nat, Sound(f, n)
  PROVE  Linked(<<f>>, n) /\ <<f>> # <<>> /\ <<f>> \in Seq(Pieces) /\ <<f>>[1] = f /\ Len(<<f>>) = 1
BY DEF Linked

LEMMA LinkedAppend ==
  ASSUME NEW s \in Seq(Pieces), NEW f \in Pieces, NEW n \in Nat, Linked(s, n), Sound(f, n),
         s # <<>> => Follows(s[Len(s)], f)
  PROVE  /\ Linked(Append(s, f), n) /\ Append(s, f) \in Seq(Pieces) /\ Append(s, f) # <<>>
         /\ Append(s, f)[Len(Append(s, f))] = f
         /\ Append(s, f)[1] = IF s = <<>> THEN f ELSE s[1]
         /\ Plain(s) /\ f.kind # "sync" => Plain(Append(s, f))
         /\ Plain(s) \/ (OneSync(s) /\ f.kind # "sync") => OneSync(Append(s, f))
<1> DEFINE t == Append(s, f)
<1>1. /\ Len(s) \in Nat /\ t \in Seq(Pieces) /\ Len(t) = Len(s) + 1 /\ t[Len(s) + 1] = f
      /\ \A i \in 1 .. Len(s) : t[i] = s[i]
      /\ s = <<>> <=> Len(s) = 0
  OBVIOUS
<1> HIDE DEF t
<1>2. ASSUME NEW i \in 1 .. Len(t) PROVE Sound(t[i], n)
  BY <1>1 DEF Linked
<1>3. ASSUME NEW i \in 1 .. Len(t) - 1 PROVE Follows(t[i], t[i + 1])
  <2>1. CASE i = Len(s)
    BY <1>1, <2>1
  <2>2. CASE i # Len(s)
    <3>1. i \in 1 .. Len(s) - 1 /\ i + 1 \in 1 .. Len(s) /\ i \in 1 .. Len(s)
      BY <1>1, <2>2
    <3> QED  BY <1>1, <3>1 DEF Linked
  <2> QED  BY <2>1, <2>2
<1>4. Linked(t, n)
  BY <1>2, <1>3 DEF Linked
<1>5. t # <<>> /\ t[Len(t)] = f /\ t[1] = IF s = <<>> THEN f ELSE s[1]
  BY <1>1
<1>6. Plain(s) /\ f.kind # "sync" => Plain(t)
  BY <1>1 DEF Plain
<1>7. Plain(s) => OneSync(t)
  BY <1>1 DEF Plain, OneSync
<1>8. OneSync(s) /\ f.kind # "sync" => OneSync(t)
  BY <1>1 DEF OneSync
<1> QED
  BY <1>1, <1>4, <1>5, <1>6, <1>7, <1>8 DEF t

LEMMA LinkedTail ==
  ASSUME NEW s \in Seq(Pieces), NEW n \in Nat, Linked(s, n), s # <<>>
  PROVE  /\ Linked(Tail(s), n) /\ Tail(s) \in Seq(Pieces)
         /\ s[1] \in Pieces /\ Head(s) = s[1] /\ Sound(s[1], n)
         /\ Tail(s) # <<>> => /\ Follows(s[1], Tail(s)[1]) /\ Tail(s)[1] \in Pieces
                              /\ Tail(s)[Len(Tail(s))] = s[Len(s)]
         /\ Tail(s) = <<>> => s[Len(s)] = s[1]
         /\ Plain(s) => Plain(Tail(s)) /\ s[1].kind # "sync"
         /\ OneSync(s) => OneSync(Tail(s)) /\ (s[1].kind = "sync" => Plain(Tail(s)))
         /\ \A i \in 1 .. Len(Tail(s)) : i + 1 \in 1 .. Len(s) /\ Tail(s)[i] = s[i + 1]
<1> DEFINE t == Tail(s)
<1>1. /\ Len(s) \in Nat \ {0} /\ t \in Seq(Pieces) /\ Len(t) = Len(s) - 1
      /\ \A i \in 1 .. Len(t) : t[i] = s[i + 1]
      /\ (t = <<>> <=> Len(t) = 0)
      /\ Head(s) = s[1] /\ s[1] \in Pieces
  <2>1. Len(s) \in Nat \ {0}
    OBVIOUS
  <2>2. t \in Seq(Pieces) /\ Len(t) = Len(s) - 1 /\ Head(s) = s[1]
    BY HeadTailProperties
  <2>3. \A i \in 1 .. Len(t) : t[i] = s[i + 1]
    BY <2>1, <2>2
  <2>4. t = <<>> <=> Len(t) = 0
    BY <2>2, EmptySeq
  <2>5. s[1] \in Pieces
    BY <2>1
  <2> QED  BY <2>1, <2>2, <2>3, <2>4, <2>5
<1> HIDE DEF t
<1>2. \A i \in 1 .. Len(t) : i + 1 \in 1 .. Len(s) /\ t[i] = s[i + 1]
  BY <1>1
<1>3. \A i \in 1 .. Len(t) - 1 : i \in 1 .. Len(t) /\ i + 1 \in 1 .. Len(t) /\ i + 1 \in 1 .. Len(s) - 1
  BY <1>1
<1>4. 1 \in 1 .. Len(s) /\ (t # <<>> => 1 \in 1 .. Len(t) /\ Len(t) \in 1 .. Len(t)
                                        /\ 1 \in 1 .. Len(s) - 1)
  BY <1>1
<1>5. Linked(t, n) /\ Sound(s[1], n)
  BY <1>2, <1>3, <1>4 DEF Linked
<1>6. t # <<>> => Follows(s[1], t[1]) /\ t[1] \in Pieces /\ t[Len(t)] = s[Len(s)]
  BY <1>1, <1>2, <1>4 DEF Linked
<1>7. t = <<>> => s[Len(s)] = s[1]
  <2>1. t = <<>> => Len(s) = 1
    BY <1>1
  <2> QED  BY <2>1
<1>8. Plain(s) => Plain(t) /\ s[1].kind # "sync"
  BY <1>2, <1>4 DEF Plain
<1>9. OneSync(s) => OneSync(t) /\ (s[1].kind = "sync" => Plain(t))
  <2>1. OneSync(s) => OneSync(t)
    <3> SUFFICES ASSUME OneSync(s), NEW i \in 1 .. Len(t), NEW j \in 1 .. Len(t),
                        t[i].kind = "sync", t[j].kind = "sync"
                 PROVE  i = j
      BY DEF OneSync
    <3>1. i + 1 \in 1 .. Len(s) /\ j + 1 \in 1 .. Len(s) /\ t[i] = s[i + 1] /\ t[j] = s[j + 1]
      BY <1>2
    <3>2. i + 1 = j + 1
      BY <3>1 DEF OneSync
    <3> QED  BY <3>2
  <2>2. OneSync(s) /\ s[1].kind = "sync" => Plain(t)
    BY <1>1, <1>2, <1>4 DEF OneSync, Plain
  <2> QED  BY <2>1, <2>2
<1> QED
  BY <1>1, <1>2, <1>5, <1>6, <1>7, <1>8, <1>9 DEF t

LEMMA LinkedPrefix ==
  ASSUME NEW s \in Seq(Pieces), NEW n \in Nat, Linked(s, n), NEW k \in 0 .. Len(s)
  PROVE  /\ Linked(SubSeq(s, 1, k), n) /\ SubSeq(s, 1, k) \in Seq(Pieces)
         /\ SubSeq(s, 1, k) # <<>> => s # <<>> /\ SubSeq(s, 1, k)[1] = s[1]
         /\ OneSync(s) => OneSync(SubSeq(s, 1, k))
         /\ \A i \in 1 .. Len(SubSeq(s, 1, k)) : i \in 1 .. Len(s) /\ SubSeq(s, 1, k)[i] = s[i]
<1> DEFINE t == SubSeq(s, 1, k)
<1>1. /\ Len(s) \in Nat /\ t \in Seq(Pieces) /\ Len(t) = k
      /\ \A i \in 1 .. k : t[i] = s[i]
      /\ t = <<>> <=> k = 0
  <2>1. 1 \in 1 .. k + 1
    OBVIOUS
  <2>2. \A i \in 1 .. k : s[i] \in Pieces
    OBVIOUS
  <2> QED  BY <2>1, <2>2, SubSeqProperties
<1> HIDE DEF t
<1>2. \A i \in 1 .. Len(t) : i \in 1 .. Len(s) /\ t[i] = s[i]
  BY <1>1
<1>3. \A i \in 1 .. Len(t) - 1 : i \in 1 .. Len(t) /\ i + 1 \in 1 .. Len(t) /\ i \in 1 .. Len(s) - 1
  BY <1>1
<1>4. Linked(t, n)
  BY <1>2, <1>3 DEF Linked
<1>5. t # <<>> => s # <<>> /\ t[1] = s[1]
  BY <1>1
<1>6. OneSync(s) => OneSync(t)
  BY <1>2 DEF OneSync
<1> QED
  BY <1>1, <1>2, <1>4, <1>5, <1>6 DEF t

-----------------------------------------------------------------------------
(* Nothing is written while a snapshot is asked for, and a connection's    *)
(* frames are all handled before the next is registered.                   *)
Drains == {"early", "drain"} \cap Windows = {}

OnScreen == Chunk("data", 0, screen.to)
LastOr(s, g) == IF s = <<>> THEN g ELSE s[Len(s)]
Queued == LastOr(queue[bound], OnScreen)

(* What is yet to come, p of what is written up to n, joins g: a snapshot  *)
(* that is asked for joins anything.                                       *)
Ahead(g, a, p, n) ==
  ~a => IF p = <<>> THEN g.kind # "sync" /\ g.to >= n ELSE Follows(g, p[1])

Holder ==
  /\ peer = None => wconn = 0 /\ ~asked
  /\ asked => peer = <<>>
  /\ peer # None => /\ Linked(peer, out) /\ Plain(peer)
                    /\ peer # <<>> => peer[Len(peer)].to = out

Links ==
  /\ wconn \in {0, dialled} /\ known \subseteq 1 .. dialled /\ synced \subseteq known
  /\ \A c \in Conns : /\ Linked(up[c], out) /\ OneSync(up[c])
                      /\ c > dialled => ~link[c] /\ up[c] = <<>>
                      /\ c \notin synced \/ c = bound => Plain(up[c])

(* A connection is registered when nothing is left of those before; its    *)
(* sync binds it, once.                                                    *)
Turns ==
  /\ bound # 0 => bound \in synced /\ \A c \in known : c <= bound
  /\ \A c \in known : \A d \in 1 .. c - 1 : up[d] = <<>>
  /\ \A e \in Conns : queue[e] # <<>> \/ written[e] # None => e \in known

Queues ==
  \A e \in Conns : /\ Linked(queue[e], out) /\ Plain(queue[e])
                   /\ queue[e] # <<>> => Follows(OnScreen, queue[e][1])

Joint ==
  /\ bound # 0 /\ up[bound] # <<>> => Follows(Queued, up[bound][1])
  /\ wconn # 0 /\ link[wconn] =>
       /\ up[wconn] # <<>> => Ahead(up[wconn][Len(up[wconn])], asked, peer, out)
       /\ up[wconn] = <<>> /\ bound = wconn => Ahead(Queued, asked, peer, out)

Full == screen # None => screen.to <= out /\ screen.from <= Floor(screen.to)

Pipe == Holder /\ Links /\ Turns /\ Queues /\ Joint /\ Full

LEMMA SeqIsNotNone == ASSUME NEW s \in Seq(Pieces) PROVE s # None
<1>1. s \in Seq(Frame)
  BY SeqMonotonic DEF Pieces
<1> QED  BY <1>1, NoneAssumption

LEMMA InitPipe == ASSUME Init PROVE Pipe
<1> DEFINE f == Chunk("snap", 0, 0)
<1>1. Floor(0) = 0 /\ 0 \in Nat
  BY CapAssumption DEF Floor
<1>2. f \in Pieces /\ Sound(f, 0) /\ f.to = 0 /\ f.kind = "snap"
  BY <1>1, BoundsAssumption DEF Chunk, Pieces, Frame, Sound
<1>3. Linked(<<f>>, 0) /\ <<f>> # <<>> /\ <<f>>[1] = f /\ Len(<<f>>) = 1
  BY <1>1, <1>2, LinkedOne
<1>4. peer = <<f>> /\ peer # None
  <2>1. <<f>> \in Seq(Pieces)
    BY <1>2
  <2>2. <<f>> # None
    BY <2>1, SeqIsNotNone
  <2> QED  BY <2>2 DEF Init
<1> HIDE DEF f
<1>5. Holder
  BY <1>2, <1>3, <1>4 DEF Init, Holder, Plain
<1>6. 1 \in Conns /\ \A c \in Conns : up[c] = <<>> /\ queue[c] = <<>> /\ written[c] = None
                                      /\ (c > 1 => ~link[c])
  <2>1. 1 \in Conns
    BY BoundsAssumption DEF Conns
  <2>2. \A c \in Conns : c > 1 => ~(c = 1)
    BY DEF Conns
  <2> QED  BY <2>1, <2>2 DEF Init
<1>7. Links
  BY <1>6, LinkedEmpty DEF Init, Links
<1>8. Turns
  BY <1>6 DEF Init, Turns
<1>9. Queues
  BY <1>6, LinkedEmpty DEF Queues
<1>10. Joint
  <2>1. Ahead(Queued, asked, peer, out)
    BY <1>2, <1>3, <1>4 DEF Ahead, Follows
  <2> QED  BY <1>6, <2>1 DEF Init, Joint
<1>11. Full
  BY <1>1 DEF Init, Full
<1> QED  BY <1>5, <1>7, <1>8, <1>9, <1>10, <1>11 DEF Pipe

(* The process writes.                                                     *)
LEMMA ProducePipe ==
  ASSUME NetTypes, RelayTypes, Drains, Pipe, NEW n \in 1 .. 2, Produce(n)
  PROVE  Pipe'
<1> DEFINE f == Chunk("data", out, out + n)
<1>1. out \in Nat /\ out + n \in Nat /\ out <= out + n /\ out' = out + n /\ ~asked
  BY BoundsAssumption DEF Produce, NetTypes, Drains
<1>2. UNCHANGED <<asked, wconn, dialled, synced, link, up, known, bound, queue, written, screen>>
  BY DEF Produce, workerVars, netVars, relayVars
<1>3. f \in Pieces /\ Sound(f, out + n) /\ f.kind = "data" /\ f.from = out /\ f.to = out + n
  BY <1>1, BoundsAssumption DEF Produce, NetTypes, Chunk, Pieces, Frame, Sound
<1>4. peer' = IF peer = None THEN None ELSE Append(peer, f)
  BY DEF Produce
<1> HIDE DEF f
<1>5. ASSUME peer # None
      PROVE  /\ peer \in Seq(Pieces) /\ Linked(peer', out') /\ Plain(peer') /\ peer' # None
             /\ peer' # <<>> /\ peer'[Len(peer')] = f
             /\ peer'[1] = IF peer = <<>> THEN f ELSE peer[1]
  <2>1. peer \in Seq(Pieces) /\ Linked(peer, out) /\ Plain(peer)
    BY <1>5 DEF NetTypes, Pipe, Holder
  <2>2. Linked(peer, out + n)
    BY <1>1, <2>1, LinkedLater
  <2>3. peer # <<>> => Follows(peer[Len(peer)], f)
    <3>1. ASSUME peer # <<>> PROVE Follows(peer[Len(peer)], f)
      <4>1. Len(peer) \in 1 .. Len(peer)
        BY <2>1, <3>1
      <4>2. peer[Len(peer)].to = out /\ peer[Len(peer)].kind # "sync"
        BY <1>5, <2>1, <3>1, <4>1 DEF Pipe, Holder, Plain
      <4> QED  BY <1>1, <1>3, <4>2 DEF Follows
    <3> QED  BY <3>1
  <2>4. peer' = Append(peer, f)
    BY <1>4, <1>5
  <2>5. /\ Linked(peer', out + n) /\ peer' \in Seq(Pieces) /\ peer' # <<>>
        /\ peer'[Len(peer')] = f /\ peer'[1] = IF peer = <<>> THEN f ELSE peer[1]
        /\ Plain(peer')
    BY <1>1, <1>3, <2>1, <2>2, <2>3, <2>4, LinkedAppend
  <2>6. peer' # None
    BY <2>5, SeqIsNotNone
  <2> QED  BY <1>1, <2>1, <2>5, <2>6
<1>6. Holder'
  BY <1>1, <1>2, <1>3, <1>4, <1>5 DEF Pipe, Holder
<1>7. Links'
  <2>1. ASSUME NEW c \in Conns PROVE Linked(up[c], out')
    BY <1>1, LinkedLater DEF NetTypes, Pipe, Links
  <2> QED  BY <1>2, <2>1 DEF Pipe, Links
<1>8. Turns'
  BY <1>2 DEF Pipe, Turns
<1>9. Queues'
  <2>1. ASSUME NEW e \in Conns PROVE Linked(queue[e], out')
    BY <1>1, LinkedLater DEF RelayTypes, Pipe, Queues
  <2> QED  BY <1>2, <2>1 DEF Pipe, Queues, OnScreen
<1>10. Joint'
  <2>1. ASSUME NEW g, Ahead(g, asked, peer, out), peer # None PROVE Ahead(g, asked', peer', out')
    <3>1. peer = <<>> => g.to >= out /\ g.kind # "sync"
      BY <1>1, <2>1 DEF Ahead
    <3>2. peer = <<>> => Follows(g, f)
      BY <1>3, <3>1 DEF Follows
    <3>3. peer # <<>> => Follows(g, peer[1])
      BY <1>1, <2>1 DEF Ahead
    <3> QED  BY <1>2, <1>5, <2>1, <3>2, <3>3 DEF Ahead
  <2>2. Queued' = Queued
    BY <1>2 DEF Queued, OnScreen
  <2>3. wconn # 0 => peer # None
    BY DEF Pipe, Holder
  <2> QED  BY <1>2, <2>1, <2>2, <2>3 DEF Pipe, Joint
<1>11. Full'
  <2>1. screen # None => screen.to \in Nat
    BY DEF RelayTypes, Piece
  <2> QED  BY <1>1, <1>2, <2>1 DEF Pipe, Full
<1> QED  BY <1>6, <1>7, <1>8, <1>9, <1>10, <1>11 DEF Pipe

(* The holder answers with a snapshot of all that its screen keeps.        *)
LEMMA SnapPipe == ASSUME NetTypes, RelayTypes, Pipe, Snap PROVE Pipe'
<1> DEFINE f == Chunk("snap", Floor(out), out)
<1>1. asked /\ peer = <<>> /\ peer' = Append(peer, f) /\ peer' = <<f>> /\ ~asked'
  BY SeqIsNotNone DEF Snap, Pipe, Holder
<1>2. UNCHANGED <<out, wconn, dialled, synced, link, up, known, bound, queue, written, screen>>
  BY DEF Snap, workerVars, netVars, relayVars
<1>3. f \in Pieces /\ Sound(f, out) /\ f.kind = "snap" /\ f.to = out /\ out \in Nat
  BY FloorType, BoundsAssumption DEF NetTypes, Chunk, Pieces, Frame, Sound
<1> HIDE DEF f
<1>4. /\ Linked(peer', out) /\ peer' # <<>> /\ peer'[1] = f /\ Len(peer') = 1 /\ peer' \in Seq(Pieces)
      /\ Plain(peer')
  BY <1>1, <1>3, LinkedOne DEF Plain
<1>5. peer' # None
  BY <1>4, SeqIsNotNone
<1>6. Holder'
  BY <1>1, <1>2, <1>3, <1>4, <1>5 DEF Holder
<1>7. Links' /\ Turns' /\ Queues' /\ Full'
  BY <1>2 DEF Pipe, Links, Turns, Queues, Full, OnScreen
<1>8. Joint'
  <2>1. \A g : Ahead(g, asked', peer', out')
    BY <1>1, <1>3, <1>4 DEF Ahead, Follows
  <2>2. Queued' = Queued
    BY <1>2 DEF Queued, OnScreen
  <2> QED  BY <1>2, <2>1, <2>2 DEF Pipe, Joint
<1> QED  BY <1>6, <1>7, <1>8 DEF Pipe

(* A frame goes on the connection, or is lost with it.                     *)
LEMMA ForwardPipe == ASSUME NetTypes, RelayTypes, Pipe, Forward PROVE Pipe'
<1> DEFINE f == peer[1]
<1>1. peer # None /\ peer # <<>> /\ peer' = Tail(peer) /\ peer \in Seq(Pieces)
  BY DEF Forward, NetTypes
<1>2. UNCHANGED <<out, asked, wconn, dialled, synced, link, known, bound, queue, written, screen>>
  BY DEF Forward, workerVars, relayVars
<1>3. Linked(peer, out) /\ Plain(peer) /\ ~asked /\ out \in Nat /\ peer[Len(peer)].to = out
  BY <1>1, BoundsAssumption DEF Pipe, Holder, NetTypes
<1>4. /\ Linked(peer', out) /\ peer' \in Seq(Pieces) /\ f \in Pieces /\ Head(peer) = f /\ Sound(f, out)
      /\ peer' # <<>> => Follows(f, peer'[1]) /\ peer'[Len(peer')] = peer[Len(peer)]
      /\ peer' = <<>> => f.to = out
      /\ Plain(peer') /\ f.kind # "sync"
  BY <1>1, <1>3, LinkedTail
<1>5. peer' # None
  BY <1>4, SeqIsNotNone
<1>6. Holder'
  BY <1>1, <1>2, <1>3, <1>4, <1>5 DEF Holder
<1>7. Queues' /\ Full' /\ Queued' = Queued
  BY <1>2 DEF Pipe, Queues, Full, OnScreen, Queued
<1>8. Ahead(f, asked', peer', out')
  BY <1>2, <1>3, <1>4 DEF Ahead
<1> HIDE DEF f
<1>9. CASE wconn # 0 /\ link[wconn]
  <2>1. wconn \in Conns /\ wconn = dialled /\ dialled \in Nat
    BY <1>9, BoundsAssumption DEF Pipe, Links, NetTypes, Conns
  <2> DEFINE s == up[wconn]
             t == Append(s, f)
  <2>2. up' = [up EXCEPT ![wconn] = t] /\ up \in [Conns -> Seq(Pieces)]
    BY <1>4, <1>9 DEF Forward, NetTypes
  <2>3. s \in Seq(Pieces) /\ Linked(s, out) /\ OneSync(s) /\ up'[wconn] = t
        /\ \A c \in Conns \ {wconn} : up'[c] = up[c]
    BY <2>1, <2>2 DEF Pipe, Links
  <2>4. \A g : Ahead(g, asked, peer, out) => Follows(g, f)
    BY <1>1, <1>3 DEF Ahead, f
  <2>5. s # <<>> => Follows(s[Len(s)], f)
    BY <1>9, <2>4 DEF Pipe, Joint
  <2>6. /\ Linked(t, out) /\ t \in Seq(Pieces) /\ t # <<>> /\ t[Len(t)] = f
        /\ t[1] = IF s = <<>> THEN f ELSE s[1]
        /\ Plain(s) => Plain(t)
        /\ OneSync(t)
    BY <1>3, <1>4, <2>3, <2>5, LinkedAppend
  <2>7. s = <<>> /\ bound = wconn => Follows(Queued, f)
    BY <1>9, <2>4 DEF Pipe, Joint
  <2> HIDE DEF s, t
  <2>8. Links'
    <3>1. ASSUME NEW c \in Conns
          PROVE  /\ Linked(up'[c], out) /\ OneSync(up'[c])
                 /\ c > dialled => ~link[c] /\ up'[c] = <<>>
                 /\ c \notin synced \/ c = bound => Plain(up'[c])
      <4>1. CASE c = wconn
        <5>1. ~(c > dialled)
          BY <2>1, <4>1
        <5> QED  BY <2>3, <2>6, <4>1, <5>1 DEF Pipe, Links, s
      <4>2. CASE c # wconn
        BY <2>3, <4>2 DEF Pipe, Links
      <4> QED  BY <4>1, <4>2
    <3> QED  BY <1>2, <3>1 DEF Pipe, Links
  <2>9. Turns'
    <3>1. ASSUME NEW c \in known, NEW d \in 1 .. c - 1 PROVE up'[d] = <<>>
      <4>1. c \in 1 .. dialled /\ d # wconn /\ d \in Conns
        <5>1. c \in 1 .. dialled /\ MaxConn \in Nat /\ dialled \in 1 .. MaxConn
          BY BoundsAssumption DEF Pipe, Links, NetTypes, Conns
        <5> QED  BY <2>1, <5>1 DEF Conns
      <4>2. up[d] = <<>>
        BY DEF Pipe, Turns
      <4> QED  BY <2>3, <4>1, <4>2
    <3> QED  BY <1>2, <3>1 DEF Pipe, Turns
  <2>10. Joint'
    <3>1. bound # 0 /\ up'[bound] # <<>> => Follows(Queued, up'[bound][1])
      <4>1. CASE bound = wconn
        BY <2>3, <2>6, <2>7, <4>1, <1>9 DEF Pipe, Joint, s
      <4>2. CASE bound # wconn
        <5>1. bound # 0 => up'[bound] = up[bound]
          BY <2>3, <4>2 DEF RelayTypes, Conns
        <5> QED  BY <5>1 DEF Pipe, Joint
      <4> QED  BY <4>1, <4>2
    <3> QED  BY <1>2, <1>7, <1>8, <2>3, <2>6, <3>1 DEF Joint
  <2> QED  BY <1>6, <1>7, <2>8, <2>9, <2>10 DEF Pipe
<1>10. CASE ~(wconn # 0 /\ link[wconn])
  <2>1. up' = up
    BY <1>10 DEF Forward
  <2>2. Links' /\ Turns' /\ Joint'
    BY <1>2, <1>7, <1>10, <2>1 DEF Pipe, Links, Turns, Joint
  <2> QED  BY <1>6, <1>7, <2>2 DEF Pipe
<1> QED  BY <1>9, <1>10

(* Connections come and go, and the worker.                                *)
LEMMA DialPipe == ASSUME NetTypes, RelayTypes, Pipe, Dial PROVE Pipe'
<1> DEFINE d == dialled + 1
<1>1. /\ wconn' = d /\ dialled' = d /\ d \in Conns /\ d # 0 /\ dialled \in Nat
      /\ link' = [link EXCEPT ![d] = TRUE] /\ peer # None
  BY BoundsAssumption DEF Dial, NetTypes, Conns
<1>2. UNCHANGED <<out, peer, asked, synced, up, known, bound, queue, written, screen>>
  BY DEF Dial, holderVars, relayVars
<1>3. Holder' /\ Turns' /\ Queues' /\ Full' /\ Queued' = Queued
  BY <1>1, <1>2 DEF Pipe, Holder, Turns, Queues, Full, OnScreen, Queued
<1>4. d > dialled /\ up[d] = <<>>
  BY <1>1 DEF Pipe, Links
<1>5. bound # d
  <2>1. bound # 0 => bound \in 1 .. dialled
    BY DEF Pipe, Turns, Links
  <2> QED  BY <1>1, <2>1
<1> HIDE DEF d
<1>6. Links'
  <2>1. ASSUME NEW c \in Conns, c > d PROVE link'[c] = link[c] /\ c > dialled
    <3>1. c # d /\ c > dialled
      BY <1>1, <1>4, <2>1 DEF Conns, d
    <3> QED  BY <1>1, <3>1 DEF NetTypes
  <2>2. 1 .. dialled \subseteq 1 .. d
    BY <1>1, <1>4 DEF Conns
  <2> QED  BY <1>1, <1>2, <2>1, <2>2 DEF Pipe, Links
<1>7. Joint'
  BY <1>1, <1>2, <1>3, <1>4, <1>5 DEF Pipe, Joint
<1> QED  BY <1>3, <1>6, <1>7 DEF Pipe

LEMMA GonePipe ==
  ASSUME NetTypes, RelayTypes, Pipe, EndSession \/ Crash \/ Recover
  PROVE  Pipe'
<1>1. UNCHANGED <<out, dialled, synced, up, known, bound, queue, written, screen>>
  BY DEF EndSession, Crash, Recover, holderVars, workerVars, netVars, relayVars
<1>2. Turns' /\ Queues' /\ Full' /\ Queued' = Queued
  BY <1>1 DEF Pipe, Turns, Queues, Full, OnScreen, Queued
<1>3. wconn' = 0 /\ \A c \in Conns : link'[c] => link[c]
  BY DEF EndSession, Crash, Recover, netVars, workerVars, Pipe, Holder
<1>4. Links' /\ Joint'
  <2>1. Links'
    BY <1>1, <1>3 DEF Pipe, Links
  <2>2. Joint'
    BY <1>1, <1>2, <1>3 DEF Pipe, Joint
  <2> QED  BY <2>1, <2>2
<1>5. Holder'
  <2>1. CASE EndSession
    BY <2>1 DEF EndSession, Pipe, Holder, holderVars
  <2>2. CASE Crash
    BY <2>2 DEF Crash, Holder
  <2>3. CASE Recover
    <3> DEFINE f == Chunk("snap", Floor(out), out)
    <3>1. f \in Pieces /\ Sound(f, out) /\ f.kind = "snap" /\ f.to = out /\ out \in Nat
      BY FloorType, BoundsAssumption DEF NetTypes, Chunk, Pieces, Frame, Sound
    <3>2. peer' = <<f>> /\ ~asked'
      BY <2>3 DEF Recover, Pipe, Holder
    <3> HIDE DEF f
    <3>3. /\ Linked(peer', out) /\ peer' # <<>> /\ peer'[1] = f /\ Len(peer') = 1
          /\ peer' \in Seq(Pieces) /\ Plain(peer')
      BY <3>1, <3>2, LinkedOne DEF Plain
    <3>4. peer' # None
      BY <3>3, SeqIsNotNone
    <3> QED  BY <1>1, <3>1, <3>2, <3>3, <3>4 DEF Holder
  <2> QED  BY <2>1, <2>2, <2>3
<1> QED  BY <1>2, <1>4, <1>5 DEF Pipe

LEMMA BreakPipe == ASSUME NetTypes, RelayTypes, Pipe, Break PROVE Pipe'
<1>1. UNCHANGED <<out, peer, asked, wconn, dialled, synced, known, bound, queue, written, screen>>
  BY DEF Break, holderVars, workerVars, relayVars
<1>2. PICK k \in 0 .. Len(up[wconn]) : up' = [up EXCEPT ![wconn] = SubSeq(@, 1, k)]
  BY DEF Break
<1> DEFINE s == up[wconn]
           t == SubSeq(s, 1, k)
<1>3. wconn \in Conns /\ wconn # 0 /\ link' = [link EXCEPT ![wconn] = FALSE] /\ out \in Nat
  BY BoundsAssumption DEF Break, NetTypes, Conns
<1>4. /\ s \in Seq(Pieces) /\ Linked(s, out) /\ OneSync(s) /\ up'[wconn] = t
      /\ \A c \in Conns \ {wconn} : up'[c] = up[c]
      /\ ~link'[wconn] /\ \A c \in Conns : link'[c] => link[c]
  BY <1>2, <1>3 DEF NetTypes, Pipe, Links
<1>5. /\ Linked(t, out) /\ OneSync(t)
      /\ t # <<>> => s # <<>> /\ t[1] = s[1]
      /\ \A i \in 1 .. Len(t) : i \in 1 .. Len(s) /\ t[i] = s[i]
  BY <1>3, <1>4, LinkedPrefix
<1>6. Plain(s) => Plain(t)
  BY <1>5 DEF Plain
<1> HIDE DEF s, t
<1>7. Holder' /\ Queues' /\ Full' /\ Queued' = Queued
  BY <1>1 DEF Pipe, Holder, Queues, Full, OnScreen, Queued
<1>8. Links'
  <2>1. ASSUME NEW c \in Conns
        PROVE  /\ Linked(up'[c], out) /\ OneSync(up'[c])
               /\ c > dialled => ~link'[c] /\ up'[c] = <<>>
               /\ c \notin synced \/ c = bound => Plain(up'[c])
    <3>1. CASE c = wconn
      BY <1>4, <1>5, <1>6, <3>1 DEF Pipe, Links, s
    <3>2. CASE c # wconn
      BY <1>4, <3>2 DEF Pipe, Links
    <3> QED  BY <3>1, <3>2
  <2> QED  BY <1>1, <2>1 DEF Pipe, Links
<1>9. Turns'
  <2>1. ASSUME NEW c \in known, NEW d \in 1 .. c - 1 PROVE up'[d] = <<>>
    <3>1. up[d] = <<>> /\ d \in Conns
      BY BoundsAssumption DEF Pipe, Turns, RelayTypes, Conns
    <3> QED  BY <1>4, <1>5, <3>1 DEF s
  <2> QED  BY <1>1, <2>1 DEF Pipe, Turns
<1>10. Joint'
  <2>1. bound # 0 /\ up'[bound] # <<>> => Follows(Queued, up'[bound][1])
    <3>1. CASE bound = wconn
      BY <1>3, <1>4, <1>5, <3>1 DEF Pipe, Joint, s
    <3>2. CASE bound # wconn
      <4>1. bound # 0 => up'[bound] = up[bound]
        BY <1>4, <3>2 DEF RelayTypes, Conns
      <4> QED  BY <4>1 DEF Pipe, Joint
    <3> QED  BY <3>1, <3>2
  <2> QED  BY <1>1, <1>4, <1>7, <2>1 DEF Joint
<1> QED  BY <1>7, <1>8, <1>9, <1>10 DEF Pipe

(* The worker begins: its sync, and with it the request of a snapshot.     *)
LEMMA SendSyncPipe ==
  ASSUME NetTypes, RelayTypes, Drains, Pipe, NEW c \in Conns, SendSync(c)
  PROVE  Pipe'
<1> DEFINE f == Chunk("sync", 0, 0)
           s == up[c]
           t == Append(s, f)
<1>1. /\ peer # None /\ c = wconn /\ c \in known /\ c \notin synced
      /\ synced' = synced \cup {c} /\ asked' = TRUE
      /\ up' = IF link[c] THEN [up EXCEPT ![c] = t] ELSE up
  BY DEF SendSync
<1>2. UNCHANGED <<out, peer, wconn, dialled, link, known, bound, queue, written, screen>>
  BY DEF SendSync, relayVars
<1>3. f \in Pieces /\ Sound(f, out) /\ out \in Nat
  BY BoundsAssumption DEF NetTypes, Chunk, Pieces, Frame, Sound
<1>4. s \in Seq(Pieces) /\ Linked(s, out) /\ Plain(s)
  BY <1>1 DEF NetTypes, Pipe, Links
<1> HIDE DEF f
<1>5. s # <<>> => Follows(s[Len(s)], f)
  <2>1. s # <<>> => Len(s) \in 1 .. Len(s)
    BY <1>4
  <2>2. f.kind = "sync"
    BY DEF f, Chunk
  <2> QED  BY <1>4, <2>1, <2>2 DEF Plain, Follows
<1>6. /\ Linked(t, out) /\ t \in Seq(Pieces) /\ t # <<>> /\ OneSync(t)
  BY <1>3, <1>4, <1>5, LinkedAppend
<1> HIDE DEF s, t
<1>7. Queues' /\ Full' /\ Queued' = Queued
  BY <1>2 DEF Pipe, Queues, Full, OnScreen, Queued
<1>8. bound # c
  BY <1>1, BoundsAssumption DEF Pipe, Turns, Conns
<1>9. \A d \in Conns : IF d = c THEN up'[d] \in {s, t} ELSE up'[d] = up[d]
  BY <1>1 DEF NetTypes, s
<1>10. OneSync(s)
  BY DEF Pipe, Links, s
<1>11. Holder'
  <2>1. peer = <<>>
    BY DEF SendSync, Pipe, Drains
  <2> QED  BY <1>1, <1>2, <2>1 DEF Pipe, Holder
<1>12. Links'
  <2>1. ASSUME NEW d \in Conns
        PROVE  /\ Linked(up'[d], out) /\ OneSync(up'[d])
               /\ d > dialled => ~link[d] /\ up'[d] = <<>>
               /\ d \notin synced' \/ d = bound => Plain(up'[d])
    <3>1. CASE d = c
      <4>1. ~(d > dialled)
        BY <1>1, <3>1, BoundsAssumption DEF Pipe, Links, NetTypes, Conns
      <4> QED  BY <1>1, <1>4, <1>6, <1>8, <1>9, <1>10, <3>1, <4>1
    <3>2. CASE d # c
      BY <1>1, <1>9, <3>2 DEF Pipe, Links
    <3> QED  BY <3>1, <3>2
  <2> QED  BY <1>1, <1>2, <2>1 DEF Pipe, Links
<1>13. Turns'
  <2>1. ASSUME NEW e \in known, NEW d \in 1 .. e - 1 PROVE up'[d] = <<>>
    <3>1. e \in 1 .. dialled /\ dialled \in 1 .. MaxConn /\ MaxConn \in Nat
      BY BoundsAssumption DEF Pipe, Links, NetTypes, Conns
    <3>2. c = dialled
      BY <1>1, BoundsAssumption DEF Pipe, Links, Conns
    <3>3. d \in Conns /\ d # c
      BY <3>1, <3>2 DEF Conns
    <3>4. up[d] = <<>>
      BY DEF Pipe, Turns
    <3> QED  BY <1>9, <3>3, <3>4
  <2> QED  BY <1>1, <1>2, <2>1 DEF Pipe, Turns
<1>14. Joint'
  <2>1. bound # 0 => up'[bound] = up[bound]
    BY <1>8, <1>9 DEF RelayTypes, Conns
  <2>2. \A g : Ahead(g, asked', peer', out')
    BY <1>1 DEF Ahead
  <2> QED  BY <1>2, <1>7, <2>1, <2>2 DEF Pipe, Joint
<1> QED  BY <1>7, <1>11, <1>12, <1>13, <1>14 DEF Pipe

(* The supervisor.                                                         *)
LEMMA RegisterPipe ==
  ASSUME NetTypes, RelayTypes, Drains, Pipe, NEW c \in Conns, Register(c)
  PROVE  Pipe'
<1>1. /\ c = wconn /\ bound = 0 /\ known' = known \cup {c}
      /\ \A d \in 1 .. c - 1 : up[d] = <<>>
  BY DEF Register, Drains
<1>2. UNCHANGED <<out, peer, asked, wconn, dialled, synced, link, up, bound, queue, written, screen>>
  BY DEF Register, holderVars, workerVars, netVars
<1>3. Holder' /\ Queues' /\ Full' /\ Queued' = Queued
  BY <1>2 DEF Pipe, Holder, Queues, Full, OnScreen, Queued
<1>4. Turns' /\ Joint'
  BY <1>1, <1>2, <1>3 DEF Pipe, Turns, Joint
<1>5. c \in 1 .. dialled
  BY <1>1, BoundsAssumption DEF Pipe, Links, NetTypes, Conns
<1>6. Links'
  BY <1>1, <1>2, <1>5 DEF Pipe, Links
<1> QED  BY <1>3, <1>4, <1>6 DEF Pipe

LEMMA HandlePipe ==
  ASSUME NetTypes, RelayTypes, Pipe, NEW c \in Conns, Handle(c)
  PROVE  Pipe'
<1> DEFINE s == up[c]
           t == Tail(s)
           f == s[1]
<1>1. /\ s \in Seq(Pieces) /\ s # <<>> /\ Linked(s, out) /\ OneSync(s) /\ out \in Nat
      /\ up' = [up EXCEPT ![c] = t] /\ c # 0
  BY BoundsAssumption DEF Handle, NetTypes, Pipe, Links, Conns
<1>2. UNCHANGED <<out, peer, asked, wconn, dialled, synced, link, known, written>>
  BY DEF Handle, holderVars, workerVars
<1>3. /\ Linked(t, out) /\ t \in Seq(Pieces) /\ f \in Pieces /\ Head(s) = f /\ Sound(f, out)
      /\ t # <<>> => /\ Follows(f, t[1]) /\ t[1] \in Pieces /\ t[Len(t)] = s[Len(s)]
      /\ t = <<>> => s[Len(s)] = f
      /\ Plain(s) => Plain(t) /\ f.kind # "sync"
      /\ OneSync(t) /\ (f.kind = "sync" => Plain(t))
  BY <1>1, LinkedTail
<1>4. /\ up'[c] = t /\ \A d \in Conns \ {c} : up'[d] = up[d]
      /\ \A d \in Conns : up[d] = <<>> => up'[d] = <<>>
  BY <1>1 DEF NetTypes
<1>5. /\ f.kind = "sync" => /\ bound' = c /\ queue' = queue
                            /\ screen' = IF screen = None THEN [from |-> 0, to |-> 0] ELSE screen
      /\ f.kind # "sync" =>
           /\ bound' = bound /\ screen' = screen
           /\ queue' = IF bound = 0 \/ c \notin known THEN queue
                       ELSE [queue EXCEPT ![bound] = Append(@, f)]
  BY <1>3 DEF Handle
<1> HIDE DEF s, t, f
<1>6. Holder'
  BY <1>2 DEF Pipe, Holder
<1>7. ASSUME \A d \in Conns : d # c /\ (d \notin synced \/ d = bound') => Plain(up[d]),
             c \notin synced \/ c = bound' => Plain(t)
      PROVE  Links'
  <2>1. ASSUME NEW d \in Conns
        PROVE  /\ Linked(up'[d], out) /\ OneSync(up'[d])
               /\ d > dialled => ~link[d] /\ up'[d] = <<>>
               /\ d \notin synced \/ d = bound' => Plain(up'[d])
    <3>1. CASE d = c
      BY <1>3, <1>4, <1>7, <3>1 DEF Pipe, Links
    <3>2. CASE d # c
      BY <1>4, <1>7, <3>2 DEF Pipe, Links
    <3> QED  BY <3>1, <3>2
  <2> QED  BY <1>2, <2>1 DEF Pipe, Links
<1>8. \A e \in known : \A d \in 1 .. e - 1 : up'[d] = <<>>
  <2> SUFFICES ASSUME NEW e \in known, NEW d \in 1 .. e - 1 PROVE up'[d] = <<>>
    OBVIOUS
  <2>1. d \in Conns /\ up[d] = <<>>
    BY BoundsAssumption DEF Pipe, Turns, RelayTypes, Conns
  <2> QED  BY <1>4, <2>1
<1>9. ASSUME NEW e \in known PROVE e <= c
  <2>1. c \in 1 .. e - 1 => up[c] = <<>>
    BY DEF Pipe, Turns
  <2>2. e \in Nat /\ c \in Nat /\ c # 0
    BY <1>1, BoundsAssumption DEF RelayTypes, Conns
  <2> QED  BY <1>1, <2>1, <2>2 DEF s
<1>10. wconn # 0 /\ link[wconn] /\ up'[wconn] # <<>> => Ahead(up'[wconn][Len(up'[wconn])], asked, peer, out)
  <2>1. CASE wconn = c
    BY <1>1, <1>3, <1>4, <2>1 DEF Pipe, Joint, s
  <2>2. CASE wconn # c
    <3>1. wconn # 0 => up'[wconn] = up[wconn]
      BY <1>4, <2>2 DEF NetTypes, Conns
    <3> QED  BY <3>1 DEF Pipe, Joint
  <2> QED  BY <2>1, <2>2
<1>11. wconn = c /\ link[c] => Ahead(s[Len(s)], asked, peer, out)
  BY <1>1 DEF Pipe, Joint, s
<1>12. CASE f.kind = "sync"
  <2>1. /\ bound' = c /\ queue' = queue
        /\ screen' = IF screen = None THEN [from |-> 0, to |-> 0] ELSE screen
    BY <1>5, <1>12
  <2>2. c \in synced /\ bound # c
    BY <1>3, <1>12 DEF Pipe, Links, s
  <2>3. Links'
    BY <1>3, <1>7, <1>12, <2>1 DEF Pipe, Links
  <2>4. Turns'
    BY <1>2, <1>8, <1>9, <2>1, <2>2 DEF Pipe, Turns
  <2>5. Queues'
    <3>1. ASSUME NEW e \in Conns, queue[e] # <<>> PROVE Follows(OnScreen', queue[e][1])
      <4>1. screen' = screen
        BY <2>1, <3>1 DEF RelayTypes
      <4> QED  BY <3>1, <4>1 DEF Pipe, Queues, OnScreen
    <3> QED  BY <1>2, <2>1, <3>1 DEF Pipe, Queues
  <2>6. t # <<>> => t[1].kind = "snap"
    BY <1>3, <1>12 DEF Follows
  <2>7. Joint'
    <3>1. bound' # 0 /\ up'[bound'] # <<>> => Follows(Queued', up'[bound'][1])
      BY <1>4, <2>1, <2>6 DEF Follows
    <3>2. wconn # 0 /\ link[wconn] /\ up'[wconn] = <<>> /\ bound' = wconn
            => Ahead(Queued', asked, peer, out)
      <4> SUFFICES ASSUME wconn = c, link[c], t = <<>> PROVE Ahead(Queued', asked, peer, out)
        BY <1>4, <2>1
      <4>1. Ahead(f, asked, peer, out)
        BY <1>3, <1>11
      <4> QED  BY <1>12, <4>1 DEF Ahead, Follows
    <3> QED  BY <1>2, <1>10, <3>1, <3>2 DEF Joint
  <2>8. Full'
    <3>1. screen = None => screen'.to = 0 /\ screen'.from = 0
      BY <2>1
    <3>2. Floor(0) \in Nat
      BY FloorRises
    <3>3. screen = None => screen'.to <= out /\ screen'.from <= Floor(screen'.to)
      BY <1>1, <3>1, <3>2
    <3>4. screen # None => screen' = screen
      BY <2>1
    <3> QED  BY <1>2, <3>3, <3>4 DEF Pipe, Full
  <2> QED  BY <1>6, <2>3, <2>4, <2>5, <2>7, <2>8 DEF Pipe
<1>13. CASE f.kind # "sync" /\ (bound = 0 \/ c \notin known)
  <2>1. bound' = bound /\ screen' = screen /\ queue' = queue
    BY <1>5, <1>13
  <2>2. bound # c
    BY <1>1, <1>13 DEF Pipe, Turns, Links
  <2>3. Queues' /\ Full' /\ Queued' = Queued
    BY <1>2, <2>1 DEF Pipe, Queues, Full, OnScreen, Queued
  <2>4. Turns'
    BY <1>2, <1>8, <2>1 DEF Pipe, Turns
  <2>5. Links'
    <3>1. c \notin synced => Plain(t)
      BY <1>3 DEF Pipe, Links, s
    <3> QED  BY <1>7, <2>1, <2>2, <3>1 DEF Pipe, Links
  <2>6. Joint'
    <3>1. bound # 0 => up'[bound] = up[bound]
      BY <1>4, <2>2 DEF RelayTypes, Conns
    <3>2. wconn # 0 /\ bound = wconn => up'[wconn] = up[wconn]
      BY <3>1
    <3> QED  BY <1>2, <1>10, <2>1, <2>3, <3>1, <3>2 DEF Pipe, Joint
  <2> QED  BY <1>6, <2>3, <2>4, <2>5, <2>6 DEF Pipe
<1>14. CASE f.kind # "sync" /\ bound # 0 /\ c \in known
  <2>1. c = bound
    <3>1. c <= bound /\ bound \in known
      BY <1>14 DEF Pipe, Turns, Links
    <3>2. bound <= c
      BY <1>9, <3>1
    <3> QED  BY <1>14, <3>1, <3>2, BoundsAssumption DEF RelayTypes, Conns
  <2> DEFINE q == queue[c]
             r == Append(q, f)
  <2>2. bound' = bound /\ screen' = screen /\ queue' = [queue EXCEPT ![c] = r]
    BY <1>5, <1>14, <2>1
  <2>3. q \in Seq(Pieces) /\ Linked(q, out) /\ Plain(q)
    BY DEF RelayTypes, Pipe, Queues
  <2>4. Follows(Queued, f)
    BY <1>1, <1>14, <2>1 DEF Pipe, Joint, f, s
  <2>5. q # <<>> => Follows(q[Len(q)], f)
    BY <2>1, <2>4 DEF Queued, LastOr
  <2>6. /\ Linked(r, out) /\ r \in Seq(Pieces) /\ r # <<>> /\ r[Len(r)] = f
        /\ r[1] = IF q = <<>> THEN f ELSE q[1]
        /\ Plain(r)
    BY <1>1, <1>3, <1>14, <2>3, <2>5, LinkedAppend
  <2>7. q = <<>> => Follows(OnScreen, f)
    BY <2>1, <2>4 DEF Queued, LastOr
  <2>8. q # <<>> => Follows(OnScreen, q[1])
    BY DEF Pipe, Queues
  <2>9. queue'[c] = r /\ \A e \in Conns \ {c} : queue'[e] = queue[e]
    BY <2>2 DEF RelayTypes
  <2> HIDE DEF q, r
  <2>10. Queues'
    <3>1. ASSUME NEW e \in Conns
          PROVE  /\ Linked(queue'[e], out) /\ Plain(queue'[e])
                 /\ queue'[e] # <<>> => Follows(OnScreen, queue'[e][1])
      <4>1. CASE e = c
        BY <2>6, <2>7, <2>8, <2>9, <4>1
      <4>2. CASE e # c
        BY <2>9, <4>2 DEF Pipe, Queues
      <4> QED  BY <4>1, <4>2
    <3>2. OnScreen' = OnScreen
      BY <2>2 DEF OnScreen
    <3> QED  BY <1>2, <3>1, <3>2 DEF Queues
  <2>11. Queued' = f
    BY <2>1, <2>2, <2>6, <2>9 DEF Queued, LastOr
  <2>12. Turns'
    <3>1. \A e \in Conns : queue'[e] # <<>> => queue[e] # <<>> \/ e = c
      BY <2>9
    <3> QED  BY <1>2, <1>8, <1>14, <2>2, <3>1 DEF Pipe, Turns
  <2>13. Links'
    <3>1. Plain(t)
      BY <1>3, <2>1 DEF Pipe, Links, s
    <3> QED  BY <1>7, <2>2, <3>1 DEF Pipe, Links
  <2>14. Joint'
    <3>1. bound' # 0 /\ up'[bound'] # <<>> => Follows(Queued', up'[bound'][1])
      BY <1>3, <1>4, <2>1, <2>2, <2>11
    <3>2. wconn # 0 /\ link[wconn] /\ up'[wconn] = <<>> /\ bound' = wconn
            => Ahead(Queued', asked, peer, out)
      BY <1>3, <1>4, <1>11, <2>1, <2>2, <2>11
    <3> QED  BY <1>2, <1>10, <3>1, <3>2 DEF Joint
  <2>15. Full'
    BY <1>2, <2>2 DEF Pipe, Full
  <2> QED  BY <1>6, <2>10, <2>12, <2>13, <2>14, <2>15 DEF Pipe
<1> QED  BY <1>12, <1>13, <1>14

LEMMA DetachPipe == ASSUME NetTypes, RelayTypes, Pipe, Detach PROVE Pipe'
<1>1. bound' = 0 /\ bound # 0
  BY DEF Detach
<1>2. UNCHANGED <<out, peer, asked, wconn, dialled, synced, link, up, known, queue, written, screen>>
  BY DEF Detach, holderVars, workerVars, netVars
<1>3. Holder' /\ Queues' /\ Full' /\ Turns'
  BY <1>1, <1>2 DEF Pipe, Holder, Queues, Full, OnScreen, Turns
<1>4. \A c \in Conns : c # 0
  BY BoundsAssumption DEF Conns
<1>5. Links' /\ Joint'
  BY <1>1, <1>2, <1>4 DEF Pipe, Links, Joint
<1> QED  BY <1>3, <1>5 DEF Pipe

(* A chunk on the screen: what is queued behind it follows the screen.     *)
LEMMA RelayWritePipe ==
  ASSUME NetTypes, RelayTypes, Pipe, NEW e \in Conns, RelayWrite(e)
  PROVE  Pipe'
<1> DEFINE q == queue[e]
           t == Tail(q)
           f == q[1]
<1>1. /\ q \in Seq(Pieces) /\ q # <<>> /\ Linked(q, out) /\ Plain(q) /\ Follows(OnScreen, f)
      /\ queue' = [queue EXCEPT ![e] = t] /\ out \in Nat
      /\ screen \in Piece /\ screen.from <= screen.to /\ screen # None
  BY BoundsAssumption DEF RelayWrite, NetTypes, RelayTypes, Pipe, Queues
<1>2. UNCHANGED <<out, peer, asked, wconn, dialled, synced, link, up, known, bound>>
  BY DEF RelayWrite, holderVars, workerVars, netVars
<1>3. /\ Linked(t, out) /\ t \in Seq(Pieces) /\ f \in Pieces /\ Head(q) = f /\ Sound(f, out)
      /\ t # <<>> => /\ Follows(f, t[1]) /\ t[1] \in Pieces /\ t[Len(t)] = q[Len(q)]
      /\ t = <<>> => q[Len(q)] = f
      /\ Plain(t) /\ f.kind # "sync"
  BY <1>1, LinkedTail
<1>4. queue'[e] = t /\ \A d \in Conns \ {e} : queue'[d] = queue[d]
  BY <1>1 DEF RelayTypes
<1>5. IF IsNew(screen, f)
      THEN screen' = (IF f.kind = "snap" THEN Seeded(f) ELSE Written(screen, f))
           /\ written' = [written EXCEPT ![e] = f]
      ELSE UNCHANGED <<screen, written>>
  BY <1>3 DEF RelayWrite
<1> HIDE DEF q, t, f
<1>6. /\ f.from \in Nat /\ f.to \in 0 .. MaxOut /\ f.from <= f.to /\ f.to <= out
      /\ screen.from \in Nat /\ screen.to \in 0 .. MaxOut /\ screen.to <= out
      /\ screen.from <= Floor(screen.to) /\ MaxOut \in Nat
  BY <1>1, <1>3, BoundsAssumption DEF Pieces, Frame, Piece, Sound, Pipe, Full
<1>7. Floor(screen.to) \in Nat /\ Floor(f.to) \in Nat
  BY <1>6, FloorRises
<1>8. /\ screen'.to \in 0 .. MaxOut /\ screen.to <= screen'.to /\ f.to <= screen'.to
      /\ screen'.to <= out /\ screen'.from <= Floor(screen'.to)
  <2>1. CASE ~IsNew(screen, f)
    BY <1>5, <1>6, <2>1 DEF IsNew
  <2>2. CASE IsNew(screen, f) /\ f.kind = "snap"
    <3>1. screen' = Seeded(f) /\ f.from = Floor(f.to)
      BY <1>3, <1>5, <2>2 DEF Sound
    <3> QED  BY <1>6, <2>2, <3>1 DEF Seeded, IsNew
  <2>3. CASE IsNew(screen, f) /\ f.kind # "snap"
    <3>1. screen' = Written(screen, f)
      BY <1>5, <2>3
    <3>2. f.kind = "data"
      BY <1>3, <2>3 DEF Pieces, Frame
    <3>3. f.from <= screen.to
      BY <1>1, <3>2 DEF Follows, OnScreen, Chunk
    <3>4. Floor(screen.to) <= Floor(f.to)
      BY <1>6, <2>3, FloorRises DEF IsNew
    <3>5. screen'.to = f.to /\ screen'.from = Greater(screen.from, Floor(f.to))
      BY <1>6, <3>1, <3>3 DEF Written
    <3> QED  BY <1>6, <1>7, <2>3, <3>4, <3>5 DEF Greater, IsNew
  <2> QED  BY <2>1, <2>2, <2>3
<1> DEFINE g == OnScreen
           h == OnScreen'
<1>9. g \in Pieces /\ h \in Pieces /\ g.to <= h.to /\ f.to <= h.to /\ h.kind # "sync"
  BY <1>6, <1>8 DEF OnScreen, Chunk, Pieces, Frame
<1> HIDE DEF g, h
<1>10. Holder' /\ Links'
  BY <1>2 DEF Pipe, Holder, Links
<1>11. Queues'
  <2>1. ASSUME NEW d \in Conns
        PROVE  /\ Linked(queue'[d], out) /\ Plain(queue'[d])
               /\ queue'[d] # <<>> => Follows(h, queue'[d][1])
    <3>1. CASE d = e
      BY <1>3, <1>4, <1>9, <3>1, FollowsOn
    <3>2. CASE d # e
      <4>1. queue'[d] = queue[d] /\ Linked(queue[d], out) /\ Plain(queue[d])
        BY <1>4, <3>2 DEF Pipe, Queues
      <4>2. queue[d] # <<>> => Follows(g, queue[d][1]) /\ queue[d][1] \in Pieces
        BY DEF Pipe, Queues, RelayTypes, g
      <4> QED  BY <1>9, <4>1, <4>2, FollowsOn
    <3> QED  BY <3>1, <3>2
  <2> QED  BY <1>2, <2>1 DEF Queues, h
<1>12. Turns'
  <2>1. \A d \in Conns : queue'[d] # <<>> \/ written'[d] # None => queue[d] # <<>> \/ written[d] # None
    <3>1. queue[e] # <<>>
      BY <1>1 DEF q
    <3>2. \A d \in Conns \ {e} : written'[d] = written[d]
      BY <1>5 DEF RelayTypes
    <3> QED  BY <1>4, <3>1, <3>2
  <2> QED  BY <1>2, <2>1 DEF Pipe, Turns
<1>13. Full'
  BY <1>2, <1>8 DEF Full
<1>14. CASE bound # 0
  <2>1. /\ Queued \in Pieces /\ Queued' \in Pieces /\ Queued.to <= Queued'.to
        /\ Queued'.kind # "sync"
    <3>1. bound \in Conns
      BY <1>14 DEF RelayTypes, Conns
    <3>2. CASE queue'[bound] # <<>>
      <4>1. queue[bound] # <<>> /\ queue'[bound][Len(queue'[bound])] = queue[bound][Len(queue[bound])]
        BY <1>1, <1>3, <1>4, <3>1, <3>2 DEF q
      <4>2. queue[bound] \in Seq(Pieces) /\ Plain(queue[bound])
        BY <3>1 DEF RelayTypes, Pipe, Queues
      <4>3. Len(queue[bound]) \in 1 .. Len(queue[bound])
        BY <4>1, <4>2
      <4>4. Queued' = queue[bound][Len(queue[bound])] /\ Queued = Queued'
        BY <1>2, <3>2, <4>1 DEF Queued, LastOr
      <4>5. Queued \in Pieces /\ Queued.kind # "sync" /\ Queued.to \in Nat
        BY <4>2, <4>3, <4>4, BoundsAssumption DEF Plain, Pieces, Frame
      <4> QED  BY <4>4, <4>5
    <3>3. CASE queue'[bound] = <<>> /\ bound = e
      <4>1. Queued' = h /\ Queued = f
        BY <1>1, <1>2, <1>3, <1>4, <3>1, <3>3 DEF Queued, LastOr, q, h
      <4> QED  BY <1>3, <1>9, <4>1
    <3>4. CASE queue'[bound] = <<>> /\ bound # e
      <4>1. Queued' = h /\ Queued = g
        BY <1>2, <1>4, <3>1, <3>4 DEF Queued, LastOr, h, g
      <4> QED  BY <1>9, <4>1
    <3> QED  BY <3>2, <3>3, <3>4
  <2>2. up[bound] # <<>> => Follows(Queued', up[bound][1])
    <3>1. up[bound] # <<>> => Follows(Queued, up[bound][1]) /\ up[bound][1] \in Pieces
      BY <1>14 DEF Pipe, Joint, NetTypes, RelayTypes, Conns
    <3> QED  BY <2>1, <3>1, FollowsOn
  <2>3. Ahead(Queued, asked, peer, out) /\ wconn # 0 => Ahead(Queued', asked, peer, out)
    <3>1. wconn # 0 => peer \in Seq(Pieces)
      BY DEF Pipe, Holder, NetTypes
    <3>2. peer \in Seq(Pieces) /\ peer # <<>> => peer[1] \in Pieces
      OBVIOUS
    <3>3. Queued.to >= out => Queued'.to >= out
      BY <1>1, <2>1, BoundsAssumption DEF Pieces, Frame
    <3> QED  BY <2>1, <3>1, <3>2, <3>3, FollowsOn DEF Ahead
  <2>4. Joint'
    BY <1>2, <1>14, <2>2, <2>3 DEF Pipe, Joint
  <2> QED  BY <1>10, <1>11, <1>12, <1>13, <2>4 DEF Pipe
<1>15. CASE bound = 0
  <2>1. Joint'
    BY <1>2, <1>15 DEF Pipe, Joint
  <2> QED  BY <1>10, <1>11, <1>12, <1>13, <2>1 DEF Pipe
<1> QED  BY <1>14, <1>15

LEMMA RelayPublishPipe ==
  ASSUME NetTypes, RelayTypes, Pipe, NEW e \in Conns, RelayPublish(e)
  PROVE  Pipe'
<1>1. UNCHANGED <<out, peer, asked, wconn, dialled, synced, link, up, known, bound, queue, screen>>
  BY DEF RelayPublish, holderVars, workerVars, netVars
<1>2. Holder' /\ Links' /\ Queues' /\ Full' /\ Queued' = Queued
  BY <1>1 DEF Pipe, Holder, Links, Queues, Full, OnScreen, Queued
<1>3. Joint'
  BY <1>1, <1>2 DEF Pipe, Joint
<1>4. \A d \in Conns : written'[d] # None => written[d] # None
  BY DEF RelayPublish, RelayTypes
<1>5. Turns'
  BY <1>1, <1>4 DEF Pipe, Turns
<1> QED  BY <1>2, <1>3, <1>5 DEF Pipe

LEMMA BootPipe == ASSUME NetTypes, RelayTypes, Pipe, Boot PROVE Pipe'
<1>1. /\ \A c \in Conns : up'[c] = <<>> /\ queue'[c] = <<>> /\ written'[c] = None /\ ~link'[c]
      /\ bound' = 0 /\ screen' = None
  BY DEF Boot
<1>2. UNCHANGED <<out, peer, asked, wconn, dialled, synced, known>>
  BY DEF Boot, holderVars, workerVars
<1>3. Holder'
  BY <1>2 DEF Pipe, Holder
<1>4. Links'
  BY <1>1, <1>2, LinkedEmpty DEF Pipe, Links
<1>5. Turns'
  <2>1. \A c \in known : \A d \in 1 .. c - 1 : d \in Conns
    BY BoundsAssumption DEF RelayTypes, Conns
  <2> QED  BY <1>1, <1>2, <2>1 DEF Turns
<1>6. Queues' /\ Full'
  BY <1>1, LinkedEmpty DEF Queues, Full
<1>7. Joint'
  <2>1. wconn # 0 => wconn \in Conns
    BY DEF NetTypes, Conns
  <2> QED  BY <1>1, <1>2, <2>1 DEF Joint
<1> QED  BY <1>3, <1>4, <1>5, <1>6, <1>7 DEF Pipe

LEMMA PipeStep ==
  ASSUME NetTypes, RelayTypes, Drains, Pipe, [Next]_vars
  PROVE  Pipe'
<1>1. CASE \E n \in 1 .. 2 : Produce(n)
  BY <1>1, ProducePipe
<1>2. CASE Snap \/ Forward \/ Dial \/ EndSession \/ Crash \/ Recover \/ Break \/ Detach \/ Boot
  BY <1>2, SnapPipe, ForwardPipe, DialPipe, GonePipe, BreakPipe, DetachPipe, BootPipe
<1>3. CASE \E c \in Conns : Register(c) \/ SendSync(c) \/ Handle(c)
  BY <1>3, RegisterPipe, SendSyncPipe, HandlePipe
<1>4. CASE \E e \in Conns : RelayWrite(e) \/ RelayPublish(e)
  BY <1>4, RelayWritePipe, RelayPublishPipe
<1>5. CASE \/ SocketDown \/ SocketUp \/ Ask \/ TakeSnapshot \/ Restore \/ Hold \/ Purge \/ Show
           \/ UNCHANGED vars
  <2>1. UNCHANGED <<holderVars, workerVars, netVars, relayVars>>
    BY <1>5 DEF SocketDown, SocketUp, Ask, TakeSnapshot, Restore, Hold, Purge, Show, vars
  <2> QED
    BY <2>1 DEF Pipe, Holder, Links, Turns, Queues, Joint, Full, Queued, OnScreen,
                holderVars, workerVars, netVars, relayVars
<1> QED  BY <1>1, <1>2, <1>3, <1>4, <1>5 DEF Next

(* Once a reconnected worker's snapshot is in, the supervisor's screen has *)
(* all that the holder's has, whatever broke before (register.go:78), when *)
(* nothing is written while the snapshot is asked for and the frames of a  *)
(* connection are handled before the next is registered.                   *)
THEOREM SnapshotFilled == ASSUME Drains PROVE Spec => []SnapshotFills
<1>1. Init => NetTypes /\ RelayTypes /\ Pipe
  BY InitTypes, InitPipe DEF Types
<1>2. NetTypes /\ RelayTypes /\ Pipe /\ [Next]_vars => (NetTypes /\ RelayTypes /\ Pipe)'
  BY WayTypes, PipeStep
<1>3. NetTypes /\ RelayTypes /\ Pipe => SnapshotFills
  <2> SUFFICES ASSUME NetTypes, RelayTypes, Pipe, Settled
               PROVE  screen.to = out /\ screen.from <= Floor(out)
    BY DEF SnapshotFills
  <2>1. bound \in Conns /\ queue[bound] = <<>> /\ screen # None
    BY DEF Settled, RelayTypes, Conns
  <2>2. Ahead(Queued, asked, peer, out) /\ Queued = OnScreen
    BY <2>1 DEF Settled, Pipe, Joint, Queued, LastOr
  <2>3. screen.to >= out
    BY <2>2 DEF Settled, Ahead, OnScreen, Chunk
  <2>4. screen.to <= out /\ screen.from <= Floor(screen.to) /\ screen.to \in Nat /\ out \in Nat
    BY <2>1, BoundsAssumption DEF Pipe, Full, RelayTypes, NetTypes, Piece
  <2> QED  BY <2>3, <2>4
<1> QED
  BY <1>1, <1>2, <1>3, PTL DEF Spec

-----------------------------------------------------------------------------
(* No line is shown for what can be shown: n is where the terminal ends, o *)
(* what the process has written.                                           *)
Fills(t, n, o) ==
  /\ \A i \in DOMAIN t : i > 1 /\ t[i - 1] = gap /\ t[i] # gap => t[i] <= Floor(o) + 1
  /\ t # <<>> /\ t[Len(t)] = gap => n <= Floor(o)

LEMMA FillNext ==
  ASSUME NEW t \in Lines, NEW n \in 0 .. MaxOut, NEW o \in Nat, Fills(t, n, o),
         NEW b \in 0 .. MaxOut, n <= b
  PROVE  Fills(t \o Bytes(n, b), b, o)
<1> DEFINE s == Bytes(n, b)
           u == t \o s
           m == Len(t)
<1>1. s \in Lines /\ Len(s) = b - n /\ \A i \in 1 .. b - n : s[i] = n + i
  BY BytesType
<1>2. Floor(o) \in Nat /\ b \in Nat /\ n \in Nat
  BY FloorRises, BoundsAssumption
<1> HIDE DEF s
<1>3. /\ u \in Lines /\ Len(u) = m + (b - n) /\ m \in Nat /\ DOMAIN u = 1 .. m + (b - n)
      /\ \A i \in 1 .. m : u[i] = t[i]
      /\ \A i \in m + 1 .. m + (b - n) : u[i] = s[i - m]
  BY <1>1 DEF Lines
<1>4. \A i \in m + 1 .. m + (b - n) : u[i] = n + (i - m) /\ u[i] # gap
  <2> SUFFICES ASSUME NEW i \in m + 1 .. m + (b - n) PROVE u[i] = n + (i - m) /\ u[i] # gap
    OBVIOUS
  <2>1. i - m \in 1 .. b - n /\ u[i] = s[i - m]
    BY <1>2, <1>3
  <2>2. s[i - m] = n + (i - m) /\ n + (i - m) \in Nat
    BY <1>1, <1>2, <2>1
  <2> QED  BY <2>1, <2>2, NoneAssumption
<1>5. DOMAIN t = 1 .. m /\ (t = <<>> <=> m = 0)
  BY <1>3 DEF Lines
<1> HIDE DEF u, m
<1>6. ASSUME NEW i \in DOMAIN u, i > 1, u[i - 1] = gap, u[i] # gap PROVE u[i] <= Floor(o) + 1
  <2>1. CASE i \in 1 .. m
    <3>1. i \in DOMAIN t /\ i - 1 \in 1 .. m
      BY <1>3, <1>5, <1>6, <2>1
    <3> QED  BY <1>3, <1>6, <2>1, <3>1 DEF Fills
  <2>2. CASE i = m + 1
    <3>1. m \in 1 .. m /\ i - 1 = m /\ u[m] = t[m] /\ t # <<>>
      BY <1>3, <1>5, <1>6, <2>2
    <3>2. n <= Floor(o)
      BY <1>6, <3>1 DEF Fills, m
    <3>3. i \in m + 1 .. m + (b - n) /\ i - m = 1
      BY <1>3, <1>6, <2>2
    <3>4. u[i] = n + 1
      BY <1>4, <3>3
    <3> QED  BY <1>2, <3>2, <3>4
  <2>3. CASE i > m + 1
    <3>1. i - 1 \in m + 1 .. m + (b - n)
      BY <1>3, <1>6, <2>3
    <3> QED  BY <1>4, <1>6, <3>1
  <2>4. i \in 1 .. m \/ i = m + 1 \/ i > m + 1
    BY <1>3, <1>6
  <2> QED  BY <2>1, <2>2, <2>3, <2>4
<1>7. ASSUME u # <<>>, u[Len(u)] = gap PROVE b <= Floor(o)
  <2>1. CASE b = n
    <3>1. Len(u) = m /\ m # 0
      BY <1>2, <1>3, <1>7, <2>1 DEF Lines
    <3>2. t # <<>> /\ m \in 1 .. m /\ t[m] = gap
      BY <1>3, <1>5, <1>7, <3>1
    <3> QED  BY <2>1, <3>2 DEF Fills, m
  <2>2. CASE b # n
    <3>1. Len(u) \in m + 1 .. m + (b - n)
      BY <1>2, <1>3, <2>2
    <3> QED  BY <1>4, <1>7, <3>1
  <2> QED  BY <2>1, <2>2
<1> QED  BY <1>6, <1>7 DEF Fills, u, s

LEMMA FillGap ==
  ASSUME NEW t \in Lines, NEW n, NEW o \in Nat, Fills(t, n, o), NEW a \in 0 .. MaxOut,
         a <= Floor(o)
  PROVE  Fills(t \o <<gap>>, a, o)
<1> DEFINE u == t \o <<gap>>
           m == Len(t)
<1>1. /\ u \in Lines /\ Len(u) = m + 1 /\ m \in Nat /\ u[m + 1] = gap
      /\ \A i \in 1 .. m : u[i] = t[i]
      /\ DOMAIN u = 1 .. m + 1 /\ DOMAIN t = 1 .. m
  BY DEF Lines
<1> HIDE DEF u, m
<1>2. ASSUME NEW i \in DOMAIN u, i > 1, u[i - 1] = gap, u[i] # gap PROVE u[i] <= Floor(o) + 1
  <2>1. i \in 1 .. m /\ i - 1 \in 1 .. m
    BY <1>1, <1>2
  <2> QED  BY <1>1, <1>2, <2>1 DEF Fills
<1> QED  BY <1>2 DEF Fills, u

LEMMA FillLater ==
  ASSUME NEW t \in Lines, NEW n \in 0 .. MaxOut, NEW o \in Nat, NEW p \in Nat, o <= p, Fills(t, n, o)
  PROVE  Fills(t, n, p)
<1>1. Floor(o) <= Floor(p) /\ Floor(o) \in Nat /\ Floor(p) \in Nat /\ n \in Nat
  BY FloorRises, BoundsAssumption
<1>2. ASSUME NEW i \in DOMAIN t, i > 1, t[i - 1] = gap, t[i] # gap PROVE t[i] <= Floor(p) + 1
  <2>1. t[i] \in Nat
    BY <1>2, BoundsAssumption DEF Lines
  <2>2. t[i] <= Floor(o) + 1
    BY <1>2 DEF Fills
  <2> QED  BY <1>1, <2>1, <2>2
<1> QED  BY <1>1, <1>2 DEF Fills

LEMMA FillNothing == ASSUME NEW o PROVE Fills(<<>>, 0, o)
  BY DEF Fills

-----------------------------------------------------------------------------
(* What comes to a terminal that ends at n leaves out only what no screen  *)
(* has any more.                                                           *)
Near(n, f, o) == f.from <= n \/ f.from <= Floor(o)
Joining(n, s, o) ==
  /\ s # <<>> => Near(n, s[1], o)
  /\ \A i \in 1 .. Len(s) - 1 : Near(s[i].to, s[i + 1], o)
EndOf(n, s) == IF s = <<>> THEN n ELSE s[Len(s)].to

LEMMA EndType ==
  ASSUME NEW n \in Nat, NEW s \in Seq(Pieces)
  PROVE  /\ EndOf(n, s) \in Nat
         /\ \A i \in 1 .. Len(s) : s[i] \in Pieces /\ s[i].from \in Nat /\ s[i].to \in Nat
<1>1. \A i \in 1 .. Len(s) : s[i] \in Pieces /\ s[i].from \in Nat /\ s[i].to \in Nat
  BY BoundsAssumption DEF Pieces, Frame
<1>2. s # <<>> => Len(s) \in 1 .. Len(s)
  OBVIOUS
<1> QED  BY <1>1, <1>2 DEF EndOf

LEMMA JoinFrom ==
  ASSUME NEW n \in Nat, NEW m \in Nat, n <= m, NEW s \in Seq(Pieces), NEW o, Joining(n, s, o)
  PROVE  Joining(m, s, o) /\ EndOf(n, s) <= EndOf(m, s)
<1>1. s # <<>> => 1 \in 1 .. Len(s)
  OBVIOUS
<1>2. s # <<>> => s[1].from \in Nat
  BY <1>1, EndType
<1>3. s # <<>> => Near(m, s[1], o)
  BY <1>2 DEF Joining, Near
<1>4. EndOf(n, s) <= EndOf(m, s)
  <2>1. s # <<>> => EndOf(n, s) = EndOf(m, s) /\ EndOf(n, s) \in Nat
    BY EndType DEF EndOf
  <2> QED  BY <2>1 DEF EndOf
<1> QED  BY <1>3, <1>4 DEF Joining

LEMMA JoinLater ==
  ASSUME NEW n \in Nat, NEW s \in Seq(Pieces), NEW o \in Nat, NEW p \in Nat, o <= p, Joining(n, s, o)
  PROVE  Joining(n, s, p)
<1>1. Floor(o) <= Floor(p) /\ Floor(o) \in Nat /\ Floor(p) \in Nat
  BY FloorRises
<1>2. \A i \in 1 .. Len(s) : s[i].from \in Nat
  BY EndType
<1>3. s # <<>> => 1 \in 1 .. Len(s)
  OBVIOUS
<1>4. \A i \in 1 .. Len(s) - 1 : i + 1 \in 1 .. Len(s)
  OBVIOUS
<1> QED  BY <1>1, <1>2, <1>3, <1>4 DEF Joining, Near

LEMMA JoinAppend ==
  ASSUME NEW n \in Nat, NEW s \in Seq(Pieces), NEW o, Joining(n, s, o), NEW f \in Pieces,
         Near(EndOf(n, s), f, o)
  PROVE  Joining(n, Append(s, f), o) /\ EndOf(n, Append(s, f)) = f.to
<1> DEFINE t == Append(s, f)
<1>1. /\ Len(s) \in Nat /\ t \in Seq(Pieces) /\ Len(t) = Len(s) + 1 /\ t[Len(s) + 1] = f
      /\ \A i \in 1 .. Len(s) : t[i] = s[i]
      /\ (s = <<>> <=> Len(s) = 0) /\ t # <<>>
  OBVIOUS
<1> HIDE DEF t
<1>2. Near(n, t[1], o)
  BY <1>1 DEF Joining, EndOf
<1>3. ASSUME NEW i \in 1 .. Len(t) - 1 PROVE Near(t[i].to, t[i + 1], o)
  <2>1. CASE i = Len(s)
    BY <1>1, <2>1 DEF EndOf
  <2>2. CASE i # Len(s)
    <3>1. i \in 1 .. Len(s) - 1 /\ i + 1 \in 1 .. Len(s) /\ i \in 1 .. Len(s)
      BY <1>1, <2>2
    <3> QED  BY <1>1, <3>1 DEF Joining
  <2> QED  BY <2>1, <2>2
<1> QED  BY <1>1, <1>2, <1>3 DEF Joining, EndOf, t

(* Once the first has come, and perhaps more.                              *)
LEMMA JoinTail ==
  ASSUME NEW n \in Nat, NEW s \in Seq(Pieces), s # <<>>, NEW o, Joining(n, s, o),
         NEW m \in Nat, s[1].to <= m
  PROVE  Joining(m, Tail(s), o) /\ EndOf(n, s) <= EndOf(m, Tail(s)) /\ Near(n, s[1], o)
<1> DEFINE t == Tail(s)
<1>1. /\ Len(s) \in Nat \ {0} /\ t \in Seq(Pieces) /\ Len(t) = Len(s) - 1
      /\ \A i \in 1 .. Len(t) : t[i] = s[i + 1]
      /\ (t = <<>> <=> Len(t) = 0)
  <2>1. Len(s) \in Nat \ {0}
    OBVIOUS
  <2>2. t \in Seq(Pieces) /\ Len(t) = Len(s) - 1
    BY HeadTailProperties
  <2>3. \A i \in 1 .. Len(t) : t[i] = s[i + 1]
    BY <2>1, <2>2
  <2>4. t = <<>> <=> Len(t) = 0
    BY <2>2, EmptySeq
  <2> QED  BY <2>1, <2>2, <2>3, <2>4
<1> HIDE DEF t
<1>2. /\ \A i \in 1 .. Len(t) - 1 : i \in 1 .. Len(t) /\ i + 1 \in 1 .. Len(t) /\ i + 1 \in 1 .. Len(s) - 1
      /\ t # <<>> => 1 \in 1 .. Len(t) /\ 1 \in 1 .. Len(s) - 1 /\ Len(t) \in 1 .. Len(t)
      /\ 1 \in 1 .. Len(s) /\ Len(s) \in 1 .. Len(s)
  BY <1>1
<1>3. \A i \in 1 .. Len(t) - 1 : Near(t[i].to, t[i + 1], o)
  BY <1>1, <1>2 DEF Joining
<1>4. t # <<>> => Near(s[1].to, t[1], o) /\ t[1].from \in Nat /\ s[1].to \in Nat
  <2>1. t # <<>> => t[1] = s[2] /\ Near(s[1].to, s[2], o)
    BY <1>1, <1>2 DEF Joining
  <2> QED  BY <1>1, <1>2, <2>1, EndType
<1>5. t # <<>> => Near(m, t[1], o)
  BY <1>4 DEF Near
<1>6. EndOf(n, s) <= EndOf(m, t)
  <2>1. CASE t = <<>>
    <3>1. Len(s) = 1
      BY <1>1, <2>1
    <3> QED  BY <2>1, <3>1 DEF EndOf
  <2>2. CASE t # <<>>
    <3>1. t[Len(t)] = s[Len(s)]
      BY <1>1, <1>2, <2>2
    <3>2. s[Len(s)].to \in Nat
      BY <1>2, EndType
    <3> QED  BY <2>2, <3>1, <3>2 DEF EndOf
  <2> QED  BY <2>1, <2>2
<1> QED  BY <1>3, <1>5, <1>6 DEF Joining, t

-----------------------------------------------------------------------------
(* No race let in, and the supervisor stays up.                            *)
Closed == Windows = {} /\ MaxBoot = 0

Reached == IF tab = "live" THEN last ELSE EndOf(0, held)
Received == EndOf(Reached, wire)

(* Relays take turns.                                                      *)
InOrder ==
  \A d, e \in Conns :
    written[d] # None /\ (queue[e] # <<>> \/ written[e] # None) => d <= e

(* What a relay has taken and what its screen has is on its way to the tab *)
(* or was there.                                                           *)
Brought ==
  /\ \A e \in Conns : written[e] # None => Near(Received, written[e], out) /\ written[e].to >= screen.to
  /\ (\A e \in Conns : written[e] = None) => Received >= screen.to

Arrives ==
  /\ sub /\ screen # None /\ boots = 0
  /\ tab = "answered" => answer # None /\ answer.from <= Floor(out)
  /\ tab = "live" => last # None
  /\ held # <<>> => Near(0, held[1], out)
  /\ Joining(Reached, wire, out)

Filled == tab = "live" => Fills(term, last, out)

Complete == InOrder /\ Arrives /\ Brought /\ Filled

LEMMA ReachedType ==
  ASSUME TabTypes, Arrives
  PROVE  Reached \in Nat /\ Received \in Nat /\ (tab = "live" => last \in 0 .. MaxOut)
<1>1. tab = "live" => last \in 0 .. MaxOut
  BY DEF TabTypes, Arrives
<1>2. EndOf(0, held) \in Nat
  BY EndType DEF TabTypes
<1>3. Reached \in Nat
  BY <1>1, <1>2, BoundsAssumption DEF Reached
<1> QED  BY <1>1, <1>3, EndType DEF Received, TabTypes

(* What the tab has only grows.                                            *)
LEMMA BroughtMore ==
  ASSUME RelayTypes, TabTypes, Arrives, Brought, UNCHANGED <<out, written, screen>>,
         Received' \in Nat, Received <= Received'
  PROVE  Brought'
<1>1. \A e \in Conns : written[e] # None => written[e].from \in Nat
  BY BoundsAssumption DEF RelayTypes, Pieces, Frame
<1>2. screen.to \in Nat /\ Received \in Nat
  BY ReachedType, BoundsAssumption DEF RelayTypes, Arrives, Piece
<1>3. \A e \in Conns : written[e] # None => Near(Received', written[e], out)
  BY <1>1, <1>2 DEF Brought, Near
<1>4. Received >= screen.to => Received' >= screen.to
  BY <1>2
<1> QED  BY <1>3, <1>4 DEF Brought

LEMMA InitComplete == ASSUME Init PROVE Complete
<1>1. \A e \in Conns : written[e] = None
  BY DEF Init
<1>2. screen # None
  <2>1. screen \in Piece
    BY BoundsAssumption DEF Init, Piece
  <2> QED  BY <2>1, NoneAssumption
<1>3. Reached = 0 /\ Received = 0 /\ screen.to = 0
  BY DEF Init, Reached, Received, EndOf
<1>4. Joining(Reached, wire, out)
  BY DEF Init, Joining
<1> QED
  BY <1>1, <1>2, <1>3, <1>4 DEF Init, Complete, InOrder, Arrives, Brought, Filled

(* Nothing of it changes.                                                  *)
LEMMA CompleteKept ==
  ASSUME Complete, UNCHANGED <<out, queue, written, screen, tabVars, boots>>
  PROVE  Complete'
BY DEF Complete, InOrder, Arrives, Brought, Filled, Reached, Received, tabVars

(* Screens give up their oldest output.                                    *)
LEMMA ProduceComplete ==
  ASSUME Types, Complete, NEW n \in 1 .. 2, Produce(n)
  PROVE  Complete'
<1>1. UNCHANGED <<queue, written, screen, tabVars, boots>>
  BY DEF Produce, relayVars
<1>2. out \in Nat /\ out' \in Nat /\ out <= out'
  BY BoundsAssumption DEF Produce, Types, NetTypes
<1>3. Floor(out) <= Floor(out') /\ Floor(out) \in Nat /\ Floor(out') \in Nat
  BY <1>2, FloorRises
<1>4. Reached' = Reached /\ Received' = Received /\ Reached \in Nat
  BY <1>1, ReachedType DEF Complete, Types, Reached, Received, tabVars
<1>5. ASSUME NEW k, NEW f \in Pieces, Near(k, f, out) PROVE Near(k, f, out')
  <2>1. f.from \in Nat
    BY BoundsAssumption DEF Pieces, Frame
  <2> QED  BY <1>3, <1>5, <2>1 DEF Near
<1>6. InOrder'
  BY <1>1 DEF Complete, InOrder
<1>7. Arrives'
  <2>1. held # <<>> => Near(0, held[1], out')
    <3>1. held # <<>> => held[1] \in Pieces
      BY DEF Types, TabTypes
    <3> QED  BY <1>5, <3>1 DEF Complete, Arrives
  <2>2. Joining(Reached, wire, out')
    BY <1>2, <1>4, JoinLater DEF Complete, Arrives, Types, TabTypes
  <2>3. tab = "answered" => answer.from \in Nat /\ answer # None /\ answer.from <= Floor(out)
    BY BoundsAssumption DEF Types, TabTypes, Complete, Arrives, Piece
  <2>4. tab = "answered" => answer.from <= Floor(out')
    BY <1>3, <2>3
  <2> QED  BY <1>1, <1>4, <2>1, <2>2, <2>4 DEF Complete, Arrives, tabVars
<1>8. Brought'
  <2>1. \A e \in Conns : written[e] # None => Near(Received, written[e], out')
    BY <1>5 DEF Complete, Brought, Types, RelayTypes
  <2> QED  BY <1>1, <1>4, <2>1 DEF Complete, Brought
<1>9. Filled'
  <2>1. tab = "live" => last \in 0 .. MaxOut
    BY ReachedType DEF Types, Complete
  <2>2. tab = "live" => Fills(term, last, out')
    BY <1>2, <2>1, FillLater DEF Complete, Filled, Types, TabTypes
  <2> QED  BY <1>1, <2>2 DEF Filled, tabVars
<1> QED  BY <1>6, <1>7, <1>8, <1>9 DEF Complete

LEMMA HandleComplete ==
  ASSUME Types, Pipe, Complete, NEW c \in Conns, Handle(c)
  PROVE  Complete'
<1>1. UNCHANGED <<out, written, tabVars, boots, known>> /\ screen # None
  BY DEF Handle, holderVars, Complete, Arrives
<1>2. screen' = screen
  BY <1>1 DEF Handle
<1>3. \A e \in Conns : queue'[e] # <<>> => queue[e] # <<>> \/ e = bound
  BY DEF Handle, Types, RelayTypes
<1>4. ASSUME NEW d \in Conns, NEW e \in Conns, written[d] # None, queue'[e] # <<>> PROVE d <= e
  <2>1. CASE queue[e] # <<>>
    BY <1>4, <2>1 DEF Complete, InOrder
  <2>2. CASE e = bound
    <3>1. d \in known /\ e # 0
      BY <1>4, BoundsAssumption DEF Pipe, Turns, Conns
    <3> QED  BY <2>2, <3>1 DEF Pipe, Turns
  <2> QED  BY <1>3, <1>4, <2>1, <2>2
<1>5. InOrder'
  BY <1>1, <1>4 DEF Complete, InOrder
<1>6. Arrives' /\ Brought' /\ Filled'
  BY <1>1, <1>2 DEF Complete, Arrives, Brought, Filled, Reached, Received, tabVars
<1> QED  BY <1>5, <1>6 DEF Complete

(* A chunk on the screen is the one to be published next.                  *)
LEMMA WriteComplete ==
  ASSUME Types, Pipe, Complete, Closed, NEW e \in Conns, RelayWrite(e)
  PROVE  Complete'
<1> DEFINE c == queue[e][1]
<1>1. /\ queue[e] # <<>> /\ written[e] = None /\ queue[e] \in Seq(Pieces)
      /\ \A d \in Conns : d < e => queue[d] = <<>> /\ written[d] = None
      /\ queue' = [queue EXCEPT ![e] = Tail(@)]
      /\ UNCHANGED <<out, tabVars, boots>>
  BY DEF RelayWrite, Closed, holderVars, Types, RelayTypes
<1>2. Head(queue[e]) = c /\ c \in Pieces
  BY <1>1
<1>3. IF IsNew(screen, c)
      THEN screen' = (IF c.kind = "snap" THEN Seeded(c) ELSE Written(screen, c))
           /\ written' = [written EXCEPT ![e] = c]
      ELSE UNCHANGED <<screen, written>>
  BY <1>2 DEF RelayWrite
<1>4. Follows(OnScreen, c) /\ c.kind # "sync" /\ Sound(c, out)
  <2>1. 1 \in 1 .. Len(queue[e])
    BY <1>1
  <2> QED  BY <1>1, <2>1 DEF Pipe, Queues, Plain, Linked
<1> HIDE DEF c
<1>5. \A d \in Conns : written[d] = None
  <2> SUFFICES ASSUME NEW d \in Conns, written[d] # None PROVE FALSE
    OBVIOUS
  <2>1. d <= e
    BY <1>1 DEF Complete, InOrder
  <2>2. d < e \/ d = e
    BY <2>1, BoundsAssumption DEF Conns
  <2> QED  BY <1>1, <2>2
<1>6. \A d \in Conns : queue'[d] # <<>> => queue[d] # <<>>
  BY <1>1 DEF Types, RelayTypes
<1>7. Reached' = Reached /\ Received' = Received /\ Received \in Nat
  BY <1>1, ReachedType DEF Complete, Types, Reached, Received, tabVars
<1>8. CASE ~IsNew(screen, c)
  <2>1. UNCHANGED <<screen, written>>
    BY <1>3, <1>8
  <2>2. InOrder'
    BY <1>6, <2>1 DEF Complete, InOrder
  <2> QED  BY <1>1, <1>7, <2>1, <2>2 DEF Complete, Arrives, Brought, Filled, tabVars
<1>9. CASE IsNew(screen, c)
  <2>1. /\ written' = [written EXCEPT ![e] = c]
        /\ screen' = (IF c.kind = "snap" THEN Seeded(c) ELSE Written(screen, c))
    BY <1>3, <1>9
  <2>2. screen'.to = c.to /\ c.to \in Nat
    BY <1>2, <2>1, BoundsAssumption DEF Seeded, Written, Pieces, Frame
  <2>3. screen' # None
    <3>1. screen' \in Piece
      BY <1>2, <1>9, <2>1, NewScreen DEF Types, Complete, Arrives
    <3> QED  BY <3>1, NoneAssumption
  <2>4. Near(Received, c, out)
    <3>1. Received >= screen.to
      BY <1>5 DEF Complete, Brought
    <3>2. c.from \in Nat /\ screen.to \in Nat /\ c.to \in Nat /\ out \in Nat /\ c.to <= out
      BY <1>2, <1>4, BoundsAssumption
      DEF Pieces, Frame, Types, RelayTypes, NetTypes, Complete, Arrives, Piece, Sound
    <3>3. CASE c.kind = "snap"
      <4>1. c.from = Floor(c.to) /\ Floor(c.to) <= Floor(out)
        BY <1>4, <3>2, <3>3, FloorRises DEF Sound
      <4> QED  BY <4>1 DEF Near
    <3>4. CASE c.kind # "snap"
      <4>1. c.kind = "data"
        BY <1>2, <1>4, <3>4 DEF Pieces, Frame
      <4>2. c.from <= screen.to
        BY <1>4, <4>1 DEF Follows, OnScreen, Chunk
      <4> QED  BY <1>7, <3>1, <3>2, <4>2 DEF Near
    <3> QED  BY <3>3, <3>4
  <2>5. written'[e] = c /\ c # None /\ \A d \in Conns \ {e} : written'[d] = None
    <3>1. c # None
      BY <1>2, NoneAssumption DEF Pieces
    <3> QED  BY <1>5, <2>1, <3>1 DEF Types, RelayTypes
  <2>6. Brought'
    BY <1>1, <1>7, <2>2, <2>4, <2>5 DEF Brought
  <2>7. InOrder'
    <3> SUFFICES ASSUME NEW f \in Conns, queue'[f] # <<>> \/ written'[f] # None PROVE e <= f
      BY <2>5 DEF InOrder
    <3>1. CASE f = e
      BY <3>1, BoundsAssumption DEF Conns
    <3>2. CASE f # e
      <4>1. queue[f] # <<>>
        BY <1>6, <2>5, <3>2
      <4>2. ~(f < e)
        BY <1>1, <4>1
      <4> QED  BY <4>2, BoundsAssumption DEF Conns
    <3> QED  BY <3>1, <3>2
  <2>8. Arrives' /\ Filled'
    BY <1>1, <1>7, <2>3 DEF Complete, Arrives, Filled, tabVars
  <2> QED  BY <2>6, <2>7, <2>8 DEF Complete
<1> QED  BY <1>8, <1>9

LEMMA PublishComplete ==
  ASSUME Types, Complete, NEW e \in Conns, RelayPublish(e)
  PROVE  Complete'
<1> DEFINE c == written[e]
<1>1. /\ c # None /\ c \in Pieces /\ written' = [written EXCEPT ![e] = None]
      /\ wire' = Append(wire, c)
      /\ UNCHANGED <<out, queue, screen, sub, tab, answer, held, last, term, boots>>
  BY DEF RelayPublish, holderVars, Complete, Arrives, Types, RelayTypes
<1>2. \A d \in Conns : written'[d] = None
  <2>1. ASSUME NEW d \in Conns, written[d] # None PROVE d = e
    <3>1. d <= e /\ e <= d
      BY <1>1, <2>1 DEF Complete, InOrder
    <3> QED  BY <3>1, BoundsAssumption DEF Conns
  <2> QED  BY <1>1, <2>1 DEF Types, RelayTypes
<1>3. wire \in Seq(Pieces) /\ Joining(Reached, wire, out) /\ Reached \in Nat
      /\ Near(EndOf(Reached, wire), c, out) /\ c.to >= screen.to
  BY <1>1, ReachedType DEF Types, TabTypes, Complete, Arrives, Brought, Received
<1> HIDE DEF c
<1>4. Joining(Reached, wire', out) /\ EndOf(Reached, wire') = c.to
  BY <1>1, <1>3, JoinAppend
<1>5. Reached' = Reached /\ Received' = c.to
  BY <1>1, <1>4 DEF Reached, Received
<1>6. InOrder' /\ Brought'
  BY <1>1, <1>2, <1>3, <1>5 DEF InOrder, Brought
<1>7. Arrives' /\ Filled'
  BY <1>1, <1>4, <1>5 DEF Complete, Arrives, Filled
<1> QED  BY <1>6, <1>7 DEF Complete

(* The tab.                                                                *)
LEMMA HoldComplete ==
  ASSUME Types, Complete, Hold
  PROVE  Complete'
<1> DEFINE c == wire[1]
<1>1. /\ wire # <<>> /\ wire \in Seq(Pieces) /\ Head(wire) = c /\ c \in Pieces /\ tab # "live"
      /\ wire' = Tail(wire) /\ held' = Append(held, c) /\ held \in Seq(Pieces)
      /\ UNCHANGED <<out, queue, written, screen, sub, tab, answer, last, term, boots>>
  BY DEF Hold, holderVars, relayVars, Types, TabTypes
<1>2. c.to \in Nat
  BY <1>1, BoundsAssumption DEF Pieces, Frame
<1>3. Joining(Reached, wire, out) /\ Reached \in Nat /\ Received \in Nat /\ Reached = EndOf(0, held)
  BY <1>1, ReachedType DEF Types, Complete, Arrives, Reached
<1>4. /\ Joining(c.to, wire', out) /\ EndOf(Reached, wire) <= EndOf(c.to, wire')
      /\ Near(Reached, c, out)
  BY <1>1, <1>2, <1>3, JoinTail
<1>5. wire' \in Seq(Pieces)
  BY <1>1, HeadTailProperties
<1> HIDE DEF c
<1>6. EndOf(0, held') = c.to /\ held' # <<>> /\ held'[1] = IF held = <<>> THEN c ELSE held[1]
  BY <1>1 DEF EndOf
<1>7. Reached' = c.to
  BY <1>1, <1>6 DEF Reached
<1>8. Received' = EndOf(c.to, wire') /\ Received' \in Nat /\ Received <= Received'
  BY <1>2, <1>4, <1>5, <1>7, EndType DEF Received
<1>9. Near(0, held'[1], out)
  BY <1>3, <1>4, <1>6 DEF Complete, Arrives, EndOf
<1>10. Brought'
  BY <1>1, <1>8, BroughtMore DEF Types, Complete
<1>11. InOrder' /\ Arrives' /\ Filled'
  BY <1>1, <1>4, <1>7, <1>9 DEF Complete, InOrder, Arrives, Filled
<1> QED  BY <1>10, <1>11 DEF Complete

LEMMA RestoreComplete ==
  ASSUME Types, Shown, Complete, Closed, Restore
  PROVE  Complete'
<1>1. /\ answer # None /\ answer.from <= Floor(out) /\ tab = "answered" /\ tab' = "live"
      /\ held' = <<>> /\ Joins /\ Joined
      /\ UNCHANGED <<out, queue, written, screen, sub, wire, boots>>
  BY DEF Restore, Complete, Arrives, Closed, Joins, Shown, holderVars, relayVars
<1> DEFINE s == ShownSnapshot(answer)
           a == answer.to
<1>2. /\ last' \in 0 .. MaxOut /\ a <= last' /\ last' = IF held = <<>> THEN a ELSE held[Len(held)].to
      /\ \/ term' = s /\ last' = a
         \/ term' = s \o Bytes(a, last')
         \/ /\ held # <<>> /\ a < held[1].from /\ held[1].from <= last'
            /\ term' = (s \o <<gap>>) \o Bytes(held[1].from, last')
  BY <1>1, RestoreTerm DEF Types
<1>3. a \in 0 .. MaxOut /\ s \in Lines
  BY <1>1, SnapshotShown DEF Types
<1>4. out \in Nat /\ Floor(out) \in Nat
  BY FloorRises, BoundsAssumption DEF Types, NetTypes
<1>5. Fills(s, a, out)
  <2>1. answer.from \in 0 .. MaxOut /\ answer.from <= a
    BY <1>1 DEF Types, TabTypes, Piece
  <2>2. <<>> \in Lines /\ <<>> \o <<gap>> = <<gap>> /\ <<gap>> \in Lines
    BY OnlyGap, BoundsAssumption DEF Lines
  <2>3. CASE answer.from > 0
    <3>1. s = <<gap>> \o Bytes(answer.from, a)
      BY <1>1, <2>3 DEF ShownSnapshot
    <3>2. Fills(<<gap>>, answer.from, out)
      BY <1>1, <1>4, <2>1, <2>2, FillNothing, FillGap
    <3> QED  BY <1>3, <1>4, <2>1, <2>2, <3>1, <3>2, FillNext
  <2>4. CASE ~(answer.from > 0)
    <3>1. answer.from = 0
      BY <2>1, <2>4
    <3>2. s = <<>> \o Bytes(0, a)
      BY <1>1, <2>4, <3>1 DEF ShownSnapshot
    <3>3. 0 \in 0 .. MaxOut
      BY BoundsAssumption
    <3> QED  BY <1>3, <1>4, <2>1, <2>2, <3>1, <3>2, <3>3, FillNothing, FillNext
  <2> QED  BY <2>3, <2>4
<1> HIDE DEF s, a
<1>6. Fills(term', last', out)
  <2>1. CASE term' = s /\ last' = a
    BY <1>5, <2>1
  <2>2. CASE term' = s \o Bytes(a, last')
    BY <1>2, <1>3, <1>4, <1>5, <2>2, FillNext
  <2>3. CASE /\ held # <<>> /\ a < held[1].from /\ held[1].from <= last'
             /\ term' = (s \o <<gap>>) \o Bytes(held[1].from, last')
    <3>1. held[1].from \in 0 .. MaxOut
      BY <1>1, <2>3, HeldRises DEF Types, TabTypes
    <3>2. held[1].from <= Floor(out)
      <4>1. Near(0, held[1], out)
        BY <2>3 DEF Complete, Arrives
      <4>2. ~(held[1].from <= 0)
        BY <1>3, <2>3, <3>1
      <4> QED  BY <4>1, <4>2 DEF Near
    <3>3. s \o <<gap>> \in Lines
      <4>1. <<gap>> \in Lines
        BY OnlyGap, BoundsAssumption
      <4> QED  BY <1>3, <4>1 DEF Lines
    <3>4. Fills(s \o <<gap>>, held[1].from, out)
      BY <1>3, <1>4, <1>5, <3>1, <3>2, FillGap
    <3> QED  BY <1>2, <1>4, <2>3, <3>1, <3>3, <3>4, FillNext
  <2> QED  BY <1>2, <2>1, <2>2, <2>3
<1>7. Reached \in Nat /\ wire \in Seq(Pieces) /\ Joining(Reached, wire, out) /\ last' \in Nat
  BY <1>2, ReachedType, BoundsAssumption DEF Types, TabTypes, Complete, Arrives
<1>8. Reached <= last' /\ Reached' = last'
  BY <1>1, <1>2, <1>3, <1>7 DEF Reached, EndOf
<1>9. Joining(last', wire, out) /\ EndOf(Reached, wire) <= EndOf(last', wire) /\ EndOf(last', wire) \in Nat
  BY <1>7, <1>8, JoinFrom, EndType
<1>10. Received' = EndOf(last', wire)
  BY <1>1, <1>8 DEF Received
<1>11. Brought'
  BY <1>1, <1>9, <1>10, BroughtMore DEF Types, Complete, Received
<1>12. last' # None
  BY <1>2, NoneAssumption, BoundsAssumption
<1>13. InOrder' /\ Arrives' /\ Filled'
  BY <1>1, <1>6, <1>8, <1>9, <1>12 DEF Complete, InOrder, Arrives, Filled
<1> QED  BY <1>11, <1>13 DEF Complete

LEMMA ShowComplete ==
  ASSUME Types, Shown, Complete, Show
  PROVE  Complete'
<1> DEFINE c == wire[1]
<1>1. /\ wire # <<>> /\ wire \in Seq(Pieces) /\ Head(wire) = c /\ c \in Pieces /\ tab = "live"
      /\ wire' = Tail(wire)
      /\ UNCHANGED <<out, queue, written, screen, sub, tab, answer, held, boots>>
  BY DEF Show, holderVars, relayVars, Types, TabTypes
<1>2. IF IsShown(c) THEN UNCHANGED <<last, term>>
      ELSE /\ last' = c.to
           /\ term' = term \o (IF Skips(c) THEN <<gap>> ELSE <<>>) \o Bytes(CutAt(c), c.to)
  BY <1>1 DEF Show
<1> HIDE DEF c
<1>3. c.from \in 0 .. MaxOut /\ c.to \in 0 .. MaxOut /\ c.from <= c.to
  BY <1>1 DEF Pieces, Frame
<1>4. /\ last # None /\ last \in 0 .. MaxOut /\ Reached = last /\ Joining(last, wire, out)
      /\ Fills(term, last, out) /\ term \in Lines
  BY <1>1, ReachedType DEF Types, TabTypes, Complete, Arrives, Reached, Filled
<1>5. out \in Nat /\ Floor(out) \in Nat
  BY FloorRises, BoundsAssumption DEF Types, NetTypes
<1>6. Near(last, c, out)
  BY <1>1, <1>4 DEF Joining, c
<1>7. last' \in 0 .. MaxOut /\ last <= last' /\ c.to <= last' /\ Fills(term', last', out)
  <2>1. CASE IsShown(c)
    BY <1>2, <1>3, <1>4, <2>1 DEF IsShown
  <2>2. CASE ~IsShown(c)
    <3>1. last < c.to /\ last' = c.to
      <4>1. ~(c.to <= last)
        BY <1>4, <2>2 DEF IsShown
      <4> QED  BY <1>2, <1>3, <1>4, <2>2, <4>1, BoundsAssumption
    <3>2. CASE Skips(c)
      <4>1. last < c.from /\ CutAt(c) = c.from
        BY <1>3, <1>4, <3>2 DEF Skips, CutAt
      <4>2. term' = (term \o <<gap>>) \o Bytes(c.from, c.to)
        BY <1>2, <2>2, <3>2, <4>1
      <4>3. c.from <= Floor(out)
        BY <1>3, <1>4, <1>6, <4>1 DEF Near
      <4>4. Fills(term \o <<gap>>, c.from, out)
        BY <1>3, <1>4, <1>5, <4>3, FillGap
      <4>5. term \o <<gap>> \in Lines
        <5>1. <<gap>> \in Lines
          BY OnlyGap, BoundsAssumption
        <5> QED  BY <1>4, <5>1 DEF Lines
      <4>6. Fills(term', c.to, out)
        BY <1>3, <1>5, <4>2, <4>4, <4>5, FillNext
      <4> QED  BY <1>3, <1>4, <3>1, <4>6
    <3>3. CASE ~Skips(c)
      <4>1. CutAt(c) = last
        BY <1>3, <1>4, <3>3 DEF Skips, CutAt
      <4>2. term \o <<>> = term
        BY <1>4 DEF Lines
      <4>3. term' = term \o Bytes(last, c.to)
        BY <1>2, <2>2, <3>3, <4>1, <4>2
      <4>4. Fills(term', c.to, out)
        BY <1>3, <1>4, <1>5, <3>1, <4>3, FillNext
      <4> QED  BY <1>3, <1>4, <3>1, <4>4
    <3> QED  BY <3>2, <3>3
  <2> QED  BY <2>1, <2>2
<1>8. last \in Nat /\ last' \in Nat /\ last' # None
  BY <1>4, <1>7, NoneAssumption, BoundsAssumption
<1>9. Joining(last', wire', out) /\ EndOf(last, wire) <= EndOf(last', wire')
  BY <1>1, <1>4, <1>7, <1>8, JoinTail DEF c
<1>10. wire' \in Seq(Pieces)
  BY <1>1, HeadTailProperties
<1>11. Reached' = last' /\ Received' = EndOf(last', wire') /\ Received' \in Nat /\ Received <= Received'
  BY <1>1, <1>4, <1>8, <1>9, <1>10, EndType DEF Reached, Received
<1>12. Brought'
  BY <1>1, <1>11, BroughtMore DEF Types, Complete
<1>13. InOrder' /\ Arrives' /\ Filled'
  BY <1>1, <1>7, <1>8, <1>9, <1>11 DEF Complete, InOrder, Arrives, Filled
<1> QED  BY <1>12, <1>13 DEF Complete

LEMMA AskComplete ==
  ASSUME Types, Pipe, Complete, Ask \/ TakeSnapshot
  PROVE  Complete'
<1>1. /\ UNCHANGED <<out, queue, written, screen, sub, wire, held, last, term, boots>>
      /\ tab # "live" /\ tab' # "live"
  BY DEF Ask, TakeSnapshot, holderVars, relayVars
<1>2. Reached' = Reached /\ Received' = Received
  BY <1>1 DEF Reached, Received
<1>3. tab' = "answered" => answer' # None /\ answer'.from <= Floor(out)
  <2>1. tab' = "answered" => answer' = screen
    BY DEF Ask, TakeSnapshot
  <2>2. /\ screen # None /\ screen.from \in Nat /\ screen.to \in Nat /\ out \in Nat
        /\ screen.to <= out /\ screen.from <= Floor(screen.to)
    BY BoundsAssumption DEF Types, RelayTypes, NetTypes, Piece, Pipe, Full, Complete, Arrives
  <2>3. Floor(screen.to) <= Floor(out) /\ Floor(screen.to) \in Nat /\ Floor(out) \in Nat
    BY <2>2, FloorRises
  <2> QED  BY <2>1, <2>2, <2>3
<1> QED
  BY <1>1, <1>2, <1>3 DEF Complete, InOrder, Arrives, Brought, Filled

LEMMA CompleteStep ==
  ASSUME Types, Shown, Pipe, Complete, Closed, [Next]_vars
  PROVE  Complete'
<1>1. CASE \E n \in 1 .. 2 : Produce(n)
  BY <1>1, ProduceComplete
<1>2. CASE \/ Snap \/ Forward \/ Dial \/ EndSession \/ Crash \/ Recover \/ Break \/ Detach
           \/ (\E c \in Conns : Register(c) \/ SendSync(c))
           \/ UNCHANGED vars
  <2>1. UNCHANGED <<out, queue, written, screen, tabVars, boots>>
    BY <1>2 DEF Snap, Forward, Dial, EndSession, Crash, Recover, Break, Detach, Register, SendSync,
                holderVars, relayVars, vars
  <2> QED  BY <2>1, CompleteKept
<1>3. CASE \E c \in Conns : Handle(c)
  BY <1>3, HandleComplete
<1>4. CASE \E e \in Conns : RelayWrite(e)
  BY <1>4, WriteComplete
<1>5. CASE \E e \in Conns : RelayPublish(e)
  BY <1>5, PublishComplete
<1>6. ~(SocketDown \/ SocketUp \/ Purge \/ Boot)
  BY DEF SocketDown, SocketUp, Purge, Boot, Closed, Complete, Arrives
<1>7. CASE Ask \/ TakeSnapshot \/ Restore \/ Hold \/ Show
  BY <1>7, AskComplete, RestoreComplete, HoldComplete, ShowComplete
<1> QED  BY <1>1, <1>2, <1>3, <1>4, <1>5, <1>6, <1>7 DEF Next

(* A break of the connection or a restart of the worker costs the viewer   *)
(* nothing that some screen still has: a line stands only for output that  *)
(* is on none (holder.go:170-180), when no race is let in and the          *)
(* supervisor stays up.                                                    *)
THEOREM NoneSkipped == ASSUME Closed PROVE Spec => []NothingSkipped
<1>1. Joins /\ Drains
  BY DEF Closed, Joins, Drains
<1>2. Init => Types /\ Shown /\ Pipe /\ Complete
  BY InitTypes, InitShown, InitPipe, InitComplete
<1>3. ASSUME Types, Shown, Pipe, Complete, [Next]_vars
      PROVE  (Types /\ Shown /\ Pipe /\ Complete)'
  <2>1. TabTypes' /\ Shown'
    BY <1>1, <1>3, TabStep
  <2>2. NetTypes' /\ RelayTypes'
    BY <1>3, WayTypes DEF Types
  <2>3. Pipe'
    BY <1>1, <1>3, PipeStep DEF Types
  <2>4. Complete'
    BY <1>3, CompleteStep
  <2> QED  BY <2>1, <2>2, <2>3, <2>4 DEF Types
<1>4. ASSUME Types, Shown, Complete PROVE NothingSkipped
  <2>1. CASE tab = "live"
    BY <1>4, <2>1 DEF Complete, Filled, Fills, NothingSkipped, Places
  <2>2. CASE tab # "live"
    BY <1>4, <2>2 DEF Shown, NothingSkipped, Places
  <2> QED  BY <2>1, <2>2
<1> QED
  BY <1>2, <1>3, <1>4, PTL DEF Spec
=============================================================================
