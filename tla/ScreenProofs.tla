---------------------------- MODULE ScreenProofs ----------------------------
(***************************************************************************)
(* What the ring buffer of Screen holds, for every capacity and every      *)
(* length of the output: the window of the output that ends at its offset. *)
(* The argument is one about Ring.Write and Ring.Snapshot alone (WriteKept *)
(* below); each action then only says which pieces it hands to the ring.   *)
(***************************************************************************)
EXTENDS Screen, TLAPS

Cell == Bytes \cup {Zero}

(* One turn around the buffer.                                             *)
LEMMA Wrap ==
  ASSUME NEW x \in Nat, x < 2 * Cap
  PROVE  x % Cap = IF x < Cap THEN x ELSE x - Cap
  BY CapAssumption, Z3

LEMMA LastNType ==
  ASSUME NEW S, NEW s \in Seq(S), NEW n \in Nat
  PROVE  /\ LastN(s, n) \in Seq(S)
         /\ Len(LastN(s, n)) = IF Len(s) > n THEN n ELSE Len(s)
         /\ \A j \in 1 .. Len(LastN(s, n)) :
              LastN(s, n)[j] = s[j + (Len(s) - Len(LastN(s, n)))]
<1> DEFINE a == IF Len(s) > n THEN Len(s) - n + 1 ELSE 1
<1>1. Len(s) \in Nat /\ a \in 1 .. Len(s) + 1
  OBVIOUS
<1>2. LastN(s, n) = SubSeq(s, a, Len(s))
  BY DEF LastN
<1>3. Len(s) - a + 1 = IF Len(s) > n THEN n ELSE Len(s)
  BY <1>1
<1> HIDE DEF a
<1>4. SubSeq(s, a, Len(s)) = [j \in 1 .. Len(s) - a + 1 |-> s[j + a - 1]]
  BY <1>1
<1>5. \A j \in 1 .. Len(s) - a + 1 : s[j + a - 1] \in S
  BY <1>1
<1>6. LastN(s, n) \in Seq(S) /\ Len(LastN(s, n)) = Len(s) - a + 1
  BY <1>1, <1>2, <1>4, <1>5
<1>7. ASSUME NEW j \in 1 .. Len(LastN(s, n))
      PROVE  LastN(s, n)[j] = s[j + (Len(s) - Len(LastN(s, n)))]
  <2>1. LastN(s, n)[j] = s[j + a - 1]
    BY <1>2, <1>4, <1>6
  <2>2. j + a - 1 = j + (Len(s) - Len(LastN(s, n)))
    BY <1>1, <1>6
  <2> QED
    BY <2>1, <2>2
<1> QED
  BY <1>3, <1>6, <1>7

(* A snapshot reads the ring in the order of writing: the place of its j-th *)
(* byte is j - 1 past head - size, around the end of the buffer.           *)
LEMMA KeptPlace ==
  ASSUME NEW b \in [0 .. Cap - 1 -> Cell], NEW h \in 0 .. Cap - 1, NEW s \in 0 .. Cap
  PROVE  /\ Kept(b, h, s) \in Seq(Cell)
         /\ Len(Kept(b, h, s)) = s
         /\ \A j \in 1 .. s :
              Kept(b, h, s)[j] = IF h + j > s THEN b[h + j - 1 - s]
                                 ELSE b[h + j - 1 + Cap - s]
<1> DEFINE start == (h + Cap - s) % Cap
<1>1. start = IF h < s THEN h + Cap - s ELSE h - s
  <2> DEFINE x == h + Cap - s
  <2>1. x \in Nat /\ x < 2 * Cap
    BY CapAssumption
  <2> HIDE DEF x
  <2>2. x % Cap = IF x < Cap THEN x ELSE x - Cap
    BY <2>1, Wrap
  <2> USE DEF x
  <2> QED
    BY <2>1, <2>2, CapAssumption
<1>2. Least(s, Cap - start) = IF h < s THEN s - h ELSE s
  BY <1>1, CapAssumption DEF Least
<1> DEFINE c == IF h < s THEN s - h ELSE s
<1>3. Kept(b, h, s) = [j \in 1 .. s |-> IF j <= c THEN b[start + j - 1] ELSE b[j - c - 1]]
  BY <1>2 DEF Kept
<1> HIDE DEF start
<1>4. ASSUME NEW j \in 1 .. s
      PROVE  Kept(b, h, s)[j] = IF h + j > s THEN b[h + j - 1 - s]
                                ELSE b[h + j - 1 + Cap - s]
  BY <1>1, <1>3, CapAssumption
<1>5. \A j \in 1 .. s : Kept(b, h, s)[j] \in Cell
  BY <1>4, CapAssumption
<1>6. Kept(b, h, s) \in [1 .. s -> Cell]
  BY <1>3, <1>5
<1>7. Kept(b, h, s) \in Seq(Cell) /\ Len(Kept(b, h, s)) = s
  BY <1>6
<1> QED
  BY <1>4, <1>7

(* Ring.Write appends to what a snapshot shows and drops the oldest bytes. *)
LEMMA WriteKept ==
  ASSUME buf \in [0 .. Cap - 1 -> Cell], NEW h \in 0 .. Cap - 1, NEW s \in 0 .. Cap,
         NEW o \in Nat, NEW p \in Seq(Bytes), RingWrite(h, s, o, p)
  PROVE  /\ buf' \in [0 .. Cap - 1 -> Cell]
         /\ head' \in 0 .. Cap - 1
         /\ size' = Least(s + Len(p), Cap)
         /\ off' = o + Len(p)
         /\ Contents' = LastN(Kept(buf, h, s) \o p, Cap)
<1> DEFINE n == Len(p)
           K == Kept(buf, h, s)
<1>1. /\ K \in Seq(Cell) /\ Len(K) = s
      /\ \A j \in 1 .. s : K[j] = IF h + j > s THEN buf[h + j - 1 - s]
                                  ELSE buf[h + j - 1 + Cap - s]
  BY KeptPlace
<1>2. n \in Nat /\ \A i \in 1 .. n : p[i] \in Cell
  BY DEF Cell
<1> HIDE DEF K
<1> DEFINE all == K \o p
<1>3. /\ all \in Seq(Cell) /\ Len(all) = s + n
      /\ \A i \in 1 .. s + n : all[i] = IF i <= s THEN K[i] ELSE p[i - s]
  <2>1. p \in Seq(Cell)
    BY DEF Cell
  <2>2. all \in Seq(Cell) /\ Len(all) = s + n
    BY <1>1, <2>1
  <2>3. ASSUME NEW i \in 1 .. s + n
        PROVE  all[i] = IF i <= s THEN K[i] ELSE p[i - s]
    BY <1>1, <2>1
  <2> QED
    BY <2>2, <2>3
<1> HIDE DEF all
<1>4. off' = o + n
  BY DEF RingWrite
<1>5. Contents' = Kept(buf', head', size')
  BY DEF Contents, Kept
<1>6. /\ LastN(all, Cap) \in Seq(Cell)
      /\ Len(LastN(all, Cap)) = Least(s + n, Cap)
      /\ \A j \in 1 .. Least(s + n, Cap) :
           LastN(all, Cap)[j] = all[j + (s + n - Least(s + n, Cap))]
  <2>1. Least(s + n, Cap) = IF s + n > Cap THEN Cap ELSE s + n
    BY <1>2, CapAssumption DEF Least
  <2>2. /\ LastN(all, Cap) \in Seq(Cell)
        /\ Len(LastN(all, Cap)) = IF Len(all) > Cap THEN Cap ELSE Len(all)
        /\ \A j \in 1 .. Len(LastN(all, Cap)) :
             LastN(all, Cap)[j] = all[j + (Len(all) - Len(LastN(all, Cap)))]
    BY <1>3, LastNType, CapAssumption
  <2>3. Len(LastN(all, Cap)) = Least(s + n, Cap)
    BY <1>3, <2>1, <2>2
  <2>4. ASSUME NEW j \in 1 .. Least(s + n, Cap)
        PROVE  LastN(all, Cap)[j] = all[j + (s + n - Least(s + n, Cap))]
    <3>1. j \in 1 .. Len(LastN(all, Cap))
      BY <2>3
    <3>2. LastN(all, Cap)[j] = all[j + (Len(all) - Len(LastN(all, Cap)))]
      BY <2>2, <3>1
    <3> QED
      BY <3>2, <1>3, <2>3
  <2> QED
    BY <2>2, <2>3, <2>4
<1>7. ASSUME n >= Cap
      PROVE  /\ buf' \in [0 .. Cap - 1 -> Cell] /\ head' \in 0 .. Cap - 1
             /\ size' = Least(s + n, Cap)
             /\ \A j \in 1 .. size' : Contents'[j] = all[j + (s + n - size')]
  <2>1. buf' = [i \in 0 .. Cap - 1 |-> p[n - Cap + i + 1]] /\ head' = 0 /\ size' = Cap
    BY <1>7 DEF RingWrite
  <2>2. size' = Least(s + n, Cap) /\ head' \in 0 .. Cap - 1
    BY <2>1, <1>2, <1>7, CapAssumption DEF Least
  <2>3. buf' \in [0 .. Cap - 1 -> Cell]
    BY <2>1, <1>2, <1>7, CapAssumption
  <2>4. ASSUME NEW j \in 1 .. Cap
        PROVE  Contents'[j] = all[j + (s + n - Cap)]
    <3>1. Contents'[j] = buf'[j - 1]
      <4>1. Contents'[j] = IF head' + j > size' THEN buf'[head' + j - 1 - size']
                           ELSE buf'[head' + j - 1 + Cap - size']
        <5>1. size' \in 0 .. Cap /\ head' \in 0 .. Cap - 1 /\ j \in 1 .. size'
          BY <2>1, CapAssumption
        <5> QED
          BY <1>5, <2>3, <5>1, KeptPlace
      <4> QED
        BY <4>1, <2>1, CapAssumption
    <3>2. buf'[j - 1] = p[n - Cap + j]
      BY <2>1, CapAssumption, <1>2
    <3>3. all[j + (s + n - Cap)] = p[n - Cap + j]
      BY <1>2, <1>3, <1>7, CapAssumption
    <3> QED
      BY <3>1, <3>2, <3>3
  <2> QED
    BY <2>1, <2>2, <2>3, <2>4
<1>8. ASSUME n < Cap
      PROVE  /\ buf' \in [0 .. Cap - 1 -> Cell] /\ head' \in 0 .. Cap - 1
             /\ size' = Least(s + n, Cap)
             /\ \A j \in 1 .. size' : Contents'[j] = all[j + (s + n - size')]
  <2>1. buf' = Copied(buf, h, p) /\ head' = (h + n) % Cap /\ size' = Least(s + n, Cap)
    BY <1>8, <1>2, CapAssumption DEF RingWrite, HeadAfter
  <2>2. head' = IF h + n < Cap THEN h + n ELSE h + n - Cap
    BY <2>1, <1>2, <1>8, Wrap, CapAssumption
  <2>3. size' \in 0 .. Cap /\ size' <= s + n /\ head' \in 0 .. Cap - 1
    BY <2>1, <2>2, <1>2, <1>8, CapAssumption DEF Least
  <2> DEFINE c == Least(Cap - h, n)
  <2>4. c = IF h + n < Cap THEN n ELSE Cap - h
    BY <1>2, CapAssumption DEF Least
  <2>5. \A i \in 0 .. Cap - 1 :
          buf'[i] = IF h <= i /\ i < h + n THEN p[i - h + 1]
                    ELSE IF i < h + n - Cap THEN p[i + Cap - h + 1] ELSE buf[i]
    <3> SUFFICES ASSUME NEW i \in 0 .. Cap - 1
                 PROVE  buf'[i] = IF h <= i /\ i < h + n THEN p[i - h + 1]
                    ELSE IF i < h + n - Cap THEN p[i + Cap - h + 1] ELSE buf[i]
      OBVIOUS
    <3>1. buf'[i] = IF h <= i /\ i < h + c THEN p[i - h + 1]
                    ELSE IF i < n - c THEN p[c + i + 1] ELSE buf[i]
      BY <2>1 DEF Copied
    <3> QED
      BY <3>1, <2>4, <1>2, <1>8, CapAssumption
  <2>6. buf' \in [0 .. Cap - 1 -> Cell]
    <3>1. ASSUME NEW i \in 0 .. Cap - 1
          PROVE  buf'[i] \in Cell
      <4>1. CASE h <= i /\ i < h + n
        BY <2>5, <4>1, <1>2, CapAssumption
      <4>2. CASE ~(h <= i /\ i < h + n) /\ i < h + n - Cap
        <5>1. i + Cap - h + 1 \in 1 .. n
          BY <4>2, <1>2, <1>8, CapAssumption
        <5> QED
          BY <2>5, <4>2, <5>1, <1>2
      <4>3. CASE ~(h <= i /\ i < h + n) /\ ~(i < h + n - Cap)
        BY <2>5, <4>3
      <4> QED
        BY <4>1, <4>2, <4>3
    <3>2. DOMAIN buf' = 0 .. Cap - 1 /\ buf' = [i \in 0 .. Cap - 1 |-> buf'[i]]
      BY <2>1 DEF Copied
    <3> QED
      BY <3>1, <3>2
  <2>7. ASSUME NEW j \in 1 .. size'
        PROVE  Contents'[j] = all[j + (s + n - size')]
    <3> DEFINE i == j + (s + n - size')
               q == IF head' + j > size' THEN head' + j - 1 - size'
                    ELSE head' + j - 1 + Cap - size'
    <3>1. Contents'[j] = buf'[q]
      BY <1>5, <2>3, <2>6, KeptPlace
    <3>2. size' = IF s + n > Cap THEN Cap ELSE s + n
      BY <2>1, <1>2, CapAssumption DEF Least
    <3>3. /\ i = j + (s + n - size')
           /\ q = IF head' + j > size' THEN head' + j - 1 - size'
                  ELSE head' + j - 1 + Cap - size'
      OBVIOUS
    <3>4. Contents'[j] = buf'[q] /\ i = j + (s + n - size')
      BY <3>1
    <3> HIDE DEF i, q
    <3>5. /\ i \in 1 .. s + n /\ s + n - i < Cap /\ q \in 0 .. Cap - 1
          /\ q = IF h + i > s THEN (IF h + i - 1 - s < Cap THEN h + i - 1 - s
                                    ELSE h + i - 1 - s - Cap)
                 ELSE h + i - 1 - s + Cap
      <4> HIDE DEF n
      <4>1. /\ Cap \in Nat /\ h \in Nat /\ s \in Nat /\ j \in Nat /\ size' \in Nat
            /\ head' \in Nat /\ n \in Nat /\ n < Cap /\ h < Cap /\ s <= Cap
            /\ 1 <= j /\ j <= size'
        BY <1>2, <1>8, <2>3, CapAssumption
      <4>2. i \in 1 .. s + n /\ s + n - i < Cap /\ h + i - 1 - s = h + n + j - 1 - size'
        BY <3>2, <3>3, <4>1
      <4>3. CASE h + n < Cap
        BY <2>2, <3>2, <3>3, <4>1, <4>2, <4>3
      <4>4. CASE h + n >= Cap /\ head' + j > size'
        BY <2>2, <3>2, <3>3, <4>1, <4>2, <4>4
      <4>5. CASE h + n >= Cap /\ ~(head' + j > size')
        BY <2>2, <3>2, <3>3, <4>1, <4>2, <4>5
      <4> QED
        BY <4>1, <4>3, <4>4, <4>5
    <3>6. CASE i <= s
      <4>1. buf'[q] = buf[q]
        <5>1. ~(h <= q /\ q < h + n) /\ ~(q < h + n - Cap)
          BY <3>5, <3>6, <1>2, <1>8, CapAssumption
        <5> QED
          BY <2>5, <3>5, <5>1
      <4>2. all[i] = buf[q]
        BY <3>5, <3>6, <1>1, <1>3, CapAssumption
      <4> QED
        BY <3>4, <4>1, <4>2
    <3>7. CASE i > s
      <4>1. buf'[q] = p[i - s]
        <5>1. CASE h + i - 1 - s < Cap
          <6>1. q = h + i - 1 - s /\ h <= q /\ q < h + n
            BY <3>5, <3>7, <5>1, <1>2, CapAssumption
          <6>2. buf'[q] = p[q - h + 1]
            BY <2>5, <3>5, <6>1
          <6>3. q - h + 1 = i - s
            BY <3>5, <6>1, CapAssumption
          <6> QED
            BY <6>2, <6>3
        <5>2. CASE ~(h + i - 1 - s < Cap)
          <6>1. q = h + i - 1 - s - Cap /\ ~(h <= q) /\ q < h + n - Cap
            BY <3>5, <3>7, <5>2, <1>2, <1>8, CapAssumption
          <6>2. buf'[q] = p[q + Cap - h + 1]
            BY <2>5, <3>5, <6>1
          <6>3. q + Cap - h + 1 = i - s
            BY <3>5, <6>1, CapAssumption
          <6> QED
            BY <6>2, <6>3
        <5> QED
          BY <5>1, <5>2
      <4>2. all[i] = p[i - s]
        BY <3>5, <3>7, <1>3
      <4> QED
        BY <3>4, <4>1, <4>2
    <3> QED
      BY <3>5, <3>6, <3>7
  <2> QED
    BY <2>1, <2>3, <2>6, <2>7
<1>9. /\ buf' \in [0 .. Cap - 1 -> Cell] /\ head' \in 0 .. Cap - 1
      /\ size' = Least(s + n, Cap)
      /\ \A j \in 1 .. size' : Contents'[j] = all[j + (s + n - size')]
  BY <1>2, <1>7, <1>8, CapAssumption
<1>10. size' \in 0 .. Cap
  BY <1>9, <1>2, CapAssumption DEF Least
<1>11. Contents' \in Seq(Cell) /\ Len(Contents') = size'
  BY <1>5, <1>9, <1>10, KeptPlace
<1>12. Contents' = LastN(all, Cap)
  <2>1. \A j \in 1 .. size' : Contents'[j] = LastN(all, Cap)[j]
    BY <1>6, <1>9
  <2>2. Len(LastN(all, Cap)) = size'
    BY <1>6, <1>9
  <2> QED
    BY <1>6, <1>11, <2>1, <2>2
<1> QED
  BY <1>4, <1>9, <1>12 DEF K, all

-----------------------------------------------------------------------------
LEMMA SliceType ==
  ASSUME stream \in Seq(Bytes), NEW a \in Nat, NEW b \in 0 .. Len(stream), a <= b
  PROVE  /\ Slice(a, b) \in Seq(Bytes)
         /\ Len(Slice(a, b)) = b - a
         /\ \A i \in 1 .. b - a : Slice(a, b)[i] = stream[a + i]
<1>1. Slice(a, b) = [i \in 1 .. b - a |-> stream[a + i]]
  BY DEF Slice
<1>2. \A i \in 1 .. b - a : stream[a + i] \in Bytes
  OBVIOUS
<1> QED
  BY <1>1, <1>2

LEMMA SliceJoin ==
  ASSUME stream \in Seq(Bytes), NEW a \in Nat, NEW b \in Nat, NEW c \in 0 .. Len(stream),
         a <= b, b <= c
  PROVE  Slice(a, b) \o Slice(b, c) = Slice(a, c)
<1>0. b \in 0 .. Len(stream) /\ a <= c
  OBVIOUS
<1>1. /\ Slice(a, b) \in Seq(Bytes) /\ Len(Slice(a, b)) = b - a
      /\ \A i \in 1 .. b - a : Slice(a, b)[i] = stream[a + i]
  BY <1>0, SliceType
<1>2. /\ Slice(b, c) \in Seq(Bytes) /\ Len(Slice(b, c)) = c - b
      /\ \A i \in 1 .. c - b : Slice(b, c)[i] = stream[b + i]
  BY SliceType
<1>3. /\ Slice(a, c) \in Seq(Bytes) /\ Len(Slice(a, c)) = c - a
      /\ \A i \in 1 .. c - a : Slice(a, c)[i] = stream[a + i]
  BY <1>0, SliceType
<1> DEFINE ab == Slice(a, b)
           bc == Slice(b, c)
<1> HIDE DEF ab, bc
<1>4. ab \in Seq(Bytes) /\ bc \in Seq(Bytes) /\ Len(ab) = b - a /\ Len(bc) = c - b
  BY <1>1, <1>2 DEF ab, bc
<1>5. ab \o bc \in Seq(Bytes) /\ Len(ab \o bc) = c - a
  BY <1>4
<1>6. ASSUME NEW i \in 1 .. c - a
      PROVE  (ab \o bc)[i] = stream[a + i]
  <2>1. (ab \o bc)[i] = IF i <= b - a THEN ab[i] ELSE bc[i - (b - a)]
    BY <1>4
  <2>2. CASE i <= b - a
    BY <2>1, <2>2, <1>1 DEF ab
  <2>3. CASE ~(i <= b - a)
    <3>1. i - (b - a) \in 1 .. c - b /\ b + (i - (b - a)) = a + i
      BY <2>3
    <3> QED
      BY <2>1, <2>3, <3>1, <1>2 DEF bc
  <2> QED
    BY <2>2, <2>3
<1>7. ab \o bc = Slice(a, c)
  <2> DEFINE l == ab \o bc
             w == Slice(a, c)
  <2>1. l \in Seq(Bytes) /\ w \in Seq(Bytes) /\ Len(l) = c - a /\ Len(w) = c - a
    BY <1>3, <1>5
  <2>2. \A i \in 1 .. c - a : l[i] = w[i]
    BY <1>3, <1>6
  <2> HIDE DEF l, w
  <2>3. l = w
    BY <2>1, <2>2
  <2> QED
    BY <2>3 DEF l, w
<1> QED
  BY <1>7 DEF ab, bc

LEMMA SliceLast ==
  ASSUME stream \in Seq(Bytes), NEW a \in Nat, NEW b \in 0 .. Len(stream), a <= b
  PROVE  LastN(Slice(a, b), Cap) = Slice(b - Least(b - a, Cap), b)
<1> DEFINE k == Least(b - a, Cap)
           w == Slice(a, b)
<1>1. k = (IF b - a > Cap THEN Cap ELSE b - a) /\ k \in 0 .. b - a
  BY CapAssumption DEF Least
<1> HIDE DEF k
<1>2. /\ w \in Seq(Bytes) /\ Len(w) = b - a
      /\ \A i \in 1 .. b - a : w[i] = stream[a + i]
  BY SliceType
<1> HIDE DEF w
<1>3. /\ LastN(w, Cap) \in Seq(Bytes)
      /\ Len(LastN(w, Cap)) = IF Len(w) > Cap THEN Cap ELSE Len(w)
      /\ \A j \in 1 .. Len(LastN(w, Cap)) :
           LastN(w, Cap)[j] = w[j + (Len(w) - Len(LastN(w, Cap)))]
  BY <1>2, LastNType, CapAssumption
<1>4. Len(LastN(w, Cap)) = k
  BY <1>1, <1>2, <1>3
<1>5. b - k \in Nat /\ b - k <= b
  BY <1>1
<1>6. /\ Slice(b - k, b) \in Seq(Bytes) /\ Len(Slice(b - k, b)) = b - (b - k)
      /\ \A i \in 1 .. b - (b - k) : Slice(b - k, b)[i] = stream[(b - k) + i]
  BY <1>5, SliceType
<1>7. b - (b - k) = k
  BY <1>1
<1>8. ASSUME NEW j \in 1 .. k
      PROVE  LastN(w, Cap)[j] = Slice(b - k, b)[j]
  <2>1. LastN(w, Cap)[j] = w[j + (b - a - k)]
    BY <1>2, <1>3, <1>4
  <2>2. j + (b - a - k) \in 1 .. b - a /\ a + (j + (b - a - k)) = (b - k) + j
    BY <1>1
  <2> QED
    BY <2>1, <2>2, <1>2, <1>6, <1>7
<1> QED
  BY <1>3, <1>4, <1>6, <1>7, <1>8 DEF w, k

-----------------------------------------------------------------------------
(* IsWindow is inductive once the offset is known to stay in the output.   *)
Inv == TypeOK /\ IsWindow /\ off <= Len(stream)

(* The ring written on.                                                    *)
LEMMA Appended ==
  ASSUME Inv, NEW end \in off .. Len(stream), stream' = stream,
         RingWrite(head, size, off, Slice(off, end))
  PROVE  /\ buf' \in [0 .. Cap - 1 -> Cell] /\ head' \in 0 .. Cap - 1 /\ size' \in 0 .. Cap
         /\ off' = end
         /\ Contents' = LastN(Contents \o Slice(off, end), Cap)
         /\ IsWindow'
<1> DEFINE p == Slice(off, end)
<1>1. /\ stream \in Seq(Bytes) /\ Len(stream) \in Nat /\ off \in Nat /\ off <= Len(stream)
      /\ size \in 0 .. Cap /\ size <= off /\ end \in Nat
  BY DEF Inv, TypeOK, IsWindow
<1>2. p \in Seq(Bytes) /\ Len(p) = end - off
  <2>1. end \in 0 .. Len(stream) /\ off <= end
    BY <1>1
  <2> QED
    BY <1>1, <2>1, SliceType
<1> HIDE DEF p
<1>3. RingWrite(head, size, off, p)
  BY DEF p
<1>4. /\ buf' \in [0 .. Cap - 1 -> Cell] /\ head' \in 0 .. Cap - 1
      /\ size' = Least(size + Len(p), Cap)
      /\ off' = off + Len(p)
      /\ Contents' = LastN(Kept(buf, head, size) \o p, Cap)
  BY <1>1, <1>2, <1>3, WriteKept DEF Inv, TypeOK, Cell
<1>5. off' = end /\ size' = Least(end - (off - size), Cap)
  <2>1. size + Len(p) = end - (off - size)
    BY <1>1, <1>2, CapAssumption
  <2> QED
    BY <1>1, <1>2, <1>4, <2>1
<1>6. size' \in 0 .. Cap /\ size' <= end
  BY <1>1, <1>5, CapAssumption DEF Least
<1>7. Contents' = LastN(Contents \o p, Cap)
  BY <1>4 DEF Contents
<1>8. Contents \o p = Slice(off - size, end)
  <2>1. Contents = Slice(off - size, off)
    BY DEF Inv, IsWindow
  <2>2. off - size \in Nat /\ off - size <= off
    BY <1>1, CapAssumption
  <2> QED
    <3>1. end \in 0 .. Len(stream) /\ off <= end
      BY <1>1
    <3>2. Slice(off - size, off) \o Slice(off, end) = Slice(off - size, end)
      BY <2>2, <3>1, <1>1, SliceJoin
    <3> QED
      BY <2>1, <3>2 DEF p
<1>9. Contents' = Slice(end - size', end)
  <2>1. off - size \in Nat /\ off - size <= end
    BY <1>1, CapAssumption
  <2>2. LastN(Slice(off - size, end), Cap) = Slice(end - Least(end - (off - size), Cap), end)
    BY <2>1, <1>1, SliceLast
  <2> QED
    BY <2>2, <1>5, <1>7, <1>8
<1>10. IsWindow'
  BY <1>5, <1>6, <1>9 DEF IsWindow, Slice
<1> QED
  BY <1>4, <1>5, <1>6, <1>7, <1>10 DEF p

(* The ring started anew at offset a.                                      *)
LEMMA Restarted ==
  ASSUME Inv, NEW a \in Nat, NEW end \in a .. Len(stream), stream' = stream,
         RingWrite(0, 0, a, Slice(a, end))
  PROVE  /\ buf' \in [0 .. Cap - 1 -> Cell] /\ head' \in 0 .. Cap - 1 /\ size' \in 0 .. Cap
         /\ off' = end
         /\ Contents' = LastN(Slice(a, end), Cap)
         /\ IsWindow'
<1> DEFINE p == Slice(a, end)
<1>1. stream \in Seq(Bytes) /\ Len(stream) \in Nat /\ end \in 0 .. Len(stream) /\ a <= end
  BY DEF Inv, TypeOK
<1>2. p \in Seq(Bytes) /\ Len(p) = end - a
  BY <1>1, SliceType
<1> HIDE DEF p
<1>3. RingWrite(0, 0, a, p)
  BY DEF p
<1>4. 0 \in 0 .. Cap - 1 /\ 0 \in 0 .. Cap /\ buf \in [0 .. Cap - 1 -> Cell]
  BY CapAssumption DEF Inv, TypeOK, Cell
<1>5. /\ buf' \in [0 .. Cap - 1 -> Cell] /\ head' \in 0 .. Cap - 1
      /\ size' = Least(0 + Len(p), Cap)
      /\ off' = a + Len(p)
      /\ Contents' = LastN(Kept(buf, 0, 0) \o p, Cap)
  BY <1>2, <1>3, <1>4, WriteKept
<1>6. off' = end /\ size' = Least(end - a, Cap)
  BY <1>1, <1>2, <1>5
<1>7. size' \in 0 .. Cap /\ size' <= end
  BY <1>1, <1>6, CapAssumption DEF Least
<1>8. Kept(buf, 0, 0) \o p = p
  <2>1. Kept(buf, 0, 0) \in Seq(Cell) /\ Len(Kept(buf, 0, 0)) = 0
    BY <1>4, KeptPlace
  <2>2. Kept(buf, 0, 0) = << >>
    BY <2>1
  <2> QED
    BY <2>2, <1>2
<1>9. Contents' = LastN(p, Cap)
  BY <1>5, <1>8
<1>10. Contents' = Slice(end - size', end)
  BY <1>1, <1>6, <1>9, SliceLast DEF p
<1>11. IsWindow'
  BY <1>6, <1>7, <1>10 DEF IsWindow, Slice
<1> QED
  BY <1>5, <1>6, <1>7, <1>9, <1>11 DEF p

-----------------------------------------------------------------------------
LEMMA FirstNType ==
  ASSUME NEW p \in Seq(Bytes), NEW n \in Nat
  PROVE  FirstN(p, n) \in Seq(Bytes)
<1>1. Least(n, Len(p)) \in 0 .. Len(p)
  BY DEF Least
<1> QED
  BY <1>1 DEF FirstN

(* What Screen.write makes of its flag and its tail.                       *)
LEMMA SwitchType ==
  ASSUME TypeOK, NEW p \in Seq(Bytes), Switch(p)
  PROVE  alt' \in BOOLEAN /\ tail' \in Seq(Bytes)
<1>1. alt \in BOOLEAN /\ tail \in Seq(Bytes)
  BY DEF TypeOK
<1>2. \A b : LastAlt(b, alt) \in BOOLEAN
  <2>1. ASSUME NEW b, NEW d \in BOOLEAN
        PROVE  LastAlt(b, d) \in BOOLEAN
    BY Zenon DEF LastAlt
  <2> QED
    BY <1>1, <2>1
<1>3. alt' \in BOOLEAN
  BY <1>2, Zenon DEF Switch, LastAlt
<1>4. Edge(p) \in Seq(Bytes)
  BY <1>1, FirstNType, CarryAssumption DEF Edge
<1>5. \A q \in Seq(Bytes) : LastN(q, AltCarry) \in Seq(Bytes)
  BY LastNType, CarryAssumption
<1>6. tail' \in Seq(Bytes)
  <2>1. CASE Len(p) > AltCarry
    BY <2>1, <1>5 DEF Switch, NextTail
  <2>2. CASE ~(Len(p) > AltCarry)
    BY <2>2, <1>4, <1>5 DEF Switch, NextTail
  <2> QED
    BY <2>1, <2>2
<1> QED
  BY <1>3, <1>6

LEMMA InitInv ==
  ASSUME Init
  PROVE  Inv /\ Contents = << >>
<1>1. stream \in Seq(Bytes)
  BY LenAssumption DEF Init
<1>2. /\ buf \in [0 .. Cap - 1 -> Cell] /\ head \in 0 .. Cap - 1 /\ size \in 0 .. Cap
      /\ head = 0 /\ size = 0 /\ off = 0
  BY CapAssumption DEF Init, Cell
<1>3. TypeOK
  <2>1. off \in Nat /\ tail \in Seq(Bytes)
    BY <1>2 DEF Init
  <2>2. alt \in BOOLEAN /\ blind \in BOOLEAN
    BY Zenon DEF Init
  <2> QED
    BY <1>1, <1>2, <2>1, <2>2 DEF TypeOK, Cell
<1>4. Contents = << >>
  <2>1. Contents \in Seq(Cell) /\ Len(Contents) = 0
    BY <1>2, KeptPlace DEF Contents
  <2> QED
    BY <2>1
<1>5. Slice(0, 0) = << >>
  <2>1. Slice(0, 0) \in Seq(Bytes) /\ Len(Slice(0, 0)) = 0 - 0
    BY <1>1, SliceType
  <2> QED
    BY <2>1
<1>6. IsWindow
  BY <1>2, <1>4, <1>5 DEF IsWindow
<1> QED
  BY <1>1, <1>2, <1>3, <1>4, <1>6 DEF Inv

LEMMA StepInv ==
  ASSUME Inv, Next
  PROVE  Inv' /\ Log!Next
<1>1. /\ stream \in Seq(Bytes) /\ Len(stream) \in Nat /\ off \in Nat /\ off <= Len(stream)
      /\ blind \in BOOLEAN
  BY DEF Inv, TypeOK
<1>2. ASSUME NEW n \in 0 .. MaxLen, Write(n)
      PROVE  Inv' /\ Log!Next
  <2>1. n \in off .. Len(stream) /\ RingWrite(head, size, off, Slice(off, n)) /\ stream' = stream
    BY <1>2 DEF Write
  <2>2. /\ buf' \in [0 .. Cap - 1 -> Cell] /\ head' \in 0 .. Cap - 1 /\ size' \in 0 .. Cap
        /\ off' = n /\ IsWindow'
        /\ Contents' = LastN(Contents \o Slice(off, n), Cap)
    BY <2>1, Appended
  <2>3. Slice(off, n) \in Seq(Bytes)
    BY <1>1, <2>1, SliceType
  <2>4. alt' \in BOOLEAN /\ tail' \in Seq(Bytes)
    BY <1>2, <2>3, SwitchType DEF Write, Inv
  <2>5. blind' \in BOOLEAN
    BY <1>2, Zenon DEF Write
  <2>6. Inv'
    BY <1>1, <2>1, <2>2, <2>4, <2>5 DEF Inv, TypeOK, Cell
  <2>7. Log!Extend(n)
    BY <2>1, <2>2 DEF Log!Extend, Log!LastN, Log!Slice, LastN, Slice
  <2> QED
    BY <2>6, <2>7 DEF Log!Next
<1>3. ASSUME NEW a \in 0 .. MaxLen, NEW end \in 0 .. MaxLen, WriteAt(a, end)
      PROVE  Inv' /\ Log!Next
  <2> DEFINE p == Slice(Unseen(a), end)
  <2>1. /\ a \in 0 .. Len(stream) /\ end \in a .. Len(stream) /\ end > off
        /\ stream' = stream /\ Switch(p) /\ blind' \in BOOLEAN
        /\ IF a > off THEN RingWrite(0, 0, a, p) ELSE RingWrite(head, size, off, p)
    BY <1>3 DEF WriteAt, IsNew
  <2>2. Unseen(a) = (IF a < off THEN off ELSE a) /\ Unseen(a) \in Nat /\ Unseen(a) <= end
    BY <1>1, <2>1 DEF Unseen
  <2>3. p \in Seq(Bytes)
    <3>1. end \in 0 .. Len(stream)
      BY <1>1, <2>1
    <3> QED
      BY <1>1, <2>2, <3>1, SliceType
  <2>4. alt' \in BOOLEAN /\ tail' \in Seq(Bytes)
    BY <2>1, <2>3, SwitchType DEF Inv
  <2>5. CASE a > off
    <3>1. Unseen(a) = a
      BY <1>1, <2>1, <2>2, <2>5
    <3>2. RingWrite(0, 0, a, Slice(a, end))
      BY <2>1, <2>5, <3>1
    <3>3. /\ buf' \in [0 .. Cap - 1 -> Cell] /\ head' \in 0 .. Cap - 1 /\ size' \in 0 .. Cap
          /\ off' = end /\ IsWindow'
          /\ Contents' = LastN(Slice(a, end), Cap)
      BY <2>1, <3>2, Restarted
    <3>4. Inv'
      BY <1>1, <2>1, <2>4, <3>3 DEF Inv, TypeOK, Cell
    <3>5. Log!Jump(a, end)
      BY <1>1, <2>1, <3>3 DEF Log!Jump, Log!LastN, Log!Slice, LastN, Slice
    <3> QED
      BY <3>4, <3>5 DEF Log!Next
  <2>6. CASE ~(a > off)
    <3>1. Unseen(a) = off
      BY <1>1, <2>1, <2>2, <2>6
    <3>2. RingWrite(head, size, off, Slice(off, end)) /\ end \in off .. Len(stream)
      BY <1>1, <2>1, <2>6, <3>1
    <3>3. /\ buf' \in [0 .. Cap - 1 -> Cell] /\ head' \in 0 .. Cap - 1 /\ size' \in 0 .. Cap
          /\ off' = end /\ IsWindow'
          /\ Contents' = LastN(Contents \o Slice(off, end), Cap)
      BY <2>1, <3>2, Appended
    <3>4. Inv'
      BY <1>1, <2>1, <2>4, <3>3 DEF Inv, TypeOK, Cell
    <3>5. Log!Extend(end)
      BY <2>1, <3>2, <3>3 DEF Log!Extend, Log!LastN, Log!Slice, LastN, Slice
    <3> QED
      BY <3>4, <3>5 DEF Log!Next
  <2> QED
    BY <2>5, <2>6
<1>4. ASSUME NEW end \in 0 .. MaxLen, Seed(end)
      PROVE  Inv' /\ Log!Next
  <2> DEFINE k == Least(end, Cap)
             p == LastN(Slice(0, end), Cap)
  <2>1. /\ end \in 0 .. Len(stream) /\ end > off /\ stream' = stream
        /\ RingWrite(0, 0, end - Len(p), p)
        /\ tail' = LastN(p, AltCarry) /\ blind' = FALSE
        /\ alt' = LastAlt(Slice(0, end), FALSE)
    BY <1>4 DEF Seed, IsNew
  <2>2. k \in 0 .. end /\ k \in 0 .. Cap
    BY <2>1, CapAssumption DEF Least
  <2> DEFINE a == end - k
  <2>3. p = Slice(a, end)
    BY <1>1, <2>1, SliceLast
  <2>4. a \in Nat /\ a <= end /\ end - a = k
    BY <2>2
  <2>5. p \in Seq(Bytes) /\ Len(p) = k
    BY <1>1, <2>1, <2>3, <2>4, SliceType
  <2>6. RingWrite(0, 0, a, Slice(a, end)) /\ end \in a .. Len(stream)
    <3>1. end - Len(p) = a
      BY <2>5
    <3> QED
      BY <1>1, <2>1, <2>3, <2>4, <3>1
  <2>7. /\ buf' \in [0 .. Cap - 1 -> Cell] /\ head' \in 0 .. Cap - 1 /\ size' \in 0 .. Cap
        /\ off' = end /\ IsWindow'
        /\ Contents' = LastN(Slice(a, end), Cap)
    <3> HIDE DEF a, p, k
    <3> QED
      BY <2>1, <2>4, <2>6, Restarted
  <2>8. tail' \in Seq(Bytes)
    BY <2>1, <2>5, LastNType, CarryAssumption
  <2>9. alt' \in BOOLEAN
    BY <2>1, Zenon DEF LastAlt
  <2>10. Inv'
    <3>1. blind' \in BOOLEAN /\ off' \in Nat /\ off' <= Len(stream') /\ stream' \in Seq(Bytes)
      <4>1. blind' \in BOOLEAN
        BY <2>1, Zenon
      <4> QED
        BY <1>1, <2>1, <2>7, <4>1
    <3> HIDE DEF a, p, k
    <3> QED
      BY <2>7, <2>8, <2>9, <3>1 DEF Inv, TypeOK, Cell
  <2>11. Log!Jump(a, end)
    <3> HIDE DEF a, p, k
    <3> QED
      BY <1>1, <2>1, <2>4, <2>6, <2>7 DEF Log!Jump, Log!LastN, Log!Slice, LastN, Slice
  <2> QED
    <3>1. a \in 0 .. MaxLen
      <4>1. end \in 0 .. MaxLen
        OBVIOUS
      <4> HIDE DEF a
      <4> QED
        BY <2>4, <4>1, LenAssumption
    <3> QED
      BY <2>10, <2>11, <3>1 DEF Log!Next
<1> QED
  BY <1>2, <1>3, <1>4 DEF Next

LEMMA Invariance == Spec => []Inv
<1>1. Init => Inv
  BY InitInv
<1>2. Inv /\ [Next]_vars => Inv'
  <2>1. CASE Next
    BY <2>1, StepInv
  <2>2. ASSUME Inv, UNCHANGED vars
        PROVE  Inv'
    BY <2>2 DEF Inv, TypeOK, IsWindow, Contents, Kept, Slice, vars, ringVars
  <2> QED
    BY <2>1, <2>2
<1> QED
  BY <1>1, <1>2, PTL DEF Spec

(* The fields of a Screen keep their ranges: the head stays in the buffer  *)
(* and no more than its length counts as filled (ring.go:18-32).           *)
THEOREM TypeSafe == Spec => []TypeOK
  BY Invariance, PTL DEF Inv

(* For every capacity, whatever overlaps, repeats and gaps the pieces      *)
(* had, a snapshot is the output before its offset (screen.go:41-57).      *)
THEOREM WindowSafe == Spec => []IsWindow
  BY Invariance, PTL DEF Inv

(* For every capacity the ring buffer is the log it stands for: each write *)
(* either goes on or jumps ahead (ring.go:18-42, screen.go:35-71).         *)
THEOREM LogImplemented == Spec => ImplementsLog
<1>1. Init => Log!Init
  BY InitInv DEF Init, Log!Init
<1>2. Inv /\ [Next]_vars => [Log!Next]_<<stream, Contents, off>>
  <2>1. CASE Next
    BY <2>1, StepInv
  <2>2. ASSUME UNCHANGED vars
        PROVE  UNCHANGED <<stream, Contents, off>>
    BY <2>2 DEF vars, ringVars, Contents, Kept
  <2> QED
    BY <2>1, <2>2
<1> QED
  BY <1>1, <1>2, Invariance, PTL DEF Spec, ImplementsLog, Log!Spec
=============================================================================
