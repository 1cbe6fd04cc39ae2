------------------------------- MODULE Screen -------------------------------
(***************************************************************************)
(* internal/ring: a Screen, its ring buffer and its recognition of the     *)
(* alternate screen, fed with pieces of one stream of output: in order     *)
(* (Write), by offset with repeats and gaps (WriteAt), or as a snapshot of *)
(* another screen (Seed).                                                  *)
(***************************************************************************)
EXTENDS Naturals, Sequences

CONSTANTS
  Bytes,     \* bytes of output
  Zero,      \* what make([]byte, capacity) fills the buffer with
  Cap,       \* capacity of the ring
  AltSeqs,   \* sequences that enter (alt) or leave the alternate screen
  AltCarry,  \* length of the longest of them less one
  MaxLen     \* bound: length of the stream

ASSUME CapAssumption == Cap \in Nat \ {0}
ASSUME CarryAssumption == AltCarry \in Nat
ASSUME LenAssumption == MaxLen \in Nat
ASSUME SeqsAssumption == AltSeqs \subseteq [seq : Seq(Bytes), alt : BOOLEAN]

VARIABLES
  stream,                 \* all the output there is
  buf, head, size, off,   \* the Ring
  alt, tail,              \* the Screen
  blind                   \* output was skipped and no sequence or Seed seen since

ringVars == <<buf, head, size, off>>
vars == <<stream, ringVars, alt, tail, blind>>

Least(a, b) == IF a < b THEN a ELSE b

(* The first and the last n elements of s, or all of them.                 *)
FirstN(s, n) == SubSeq(s, 1, Least(n, Len(s)))
LastN(s, n) == SubSeq(s, IF Len(s) > n THEN Len(s) - n + 1 ELSE 1, Len(s))

(* The output from offset a to offset b.                                   *)
Slice(a, b) == SubSeq(stream, a + 1, b)

-----------------------------------------------------------------------------
(* lastAlt: what the last sequence in b switches to, or d if it has none.  *)
Found(b) ==
  {m \in (1 .. Len(b)) \X AltSeqs :
     /\ m[1] + Len(m[2].seq) - 1 <= Len(b)
     /\ SubSeq(b, m[1], m[1] + Len(m[2].seq) - 1) = m[2].seq}

LastAlt(b, d) ==
  IF Found(b) = {} THEN d
  ELSE \E m \in Found(b) : m[2].alt /\ \A n \in Found(b) : n[1] <= m[1]

-----------------------------------------------------------------------------
(* Mutants of the operators below.                                         *)
UncutHead(h, n) == h + n
OneCopy(b, h, p) ==
  [i \in 0 .. Cap - 1 |-> IF h <= i /\ i < h + Len(p) THEN p[i - h + 1] ELSE b[i]]
TailOfPiece(t, p) == p
AnyEnd(end) == TRUE

(* Ring.Write on a buffer b with the next place h: two copies, the second  *)
(* one from the start of the buffer.                                       *)
Copied(b, h, p) ==
  LET c == Least(Cap - h, Len(p)) IN
  [i \in 0 .. Cap - 1 |->
     IF h <= i /\ i < h + c THEN p[i - h + 1]
     ELSE IF i < Len(p) - c THEN p[c + i + 1] ELSE b[i]]

HeadAfter(h, n) == (h + n) % Cap

RingWrite(h, s, o, p) ==
  /\ off' = o + Len(p)
  /\ IF Len(p) >= Cap
     THEN /\ buf' = [i \in 0 .. Cap - 1 |-> p[Len(p) - Cap + i + 1]]
          /\ head' = 0
          /\ size' = Cap
     ELSE /\ buf' = Copied(buf, h, p)
          /\ head' = HeadAfter(h, Len(p))
          /\ size' = Least(s + Len(p), Cap)

(* Ring.Snapshot of a buffer b: the s bytes before place h.                *)
Kept(b, h, s) ==
  LET start == (h + Cap - s) % Cap
      c == Least(s, Cap - start)
  IN [j \in 1 .. s |-> IF j <= c THEN b[start + j - 1] ELSE b[j - c - 1]]

Contents == Kept(buf, head, size)

-----------------------------------------------------------------------------
(* Screen.write looks for sequences in p and across its seam with the tail.*)
Edge(p) == tail \o FirstN(p, AltCarry)
NextTail(t, p) == LastN(IF Len(p) > AltCarry THEN p ELSE t, AltCarry)

Switch(p) ==
  /\ alt' = LastAlt(p, LastAlt(Edge(p), alt))
  /\ tail' = NextTail(Edge(p), p)

Init ==
  /\ stream \in UNION {[1 .. n -> Bytes] : n \in 0 .. MaxLen}
  /\ buf = [i \in 0 .. Cap - 1 |-> Zero]
  /\ head = 0
  /\ size = 0
  /\ off = 0
  /\ alt = FALSE
  /\ tail = <<>>
  /\ blind = FALSE

(* Write: the output goes on.                                              *)
Write(n) ==
  /\ n \in off .. Len(stream)
  /\ RingWrite(head, size, off, Slice(off, n))
  /\ Switch(Slice(off, n))
  /\ blind' = (blind /\ Found(Slice(off, n)) = {})
  /\ UNCHANGED stream

(* WriteAt: a piece with the offset of its end.  One that is there already *)
(* is refused, the start of one that overlaps cut off; after a gap the     *)
(* ring starts anew.                                                       *)
IsNew(end) == end > off

Unseen(a) == IF a < off THEN off ELSE a

WriteAt(a, end) ==
  /\ a \in 0 .. Len(stream) /\ end \in a .. Len(stream)
  /\ IsNew(end)
  /\ LET p == Slice(Unseen(a), end)
     IN /\ IF a > off THEN RingWrite(0, 0, a, p)
                      ELSE RingWrite(head, size, off, p)
        /\ Switch(p)
        /\ blind' = (Found(p) = {} /\ (blind \/ a > off))
  /\ UNCHANGED stream

(* Seed: what another screen keeps of the output up to `end'.              *)
Seed(end) ==
  /\ end \in 0 .. Len(stream)
  /\ IsNew(end)
  /\ LET p == LastN(Slice(0, end), Cap)
     IN /\ RingWrite(0, 0, end - Len(p), p)
        /\ tail' = LastN(p, AltCarry)
  /\ alt' = LastAlt(Slice(0, end), FALSE)
  /\ blind' = FALSE
  /\ UNCHANGED stream

Next ==
  \/ \E n \in 0 .. MaxLen : Write(n) \/ Seed(n)
  \/ \E a, end \in 0 .. MaxLen : WriteAt(a, end)

Spec == Init /\ [][Next]_vars

-----------------------------------------------------------------------------
TypeOK ==
  /\ stream \in Seq(Bytes)
  /\ buf \in [0 .. Cap - 1 -> Bytes \cup {Zero}]
  /\ head \in 0 .. Cap - 1
  /\ size \in 0 .. Cap
  /\ off \in Nat
  /\ alt \in BOOLEAN
  /\ tail \in Seq(Bytes)
  /\ blind \in BOOLEAN

(* A snapshot is a piece of the output that ends at its offset: whatever   *)
(* overlaps, repeats and gaps WriteAt met, no byte in it is wrong, twice   *)
(* or missing, so a viewer can cut it at its own offset (screen.go:41-57). *)
IsWindow == size <= off /\ Contents = Slice(off - size, off)

(* However the output was split, the screen knows whether it shows the     *)
(* alternate screen, unless the sequence was in output it never saw        *)
(* (screen.go:19, 73-87).                                                  *)
AltIsRight == ~blind => alt = LastAlt(Slice(0, off), FALSE)

(* The ring buffer is what an unbounded log, cut to Cap bytes, would be.   *)
Log == INSTANCE ScreenLog WITH data <- Contents
ImplementsLog == Log!Spec
=============================================================================
