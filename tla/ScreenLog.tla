----------------------------- MODULE ScreenLog ------------------------------
(***************************************************************************)
(* What a Screen promises: of one stream of output it keeps what came last *)
(* without a gap, up to Cap bytes, and the offset of its end.              *)
(***************************************************************************)
EXTENDS Naturals, Sequences

CONSTANTS
  Bytes,  \* bytes of output
  Cap,    \* bytes kept
  MaxLen  \* bound: length of the stream

VARIABLES
  stream,  \* all the output there is
  data,    \* the bytes kept, oldest first
  off      \* offset of their end

(* The last n elements of s, or all of them.                               *)
LastN(s, n) == SubSeq(s, IF Len(s) > n THEN Len(s) - n + 1 ELSE 1, Len(s))

(* The output from offset a to offset b.                                   *)
Slice(a, b) == SubSeq(stream, a + 1, b)

Init ==
  /\ stream \in UNION {[1 .. n -> Bytes] : n \in 0 .. MaxLen}
  /\ data = <<>>
  /\ off = 0

(* What follows the bytes kept.                                            *)
Extend(end) ==
  /\ end \in off .. Len(stream)
  /\ data' = LastN(data \o Slice(off, end), Cap)
  /\ off' = end
  /\ UNCHANGED stream

(* A piece that ends further on; what was kept is given up.                *)
Jump(a, end) ==
  /\ end \in 0 .. Len(stream) /\ a \in 0 .. end
  /\ end > off
  /\ data' = LastN(Slice(a, end), Cap)
  /\ off' = end
  /\ UNCHANGED stream

Next == \/ \E end \in 0 .. MaxLen : Extend(end)
        \/ \E a, end \in 0 .. MaxLen : Jump(a, end)

Spec == Init /\ [][Next]_<<stream, data, off>>
=============================================================================
