------------------------------ MODULE MCScreen ------------------------------
(* Screen for TLC: four bytes, of which sequences of two and three switch  *)
(* the alternate screen on and off, as ESC[?47h and ESC[?1049h do.         *)
EXTENDS Screen, TLC

CONSTANTS esc, mid, on, no

MCBytes == {esc, mid, on, no}

MCAltSeqs == {[seq |-> s, alt |-> TRUE] : s \in {<<esc, on>>, <<esc, mid, on>>}}
        \cup {[seq |-> s, alt |-> FALSE] : s \in {<<esc, no>>, <<esc, mid, no>>}}

=============================================================================
