---------------------------- MODULE MCTileBoards ----------------------------
(* TileBoards for TLC: the scripts are in folder 1; threads are alike. *)
EXTENDS TileBoards

Above == <<1>>
Symmetry == Permutations(Threads)
=============================================================================
