----------------------------- MODULE MCUpdStore -----------------------------
(* UpdStore for TLC: bundles of a kind, contents and threads are alike. *)
EXTENDS UpdStore, TLC

Symmetry == Permutations(Builds) \union Permutations(Commons)
              \union Permutations(Texts) \union Permutations(Threads)
=============================================================================
