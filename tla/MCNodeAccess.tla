---------------------------- MODULE MCNodeAccess ----------------------------
\* Accounts, and the goroutines of requests, are interchangeable.
EXTENDS NodeAccess, TLC

Symmetry == Permutations(Users) \union Permutations(Threads)
=============================================================================
