----------------------------- MODULE MCRWLock -----------------------------
(* RWLock for three threads, all interchangeable.                          *)
EXTENDS RWLock, TLC

CONSTANTS t1, t2, t3

Symmetry == Permutations(Threads)
=============================================================================
