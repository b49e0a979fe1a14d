------------------------ MODULE MCTransactionManager ------------------------
(* The transaction table for a few threads.                                *)
EXTENDS TransactionManager, TLC

CONSTANTS t1, t2, t3

Symmetry == Permutations(Threads)
=============================================================================
