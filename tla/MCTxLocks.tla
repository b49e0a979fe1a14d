----------------------------- MODULE MCTxLocks -----------------------------
(* Three transactions on three objects, two of which share a stripe.        *)
EXTENDS TxLocks, TLC

Symmetry == Permutations(Threads)
=============================================================================
