--------------------------- MODULE MCTransaction ---------------------------
(* Small instances of Transaction.                                         *)
EXTENDS Transaction, TLC

CONSTANTS t1, t2, a1, a2

\* log() calls of one line each; or of the second line or both, which leaves
\* entries for it at different places of an extent.
Lines == {<<a1>>, <<a2>>}
MCRanges == {<<a2>>, <<a1, a2>>}
\* Two threads that share both lines, or own one each.
Shared == [t \in Threads |-> Addr]
Disjoint == [t \in Threads |-> IF t = t1 THEN {a1} ELSE {a2}]
=============================================================================
