-------------------------- MODULE MCJournalLayout --------------------------
(* The real entry and line sizes; addresses at every word of a line and the *)
(* next, lengths around the multiples of an entry.                          *)
EXTENDS JournalLayout

WordAddresses == {8 * k : k \in 0 .. 8}
EdgeLengths == {1, 8, 20, 47, 48, 49, 95, 96, 97, 128}
=============================================================================
