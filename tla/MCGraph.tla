------------------------------- MODULE MCGraph -------------------------------
(* Two nodes and two edges in two tags, and two changes per transaction:   *)
(* self-loops, parallel edges, both edges of a node under one tag or two,  *)
(* a table that is full, and free lists of two objects.                    *)
EXTENDS Graph
=============================================================================
