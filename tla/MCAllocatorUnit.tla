--------------------------- MODULE MCAllocatorUnit ---------------------------
(* Three small chunks of two objects: a chunk can be first, in the middle  *)
(* or last in the list, and empty, half full or full.  Two big chunks of   *)
(* four units, for objects of two and three: a cut can leave two units or  *)
(* one, which is too small, and a chunk can hold two separate spots.       *)
EXTENDS AllocatorUnit
=============================================================================
