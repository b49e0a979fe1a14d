---------------------------- MODULE AllocatorUnit ----------------------------
(***************************************************************************)
(* AllocatorUnit sends a request to the allocator for its size: a size in  *)
(* fixed_sizes to the FixSizeAllocator of that size, any other to the      *)
(* VariableAllocator, and frees with the same test.  The allocators share  *)
(* no state: each has its own chunks, DRAM sets and abort callback.  So a  *)
(* behaviour here follows one of them, the one the requested size selects. *)
(* (A size within a few bytes of whole chunks goes straight to the pool,   *)
(* as the chunks themselves do.)                                           *)
(***************************************************************************)
EXTENDS Integers, FiniteSets

CONSTANTS
  FixedSizes, RequestSizes,         \* fixed_sizes and the sizes asked for
  SmallChunks, MaxSpots,            \* FixSizeAllocator
  BigChunks, Size, MIN_ALLOC, Used, MaxDrift,     \* VariableAllocator
  MaxTxOps, Null

ASSUME Bounds ==
  /\ SmallChunks \in Nat \ {0} /\ MaxSpots \in Nat \ {0, 1}
  /\ BigChunks \in Nat \ {0} /\ MIN_ALLOC \in Nat \ {0}
  /\ Size \in Nat /\ Used \in 1 .. Size - MIN_ALLOC
  /\ \A sz \in RequestSizes \ FixedSizes : sz \in MIN_ALLOC .. Size
  /\ MaxTxOps \in Nat /\ MaxDrift \in Nat
  /\ Null = 0

VARIABLES kind, pm, undo, free_chunks, chunk_to_scan, last_chunk_scanned,
          to_fix, live, got, frees, freed, torn, phase

unit_vars == <<kind, pm, undo, free_chunks, chunk_to_scan, last_chunk_scanned,
               to_fix, live, got, frees, freed, torn, phase>>

F == INSTANCE FixSizeAllocator WITH PoolSize <- SmallChunks, pc <- phase
V == INSTANCE VariableAllocator WITH PoolSize <- BigChunks,
                                     Sizes <- RequestSizes \ FixedSizes, pc <- phase

is_fixed(size) == size \in FixedSizes

UnitInit ==
  \/ /\ \E size \in RequestSizes : is_fixed(size)
     /\ kind = "fixed" /\ F!Init
  \/ /\ \E size \in RequestSizes : ~is_fixed(size)
     /\ kind = "variable" /\ V!Init

UnitNext ==
  \/ kind = "fixed" /\ F!Next /\ UNCHANGED kind
  \/ kind = "variable" /\ V!Next /\ UNCHANGED kind

UnitSpec == UnitInit /\ [][UnitNext]_unit_vars

-----------------------------------------------------------------------------
\* FixSizeAllocator: the bitmaps of the chunks hold exactly the objects in
\* use, in the middle of a transaction, after an abort and after a restart.
ObjectsMatch == kind = "fixed" => F!ObjectsMatch

\* FixSizeAllocator: between transactions the chunk list in memory holds chunks
\* taken from the pool only, and all of them, so that a restart finds them,
\* unless an exception came between the scan and the list.
ChunksListed == kind = "fixed" => F!ChunksListed

\* VariableAllocator: objects in use and free spots never overlap, and
\* max_cont_space is the largest spot.
SpotsDisjoint == kind = "variable" => V!SpotsDisjoint

\* Both: what DRAM offers has room and belongs to the allocator, after a commit,
\* an abort or a failed commit, and no chunk with room is forgotten, unless an
\* exception came between the scan and what depends on it.
DramMatches == IF kind = "fixed" THEN F!DramMatches ELSE V!DramMatches

\* FixSizeAllocator: "So make sure that doesn't happen": the assertion
\* _last_chunk_scanned != NULL holds whenever a chunk must be appended.
LastChunkKnown == kind = "fixed" => F!LastChunkKnown

\* VariableAllocator: free_space is what the committed objects leave of a
\* chunk, so that the chunk goes back to the pool with its last object.
FreeSpaceMatches == kind = "variable" => V!FreeSpaceMatches
=============================================================================
