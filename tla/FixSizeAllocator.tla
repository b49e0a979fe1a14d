-------------------------- MODULE FixSizeAllocator --------------------------
(***************************************************************************)
(* FixSizeAllocator: objects of one small size, kept in 4 KB chunks that a *)
(* FixedAllocator hands out.  The chunks form a list in persistent memory; *)
(* which of them have room is only known in DRAM, where it is found again  *)
(* after a restart by scanning that list.  Objects are freed when the      *)
(* transaction commits.  An abort rolls back the memory, and a callback    *)
(* brings DRAM back in line with it; a new chunk is linked in by an inner  *)
(* transaction and stays.                                                  *)
(***************************************************************************)
EXTENDS ChunkChain

CONSTANTS
  MaxSpots,       \* objects per chunk
  MaxTxOps        \* allocations and frees of one transaction (a bound)

Spots == 0 .. MaxSpots - 1
Map(c) == <<"map", c>>       \* free_spots, next_index and occupants

VARIABLES
  pm,                  \* persistent memory
  undo,                \* journal of the open transaction
  free_chunks, chunk_to_scan, last_chunk_scanned,   \* DRAM
  to_fix,              \* AllocatorAbortCallback: chunk -> remove it from DRAM
  live,                \* objects in use as of the last commit
  got,                 \* objects the open transaction allocated
  frees,               \* objects it will free
  freed,               \* objects its commit has freed so far
  torn,                \* history: an exception has ended a call, or a commit, after the scan had moved
  pc

dram == <<free_chunks, chunk_to_scan, last_chunk_scanned>>
vars == <<pm, undo, dram, to_fix, live, got, frees, freed, torn, pc>>

\* The FixedChunk constructor: a chunk with nothing in it.
FixedChunk == [free_spots |-> MaxSpots, next_index |-> 0, occupants |-> {}]

\* FixSizeAllocator constructor on an existing list: nothing scanned yet.
Construct(m) ==
  /\ free_chunks' = {} /\ chunk_to_scan' = m[Start] /\ last_chunk_scanned' = Null

Init ==
  /\ pm = [l \in {Hdr, Start} \cup {Word(c) : c \in Chunks} \cup {Map(c) : c \in Chunks} |->
             CASE l = Hdr -> NewHdr
               [] l = Start -> Null
               [] l[1] = "word" -> Data(Null)
               [] OTHER -> FixedChunk]
  /\ undo = Empty
  /\ free_chunks = {} /\ chunk_to_scan = Null /\ last_chunk_scanned = Null
  /\ to_fix = Empty
  /\ live = {} /\ got = {} /\ frees = {} /\ freed = {}
  /\ torn = FALSE
  /\ pc = "idle"

\* A transaction may go on (a bound): for one operation less once torn.
Ops == Cardinality(got) + Cardinality(frees)
MayGoOn == Ops < IF torn THEN MaxTxOps - 1 ELSE MaxTxOps

-----------------------------------------------------------------------------
\* FixedChunk::alloc: the first free spot from next_index on, or from 0.
FixedChunk_alloc(m) ==
  LET ahead == {i \in Spots \ m.occupants : i >= m.next_index}
      i == IF ahead # {} THEN Min(ahead) ELSE Min(Spots \ m.occupants)
  IN [spot |-> i,
      map |-> [free_spots |-> m.free_spots - 1, next_index |-> i + 1,
               occupants |-> m.occupants \cup {i}]]

\* Slip: free_spots is raised only for a chunk that was full.
FixedChunk_free_uncounted(m, i) ==
  [free_spots |-> IF m.free_spots = 0 THEN 1 ELSE m.free_spots,
   next_index |-> i,
   occupants |-> m.occupants \ {i}]

\* FixedChunk::free.
FixedChunk_free(m, i) ==
  [free_spots |-> m.free_spots + 1,
   next_index |-> IF m.free_spots = 0 THEN i ELSE m.next_index,
   occupants |-> m.occupants \ {i}]

\* An object of chunk c goes to the caller; m is the memory the chunk is in.
Take(m, c) ==
  LET r == FixedChunk_alloc(m[Map(c)])
  IN /\ pm' = [m EXCEPT ![Map(c)] = r.map]
     /\ undo' = log(undo, m, {Map(c)})
     /\ got' = got \cup {<<c, r.spot>>}

\* Slip: a chunk that an allocation fills is not noted for an abort.
alloc_listed_unnoted ==
  \E c \in free_chunks :
    LET full == pm[Map(c)].free_spots = 1
    IN /\ Take(pm, c)
       /\ free_chunks' = IF full THEN free_chunks \ {c} ELSE free_chunks
       /\ UNCHANGED <<chunk_to_scan, last_chunk_scanned, to_fix, torn>>

\* alloc() from a chunk known to have room.
alloc_listed ==
  \E c \in free_chunks :
    LET full == pm[Map(c)].free_spots = 1
    IN /\ Take(pm, c)
       /\ to_fix' = IF full THEN restore_dram_state(to_fix, {c}, FALSE) ELSE to_fix
       /\ free_chunks' = IF full THEN free_chunks \ {c} ELSE free_chunks
       /\ UNCHANGED <<chunk_to_scan, last_chunk_scanned, torn>>

\* The chunks the scan passes, up to and with the first that has room.
Scanned ==
  LET s == ListFrom(pm, chunk_to_scan)
      room == {i \in DOMAIN s : pm[Map(s[i])].free_spots > 0}
  IN IF room = {} THEN s ELSE SubSeq(s, 1, Min(room))

LastScanned == IF Scanned = <<>> THEN last_chunk_scanned ELSE Scanned[Len(Scanned)]

NoneHasRoom == \A i \in DOMAIN Scanned : pm[Map(Scanned[i])].free_spots = 0

\* alloc() from a chunk that the scan finds.
alloc_scanned ==
  /\ free_chunks = {} /\ ~NoneHasRoom
  /\ LET c == LastScanned
         left == pm[Map(c)].free_spots - 1
     IN /\ Take(pm, c)
        /\ to_fix' = IF left = 0 THEN restore_dram_state(to_fix, {c}, FALSE) ELSE to_fix
        /\ free_chunks' = IF left > 0 THEN {c} ELSE {}
        /\ last_chunk_scanned' = c
        /\ chunk_to_scan' = Next_chunk(pm, c)
  /\ UNCHANGED torn

\* The new chunk and the memory after the inner transaction linked it in.
Grown ==
  LET a == fa_alloc(pm)
      made == [a.pm EXCEPT ![Word(a.obj)] = Data(Null), ![Map(a.obj)] = FixedChunk]
  IN [chunk |-> a.obj, pm |-> Appended(made, LastScanned, a.obj)]

\* assert(_last_chunk_scanned) ends the program.
MayGrow == NoneHasRoom /\ ~Exhausted(pm) /\ (pm[Start] = Null \/ LastScanned # Null)

\* alloc() when every chunk is full.  If the inner transaction fails (BadAlloc,
\* LockTimeout or OutOfJournalSpace), only the scan has moved.
alloc_grown ==
  /\ free_chunks = {} /\ NoneHasRoom
  /\ \/ /\ MayGrow
        /\ Take(Grown.pm, Grown.chunk)
        /\ last_chunk_scanned' = Grown.chunk /\ free_chunks' = {Grown.chunk}
     \/ last_chunk_scanned' = LastScanned /\ UNCHANGED <<pm, undo, free_chunks, got>>
  /\ chunk_to_scan' = Null
  /\ UNCHANGED <<to_fix, torn>>

\* FixedChunk::alloc throws OutOfJournalSpace before it changes the chunk that
\* the scan has found or the inner transaction has added: the chunk is behind
\* the scan and not offered.  (Of a chunk known to have room, nothing changes.)
alloc_fails ==
  /\ free_chunks = {} /\ torn' = TRUE
  /\ \/ /\ ~NoneHasRoom
        /\ last_chunk_scanned' = LastScanned /\ chunk_to_scan' = Next_chunk(pm, LastScanned)
        /\ UNCHANGED pm
     \/ /\ MayGrow /\ pm' = Grown.pm
        /\ last_chunk_scanned' = Grown.chunk /\ chunk_to_scan' = Null
  /\ UNCHANGED <<undo, free_chunks, got, to_fix>>

alloc ==
  /\ pc = "run" /\ MayGoOn
  /\ alloc_listed \/ alloc_scanned \/ alloc_grown \/ alloc_fails
  /\ UNCHANGED <<live, frees, freed, pc>>

-----------------------------------------------------------------------------
\* Slip: the first word of an emptied chunk is not logged before the pool's
\* link replaces it.
FreeLogs_noword(c, r, whole) == {Map(c)} \cup IF whole THEN r.logs \ {Word(c)} ELSE {}

\* What free() logs: the bitmap and, for a chunk that leaves, its word, the
\* word or start_chunk that pointed to it, and the header of the pool.
FreeLogs(c, r, whole) == {Map(c)} \cup IF whole THEN r.logs ELSE {}

\* The scan leaves out a chunk that free() takes from the list.
Forget(c) ==
  /\ last_chunk_scanned' = IF last_chunk_scanned = c THEN Before(pm, c) ELSE last_chunk_scanned
  /\ chunk_to_scan' = IF chunk_to_scan = c THEN Next_chunk(pm, c) ELSE chunk_to_scan

\* free(addr), at commit.
free(o) ==
  LET c == o[1]
      fixed == [pm EXCEPT ![Map(c)] = FixedChunk_free(@, o[2])]
      r == Removed(fixed, c)
      whole == fixed[Map(c)].free_spots = MaxSpots
      was_full == pm[Map(c)].free_spots = 0
  IN /\ pm' = IF whole THEN r.pm ELSE fixed
     /\ undo' = log(undo, pm, FreeLogs(c, r, whole))
     /\ to_fix' = IF whole \/ was_full THEN restore_dram_state(to_fix, {c}, ~whole) ELSE to_fix
     /\ free_chunks' = IF whole THEN free_chunks \ {c}
                       ELSE IF was_full THEN free_chunks \cup {c} ELSE free_chunks
     /\ IF whole THEN Forget(c) ELSE UNCHANGED <<chunk_to_scan, last_chunk_scanned>>

-----------------------------------------------------------------------------
begin ==
  /\ pc = "idle" /\ pc' = "run"
  /\ UNCHANGED <<pm, undo, dram, to_fix, live, got, frees, freed, torn>>

\* A client frees an object: remembered until commit.
delayed_free ==
  /\ pc = "run" /\ MayGoOn
  /\ \E o \in (live \cup got) \ frees : frees' = frees \cup {o}
  /\ UNCHANGED <<pm, undo, dram, to_fix, live, got, freed, torn, pc>>

\* finalize_commit runs the callbacks: one object of the list per step.
clean_one ==
  /\ pc \in {"run", "commit"} /\ pc' = "commit"
  /\ \E o \in frees \ freed : free(o) /\ freed' = freed \cup {o}
  /\ UNCHANGED <<live, got, frees, torn>>

\* free() of the last object of a chunk throws OutOfJournalSpace: where it
\* changes the list, or (late) when the list and the scan have changed, before
\* the chunk is back in the pool.  A throw of FixedChunk::free is one between
\* two frees: abort.
clean_fails ==
  /\ pc \in {"run", "commit"} /\ pc' = "failed"
  /\ \E o \in frees \ freed, late \in BOOLEAN :
       LET c == o[1]
           fixed == [pm EXCEPT ![Map(c)] = FixedChunk_free(@, o[2])]
           u == Unlinked(fixed, c)
       IN /\ fixed[Map(c)].free_spots = MaxSpots
          /\ pm' = IF late THEN u.pm ELSE fixed
          /\ undo' = log(undo, pm, {Map(c)} \cup IF late THEN u.logs ELSE {})
          /\ to_fix' = restore_dram_state(to_fix, {c}, FALSE)
          /\ free_chunks' = free_chunks \ {c}
          /\ IF late THEN Forget(c) ELSE UNCHANGED <<chunk_to_scan, last_chunk_scanned>>
          /\ torn' = (torn \/ late \/ pc = "commit")
          /\ freed' = freed \cup {o}
  /\ UNCHANGED <<live, got, frees>>

Done == undo' = Empty /\ to_fix' = Empty /\ got' = {} /\ frees' = {} /\ freed' = {} /\ pc' = "idle"

\* The commit is complete.
commit ==
  /\ pc \in {"run", "commit"} /\ frees = freed
  /\ live' = (live \cup got) \ freed
  /\ Done /\ UNCHANGED <<pm, dram, torn>>

Restored == {c \in DOMAIN to_fix : ~to_fix[c]}

\* The abort callbacks: restore_dram_chunk and remove_dram_chunk see the
\* memory as the rollback left it, in the order of an unordered_map.
FixDram(m) ==
  /\ IF Restored = {} THEN UNCHANGED last_chunk_scanned
     ELSE \E c \in Restored :
            last_chunk_scanned' = LastAfterRestore(m, last_chunk_scanned, c)
  /\ free_chunks' =
       (free_chunks \cup {c \in Restored : m[Map(c)].free_spots > 0})
         \ {c \in DOMAIN to_fix \ Restored : m[Map(c)].free_spots = 0}
  /\ UNCHANGED chunk_to_scan

\* The destructor of a transaction that did not commit: the client gave it up,
\* or finalize_commit threw, maybe after some of the frees.
abort ==
  /\ pc \in {"run", "commit", "failed"}
  /\ pm' = rollback(undo, pm)
  /\ FixDram(rollback(undo, pm))
  /\ torn' = (torn \/ pc = "commit")
  /\ Done /\ UNCHANGED live

\* The program ends, or crashes, and opens the graph again.
restart ==
  /\ pm' = rollback(undo, pm)
  /\ Construct(rollback(undo, pm))
  /\ Done /\ UNCHANGED <<live, torn>>

Next ==
  \/ begin \/ alloc \/ delayed_free \/ clean_one \/ clean_fails \/ commit
  \/ abort \/ restart

-----------------------------------------------------------------------------
InUse == (live \cup got) \ freed
HasRoom(c) == pm[Map(c)].free_spots > 0

\* The bitmaps hold exactly the objects in use, also in the middle of a
\* transaction and after an abort or a restart: no object is handed out
\* twice, none is lost, and free_spots counts the rest.
ObjectsMatch ==
  \A c \in Chunks :
    LET used == {i \in Spots : <<c, i>> \in InUse}
        m == pm[Map(c)]
    IN used # {} => m.occupants = used /\ m.free_spots = MaxSpots - Cardinality(used)

\* DRAM agrees with memory between transactions: a chunk offered for
\* allocation has room (the assertion in alloc()) and belongs to this
\* allocator, and a listed chunk with room is offered or still to be scanned,
\* so that no space is lost, unless an exception has come between the scan and
\* what depends on it.
DramMatches ==
  pc = "idle" =>
    /\ \A c \in free_chunks : HasRoom(c) /\ c \in Taken(pm)
    /\ ~torn =>
         \A c \in Range(Listed(pm)) :
           HasRoom(c) => c \in free_chunks \cup Range(ListFrom(pm, chunk_to_scan))

\* Between transactions the list in memory holds only chunks taken from the
\* pool, and all of them, so that a restart finds them, unless an exception has
\* put the scan back into the list, whose end the next chunk then replaces.
ChunksListed ==
  pc = "idle" =>
    /\ Range(Listed(pm)) \subseteq Taken(pm)
    /\ ~torn => Taken(pm) \subseteq Range(Listed(pm))

\* "So make sure that doesn't happen" (restore_dram_chunk): the assertion
\* _last_chunk_scanned != NULL holds whenever a chunk must be appended.
LastChunkKnown ==
  pc = "idle" /\ chunk_to_scan = Null /\ pm[Start] # Null => last_chunk_scanned # Null
=============================================================================
