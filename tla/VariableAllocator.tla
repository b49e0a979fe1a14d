------------------------- MODULE VariableAllocator -------------------------
(***************************************************************************)
(* VariableAllocator: objects of any size in 2 MB chunks.  The free space  *)
(* of a chunk is a list of spots linked through the spots themselves; an   *)
(* object is cut from the end of the first spot that is large enough, and  *)
(* a freed one becomes the new head, merged only with the head right       *)
(* behind it.  max_cont_space spares the search, free_space tells when the *)
(* chunk is empty and goes back to the pool.  An object larger than a      *)
(* chunk takes the end of one and all of the next ones.  As in             *)
(* FixSizeAllocator, DRAM knows which chunks have room and a callback      *)
(* repairs that after an abort.  Sizes are in units of half the smallest   *)
(* object, so that a cut can leave less than an object.                    *)
(***************************************************************************)
EXTENDS ChunkChain, SequencesExt

CONSTANTS
  Size,           \* CHUNK_SIZE - HEADER_SIZE
  MIN_ALLOC,      \* MIN_ALLOC_BYTES
  Sizes,          \* of the objects asked for that fit in a chunk
  Used,           \* part of a large object in its first chunk
  MaxTxOps,       \* allocations and frees of one transaction (a bound)
  MaxDrift        \* free_space of a chunk lost to aborts where a transaction may begin (a bound)

Offsets == 1 .. Size
Header(c) == <<"head", c>>            \* free_list and max_cont_space
Space(c) == <<"space", c>>          \* free_space
Spot(c, i) == <<"spot", c, i>>      \* free_spot_t at offset i

VARIABLES pm, undo, free_chunks, chunk_to_scan, last_chunk_scanned, to_fix,
          live, got, frees, freed, torn, pc      \* as in FixSizeAllocator

dram == <<free_chunks, chunk_to_scan, last_chunk_scanned>>
vars == <<pm, undo, dram, to_fix, live, got, frees, freed, torn, pc>>

Locations ==
  {Hdr, Start} \cup {Word(c) : c \in Chunks} \cup {Header(c) : c \in Chunks}
    \cup {Space(c) : c \in Chunks} \cup {Spot(c, i) : c \in Chunks, i \in Offsets}

\* What a client leaves in its object, where a free_spot_t may have been.
UserData == [next |-> 0, size |-> 0]

\* FreeFormChunk constructor: one spot in front of the `used` last units.  What
\* else the new chunk holds is never read.
FreeFormChunk(m, c, used) ==
  [l \in DOMAIN m |->
     CASE l = Word(c) -> Data(Null)
       [] l = Space(c) -> Size - used
       [] l = Header(c) -> [list |-> 1, max |-> Size - used]
       [] l = Spot(c, 1) -> [next |-> 0, size |-> Size - used]
       [] l[1] = "spot" /\ l[2] = c /\ l # Spot(c, 1) -> UserData
       [] OTHER -> m[l]]

has_space(m, c) == m[Header(c)].max >= MIN_ALLOC

\* VariableAllocator constructor on an existing list.
Construct(m) ==
  /\ free_chunks' = {} /\ chunk_to_scan' = m[Start] /\ last_chunk_scanned' = Null

Init ==
  /\ pm = [l \in Locations |->
             CASE l = Hdr -> NewHdr
               [] l = Start -> Null
               [] l[1] = "word" -> Data(Null)
               [] l[1] = "head" -> [list |-> 0, max |-> 0]
               [] l[1] = "space" -> 0
               [] OTHER -> UserData]
  /\ undo = Empty
  /\ free_chunks = {} /\ chunk_to_scan = Null /\ last_chunk_scanned = Null
  /\ to_fix = Empty
  /\ live = {} /\ got = {} /\ frees = {} /\ freed = {}
  /\ torn = FALSE
  /\ pc = "idle"

Ops == Cardinality(got) + Cardinality(frees)

-----------------------------------------------------------------------------
\* The offsets of the free list of chunk c, in order.
FreeList(m, c) ==
  LET Upto[i \in 0 .. Size] ==
        IF i = 0 THEN IF m[Header(c)].list = 0 THEN <<>> ELSE <<m[Header(c)].list>>
        ELSE LET s == Upto[i - 1]
             IN IF s = <<>> \/ m[Spot(c, s[Len(s)])].next = 0 THEN s
                ELSE Append(s, m[Spot(c, s[Len(s)])].next)
  IN Upto[Size]

\* find_max_cont_space.
find_max_cont_space(m, c) ==
  LET sizes == {m[Spot(c, i)].size : i \in Range(FreeList(m, c))}
  IN IF sizes = {} THEN 0 ELSE Max(sizes)

\* Slip: the largest spot is not searched for again.
MaxAfter_kept(m, c, cut) == m[Header(c)].max

\* max_cont_space after a cut from a spot of the given size.
MaxAfter(m, c, cut) ==
  IF cut = m[Header(c)].max THEN find_max_cont_space(m, c) ELSE m[Header(c)].max

\* FreeFormChunk::alloc(sz) for sz <= max_cont_space, and the client's first
\* write to the object.  free_space is changed but not logged.
FreeFormChunk_alloc(m, c, sz) ==
  LET s == FreeList(m, c)
      k == Min({i \in DOMAIN s : m[Spot(c, s[i])].size >= sz})
      at == s[k]
      spot == m[Spot(c, at)]
      cut == spot.size - sz >= MIN_ALLOC
      off == IF cut THEN at + spot.size - sz ELSE at
      prev == IF k = 1 THEN Header(c) ELSE Spot(c, s[k - 1])
      m2 == IF cut THEN [m EXCEPT ![Spot(c, at)].size = @ - sz]
            ELSE IF k = 1 THEN [m EXCEPT ![Header(c)].list = spot.next]
            ELSE [m EXCEPT ![prev].next = spot.next]
      max == MaxAfter(m2, c, spot.size)
  IN [off |-> off,
      pm |-> [m2 EXCEPT ![Space(c)] = @ - sz, ![Header(c)].max = max,
                        ![Spot(c, off)] = UserData],
      logs |-> (IF cut THEN {Spot(c, at)} ELSE {prev, Spot(c, at)})
                 \cup IF max # m[Header(c)].max THEN {Header(c)} ELSE {}]

\* An object of sz units from chunk c of memory m.
Take(m, c, sz) ==
  LET r == FreeFormChunk_alloc(m, c, sz)
  IN /\ pm' = r.pm
     /\ undo' = log(undo, m, r.logs)
     /\ got' = got \cup {[chunk |-> c, off |-> r.off, size |-> sz, more |-> 0]}

RoomAfter(m, c, sz) == has_space(FreeFormChunk_alloc(m, c, sz).pm, c)

Fits(m, c, sz) == m[Header(c)].max >= sz

\* alloc() from a chunk known to have room.
alloc_listed(sz) ==
  \E c \in free_chunks :
    /\ Fits(pm, c, sz) /\ Take(pm, c, sz)
    /\ IF RoomAfter(pm, c, sz) THEN UNCHANGED <<to_fix, free_chunks>>
       ELSE /\ to_fix' = restore_dram_state(to_fix, {c}, FALSE)
            /\ free_chunks' = free_chunks \ {c}
    /\ UNCHANGED <<chunk_to_scan, last_chunk_scanned>>

\* The chunks the scan passes, up to and with the first that fits.
Scanned(sz) ==
  LET s == ListFrom(pm, chunk_to_scan)
      fit == {i \in DOMAIN s : Fits(pm, s[i], sz)}
  IN IF fit = {} THEN s ELSE SubSeq(s, 1, Min(fit))

LastOf(s) == IF s = <<>> THEN last_chunk_scanned ELSE s[Len(s)]
WithSpace(s) == {c \in Range(s) : has_space(pm, c)}
NoneFits(sz) ==
  \A c \in free_chunks \cup Range(Scanned(sz)) : ~Fits(pm, c, sz)

\* alloc() from a chunk that the scan finds; the chunks with room that it
\* passed are offered from now on.
alloc_scanned(sz) ==
  LET s == Scanned(sz)
      c == LastOf(s)
  IN /\ \A x \in free_chunks : ~Fits(pm, x, sz)
     /\ ~NoneFits(sz) /\ Take(pm, c, sz)
     /\ to_fix' = restore_dram_state(to_fix, WithSpace(s), FALSE)
     /\ free_chunks' = free_chunks \cup
          IF RoomAfter(pm, c, sz) THEN WithSpace(s) ELSE WithSpace(s) \ {c}
     /\ last_chunk_scanned' = c /\ chunk_to_scan' = Next_chunk(pm, c)

\* The chunks that alloc_grown notes for an abort.
Noted(s, c) == WithSpace(s) \cup {c}

\* The new chunk behind the scanned ones s, and the memory with it.  While this
\* transaction itself holds the lock of the pool, since an alloc_large, the
\* inner transaction does not get it.
MayGrow(s) ==
  ~Exhausted(pm) /\ (pm[Start] = Null \/ LastOf(s) # Null) /\ Hdr \notin DOMAIN undo
Grown(s) ==
  LET a == fa_alloc(pm)
  IN [chunk |-> a.obj, pm |-> Appended(FreeFormChunk(a.pm, a.obj, 0), LastOf(s), a.obj)]

\* alloc() with a new chunk, which an inner transaction links in.  If that
\* fails, only the scan has moved.
alloc_grown(sz) ==
  LET s == Scanned(sz)
      g == Grown(s)
  IN /\ NoneFits(sz)
     /\ \/ /\ MayGrow(s) /\ Take(g.pm, g.chunk, sz)
           /\ to_fix' = restore_dram_state(to_fix, Noted(s, g.chunk), FALSE)
           /\ free_chunks' = free_chunks \cup WithSpace(s) \cup
                IF RoomAfter(g.pm, g.chunk, sz) THEN {g.chunk} ELSE {}
           /\ last_chunk_scanned' = g.chunk
        \/ /\ to_fix' = restore_dram_state(to_fix, WithSpace(s), FALSE)
           /\ free_chunks' = free_chunks \cup WithSpace(s)
           /\ last_chunk_scanned' = LastOf(s)
           /\ UNCHANGED <<pm, undo, got>>
     /\ chunk_to_scan' = Null

\* FreeFormChunk::alloc throws OutOfJournalSpace before it changes the chunk:
\* one that the scan is at, which it does not move past, or the one the inner
\* transaction has added, which is then not offered.
alloc_fails(sz) ==
  LET s == Scanned(sz)
      g == Grown(s)
  IN /\ \A x \in free_chunks : ~Fits(pm, x, sz)
     /\ \/ /\ ~NoneFits(sz)
           /\ to_fix' = restore_dram_state(to_fix, WithSpace(s), FALSE)
           /\ free_chunks' = free_chunks \cup WithSpace(Front(s))
           /\ last_chunk_scanned' = LastOf(Front(s)) /\ chunk_to_scan' = LastOf(s)
           /\ UNCHANGED <<pm, torn>>
        \/ /\ NoneFits(sz) /\ MayGrow(s) /\ pm' = g.pm
           /\ to_fix' = restore_dram_state(to_fix, Noted(s, g.chunk), FALSE)
           /\ free_chunks' = free_chunks \cup WithSpace(s)
           /\ last_chunk_scanned' = g.chunk /\ chunk_to_scan' = Null /\ torn' = TRUE
     /\ UNCHANGED <<undo, got>>

alloc ==
  /\ pc = "run" /\ Ops < MaxTxOps
  /\ \E sz \in Sizes :
       \/ (alloc_listed(sz) \/ alloc_scanned(sz) \/ alloc_grown(sz)) /\ UNCHANGED torn
       \/ alloc_fails(sz)
  /\ UNCHANGED <<live, frees, freed, pc>>

\* alloc_large and alloc_chunks: two contiguous chunks, from the tail of the
\* pool, all within the transaction.  If linking them in throws, the scan has
\* been completed, and the client gives the transaction up.
alloc_large ==
  LET c == pm[Hdr].tail
      s == ListFrom(pm, chunk_to_scan)
      m == [pm EXCEPT ![Hdr].tail = @ + 2, ![Hdr].num = @ + 2]
  IN /\ pc = "run" /\ Ops < MaxTxOps /\ c + 1 <= PoolSize
     /\ pm[Start] = Null \/ LastOf(s) # Null
     /\ chunk_to_scan' = Null
     /\ \/ /\ pm' = Appended(FreeFormChunk(m, c, Used), LastOf(s), c)
           /\ undo' = log(undo, pm, {Hdr} \cup AppendLogs(pm, LastOf(s)))
           /\ free_chunks' = free_chunks \cup WithSpace(s) \cup {c}
           /\ to_fix' = restore_dram_state(to_fix, {c}, TRUE)
           /\ last_chunk_scanned' = c
           /\ got' = got \cup {[chunk |-> c, off |-> Size - Used + 1, size |-> Used, more |-> 1]}
           /\ UNCHANGED pc
        \/ /\ pm' = FreeFormChunk(m, c, Used) /\ undo' = log(undo, pm, {Hdr})
           /\ free_chunks' = free_chunks \cup WithSpace(s)
           /\ last_chunk_scanned' = LastOf(s)
           /\ pc' = "failed" /\ UNCHANGED <<to_fix, got>>
     /\ UNCHANGED <<live, frees, freed, torn>>

-----------------------------------------------------------------------------
\* FreeFormChunk::free(addr, sz).
FreeFormChunk_free(m, c, off, sz) ==
  LET h == m[Header(c)]
      joins == h.list # 0 /\ off + sz = h.list
      spot == IF h.list = 0 THEN [next |-> 0, size |-> sz]
              ELSE IF joins THEN [next |-> m[Spot(c, h.list)].next,
                                  size |-> m[Spot(c, h.list)].size + sz]
              ELSE [next |-> h.list, size |-> sz]
  IN [m EXCEPT ![Spot(c, off)] = spot,
               ![Header(c)] = [list |-> off,
                             max |-> IF h.list = 0 THEN sz ELSE Max({h.max, spot.size})],
               ![Space(c)] = @ + sz]

\* The memory after FreeFormChunk::free, before which the further chunks of a
\* large object go back to the pool, and what was logged.
Freed(o) ==
  LET f == IF o.more = 1 THEN fa_free(pm, o.chunk + 1) ELSE [pm |-> pm, logs |-> {}]
  IN [pm |-> FreeFormChunk_free(f.pm, o.chunk, o.off, o.size),
      logs |-> f.logs \cup {Space(o.chunk), Header(o.chunk), Spot(o.chunk, o.off)}]

\* The scan leaves out a chunk that free() takes from the list.
Forget(c) ==
  /\ last_chunk_scanned' = IF last_chunk_scanned = c THEN Before(pm, c) ELSE last_chunk_scanned
  /\ chunk_to_scan' = IF chunk_to_scan = c THEN Next_chunk(pm, c) ELSE chunk_to_scan

\* free(addr, sz), at commit.
free(o) ==
  LET c == o.chunk
      f == Freed(o)
      r == Removed(f.pm, c)
      whole == f.pm[Space(c)] = Size
      was_full == pm[Header(c)].list = 0
  IN /\ pm' = IF whole THEN r.pm ELSE f.pm
     /\ undo' = log(undo, pm, f.logs \cup IF whole THEN r.logs ELSE {})
     /\ to_fix' = IF whole \/ was_full THEN restore_dram_state(to_fix, {c}, ~whole) ELSE to_fix
     /\ free_chunks' = IF whole THEN free_chunks \ {c}
                       ELSE IF was_full THEN free_chunks \cup {c} ELSE free_chunks
     /\ IF whole THEN Forget(c) ELSE UNCHANGED <<chunk_to_scan, last_chunk_scanned>>

-----------------------------------------------------------------------------
\* What free_space of chunk c should be, given the committed objects.
Room(c) == Size - MapThenSumSet(LAMBDA o : o.size, {x \in live : x.chunk = c})

\* Aborts have not lost more of free_space yet than the bound allows.
WithinDrift == \A c \in Range(Listed(pm)) : Room(c) - pm[Space(c)] <= MaxDrift

begin ==
  /\ pc = "idle" /\ WithinDrift /\ pc' = "run"
  /\ UNCHANGED <<pm, undo, dram, to_fix, live, got, frees, freed, torn>>

delayed_free ==
  /\ pc = "run" /\ Ops < MaxTxOps
  /\ \E o \in (live \cup got) \ frees : frees' = frees \cup {o}
  /\ UNCHANGED <<pm, undo, dram, to_fix, live, got, freed, torn, pc>>

clean_one ==
  /\ pc \in {"run", "commit"} /\ pc' = "commit"
  /\ \E o \in frees \ freed : free(o) /\ freed' = freed \cup {o}
  /\ UNCHANGED <<live, got, frees, torn>>

\* free() of the last object of a chunk throws where it changes the list, or
\* (late) when the list and the scan have changed.
clean_fails ==
  /\ pc \in {"run", "commit"} /\ pc' = "failed"
  /\ \E o \in frees \ freed, late \in BOOLEAN :
       LET c == o.chunk
           f == Freed(o)
           u == Unlinked(f.pm, c)
       IN /\ f.pm[Space(c)] = Size
          /\ pm' = IF late THEN u.pm ELSE f.pm
          /\ undo' = log(undo, pm, f.logs \cup IF late THEN u.logs ELSE {})
          /\ to_fix' = restore_dram_state(to_fix, {c}, FALSE)
          /\ free_chunks' = free_chunks \ {c}
          /\ IF late THEN Forget(c) ELSE UNCHANGED <<chunk_to_scan, last_chunk_scanned>>
          /\ torn' = (torn \/ late \/ pc = "commit")
          /\ freed' = freed \cup {o}
  /\ UNCHANGED <<live, got, frees>>

Done == undo' = Empty /\ to_fix' = Empty /\ got' = {} /\ frees' = {} /\ freed' = {} /\ pc' = "idle"

commit ==
  /\ pc \in {"run", "commit"} /\ frees = freed
  /\ live' = (live \cup got) \ freed
  /\ Done /\ UNCHANGED <<pm, dram, torn>>

Restored == {c \in DOMAIN to_fix : ~to_fix[c]}
Dropped == DOMAIN to_fix \ Restored

\* _last_chunk_scanned after remove_dram_chunk(c): the chunk before it in the
\* list, itself if it is the first one, or the tail.
LastAfterRemove(m, last, c) ==
  IF last # c THEN last ELSE IF m[Start] = c THEN c ELSE Before(m, c)

\* _last_chunk_scanned after the abort callback for chunk c.
LastAfter(m, last, c) ==
  IF to_fix[c] THEN LastAfterRemove(m, last, c) ELSE LastAfterRestore(m, last, c)

\* The abort callbacks, in the order of an unordered_map.
FixDram(m) ==
  /\ \E order \in SetToSeqs(DOMAIN to_fix) :
       last_chunk_scanned' =
         FoldLeft(LAMBDA last, c : LastAfter(m, last, c), last_chunk_scanned, order)
  /\ free_chunks' = (free_chunks \ Dropped) \cup {c \in Restored : has_space(m, c)}
  /\ UNCHANGED chunk_to_scan

abort ==
  /\ pc \in {"run", "commit", "failed"}
  /\ pm' = rollback(undo, pm)
  /\ FixDram(rollback(undo, pm))
  /\ torn' = (torn \/ pc = "commit")
  /\ Done /\ UNCHANGED live

restart ==
  /\ pm' = rollback(undo, pm)
  /\ Construct(rollback(undo, pm))
  /\ Done /\ UNCHANGED <<live, torn>>

Next ==
  \/ begin \/ alloc \/ alloc_large \/ delayed_free \/ clean_one \/ clean_fails
  \/ commit \/ abort \/ restart

-----------------------------------------------------------------------------
InUse == (live \cup got) \ freed

\* The units that an object or a spot of the free list covers in chunk c.
Covers(o, c) == IF o.chunk = c THEN o.off .. o.off + o.size - 1
                ELSE IF o.more = 1 /\ c = o.chunk + 1 THEN Offsets ELSE {}
SpotUnits(c, i) == i .. i + pm[Spot(c, i)].size - 1

\* No unit is given out twice or offered while in use: the objects in use and
\* the spots of the free list of a chunk are pairwise disjoint and inside it,
\* and max_cont_space is the largest spot (the assertion in alloc() that the
\* search ends).
SpotsDisjoint ==
  \A c \in Chunks :
    LET objs == {o \in InUse : Covers(o, c) # {}}
        list == FreeList(pm, c)
    IN /\ \A o, p \in objs : o # p => Covers(o, c) \cap Covers(p, c) = {}
       /\ c \in {o.chunk : o \in InUse} =>
            /\ \A i, j \in DOMAIN list :
                 i # j => SpotUnits(c, list[i]) \cap SpotUnits(c, list[j]) = {}
            /\ \A i \in DOMAIN list : SpotUnits(c, list[i]) \subseteq Offsets
            /\ \A i \in DOMAIN list, o \in objs : SpotUnits(c, list[i]) \cap Covers(o, c) = {}
            /\ pm[Header(c)].max = find_max_cont_space(pm, c)
       /\ objs # {} => c < pm[Hdr].tail

\* As in FixSizeAllocator.
DramMatches ==
  pc = "idle" =>
    /\ \A c \in free_chunks : has_space(pm, c) /\ c \in Taken(pm)
    /\ ~torn =>
         \A c \in Range(Listed(pm)) :
           has_space(pm, c) => c \in free_chunks \cup Range(ListFrom(pm, chunk_to_scan))

\* free_space is what the objects in a chunk leave of it: the chunk goes back
\* to the pool with its last object and not before.
FreeSpaceMatches ==
  pc = "idle" => \A c \in {o.chunk : o \in live} : pm[Space(c)] = Room(c)
=============================================================================
