----------------------------- MODULE ChunkChain -----------------------------
(***************************************************************************)
(* What FixSizeAllocator and VariableAllocator have in common: the list of *)
(* chunks in persistent memory, linked through their first word from       *)
(* start_chunk on, the pool the chunks come from, and the callback that    *)
(* brings DRAM back in line with memory after an abort.                    *)
(***************************************************************************)
EXTENDS FixedAllocator, FiniteSets, FiniteSetsExt

Chunks == Pool
Start == <<"start", 0>>      \* _hdr->start_chunk

Next_chunk(m, c) == m[Word(c)].to

\* The list from chunk c on, in order.
ListFrom(m, c) ==
  LET Upto[i \in 0 .. PoolSize] ==
        IF i = 0 THEN IF c = Null THEN <<>> ELSE <<c>>
        ELSE LET s == Upto[i - 1]
             IN IF s = <<>> \/ Next_chunk(m, s[Len(s)]) = Null THEN s
                ELSE Append(s, Next_chunk(m, s[Len(s)]))
  IN Upto[PoolSize]

Listed(m) == ListFrom(m, m[Start])

\* The memory with chunk c appended: at the start, or behind `last`.
Appended(m, last, c) ==
  IF m[Start] = Null THEN [m EXCEPT ![Start] = c] ELSE [m EXCEPT ![Word(last)] = Data(c)]

AppendLogs(m, last) == IF m[Start] = Null THEN {Start} ELSE {Word(last)}

\* The chunk before c in the list: Null for the first one, the tail for one
\* that is not in the list.
Before(m, c) ==
  LET s == Listed(m)
      at == {i \in DOMAIN s : s[i] = c}
      p == IF at = {} THEN Len(s) ELSE Min(at) - 1
  IN IF p = 0 THEN Null ELSE s[p]

\* The list without chunk c, if it is there, and what is logged for that: its
\* own word, too, is logged before the pool's link overwrites it.
Unlinked(m, c) ==
  LET place == IF m[Start] = c THEN Start ELSE Word(Before(m, c))
      listed == c \in Range(Listed(m))
  IN [pm |-> IF ~listed THEN m
             ELSE [m EXCEPT ![place] = IF place = Start THEN Next_chunk(m, c)
                                       ELSE Data(Next_chunk(m, c))],
      logs |-> {Word(c)} \cup IF listed THEN {place} ELSE {}]

\* The end of free() for a chunk that became empty: it leaves the list and
\* goes back to the pool.
Removed(m, c) ==
  LET u == Unlinked(m, c)
      f == fa_free(u.pm, c)
  IN [pm |-> f.pm, logs |-> f.logs \cup u.logs]

\* AllocatorAbortCallback::add: the first action for a chunk counts.
restore_dram_state(fix, C, remove) ==
  [x \in DOMAIN fix \cup C |-> IF x \in DOMAIN fix THEN fix[x] ELSE remove]

\* restore_dram_chunk(c) where _last_chunk_scanned is not known: the chunk
\* before c, or the tail if c is the first one or not there.
LastAfterRestore(m, last, c) ==
  IF m[Start] = Null \/ last # Null THEN last
  ELSE IF m[Start] = c THEN Listed(m)[Len(Listed(m))] ELSE Before(m, c)

\* The chunks taken from the pool.
Taken(m) == {c \in Chunks : c < m[Hdr].tail /\ ~is_free(m, c)}
=============================================================================
