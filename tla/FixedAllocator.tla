--------------------------- MODULE FixedAllocator ---------------------------
(***************************************************************************)
(* FixedAllocator: objects of one size in a pool of persistent memory,     *)
(* numbered from 1.  The header holds the tail, below which every object   *)
(* was handed out once, and the head of the free list, which is linked     *)
(* through the first word of the free objects; a bit of that word marks    *)
(* the object as free.  Each operator gives the memory after the call and, *)
(* where it has one, the journal; memory is a function of locations, with  *)
(* the header at Hdr and the first word of object o at Word(o).            *)
(***************************************************************************)
EXTENDS Integers, Sequences, UndoLog

CONSTANTS
  PoolSize,   \* objects that fit below max_addr
  Null

Pool == 1 .. PoolSize

Hdr == <<"hdr", 0>>
Word(o) == <<"word", o>>

\* A pool just created.
NewHdr == [tail |-> 1, free |-> Null, num |-> 0]

\* The first word of an object: a pointer, and FREE_BIT.
Link(to) == [to |-> to, free_bit |-> TRUE]
Data(to) == [to |-> to, free_bit |-> FALSE]

is_free(pm, o) == pm[Word(o)].free_bit

\* alloc() throws BadAlloc.
Exhausted(pm) == pm[Hdr].free = Null /\ pm[Hdr].tail > PoolSize

\* alloc(): the object, the memory and what was logged.
fa_alloc(pm) ==
  LET h == pm[Hdr]
      o == IF h.free # Null THEN h.free ELSE h.tail
  IN IF h.free # Null
     THEN [obj |-> o, logs |-> {Hdr, Word(o)},
           pm |-> [pm EXCEPT ![Word(o)] = Data(pm[Word(o)].to),
                             ![Hdr] = [h EXCEPT !.free = pm[Word(o)].to, !.num = @ + 1]]]
     ELSE [obj |-> o, logs |-> {Hdr},
           pm |-> [pm EXCEPT ![Hdr] = [h EXCEPT !.tail = @ + 1, !.num = @ + 1]]]

\* free(p, 1), at commit: the last object goes back to the tail, any other to
\* the free list.  The word of the object is written but not logged.
fa_free(pm, o) ==
  LET h == pm[Hdr]
  IN [logs |-> {Hdr},
      pm |-> IF o + 1 = h.tail
             THEN [pm EXCEPT ![Hdr] = [h EXCEPT !.tail = o, !.num = @ - 1]]
             ELSE [pm EXCEPT ![Word(o)] = Link(h.free),
                             ![Hdr] = [h EXCEPT !.free = o, !.num = @ - 1]]]

\* Slip: each object is linked to the old head of the list.
clean_free_list_unchained(pm, list) ==
  LET h == pm[Hdr]
  IN [logs |-> {Hdr},
      pm |-> [l \in DOMAIN pm |->
                IF l = Hdr THEN [h EXCEPT !.free = list[Len(list)], !.num = @ - Len(list)]
                ELSE IF l[1] = "word" /\ l[2] \in Range(list) THEN Link(h.free) ELSE pm[l]]]

\* clean_free_list(): the delayed frees of a transaction (there is a callback
\* only if there are any), in order.  As above,
\* the words of the objects are not logged.
clean_free_list(pm, list) ==
  LET h == pm[Hdr]
      After(i) == IF i = 1 THEN h.free ELSE list[i - 1]
      Place(o) == CHOOSE i \in DOMAIN list : list[i] = o
  IN [logs |-> {Hdr},
      pm |-> [l \in DOMAIN pm |->
                IF l = Hdr THEN [h EXCEPT !.free = list[Len(list)], !.num = @ - Len(list)]
                ELSE IF l[1] = "word" /\ l[2] \in Range(list)
                THEN Link(After(Place(l[2]))) ELSE pm[l]]]
=============================================================================
