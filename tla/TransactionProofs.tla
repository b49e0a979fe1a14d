-------------------------- MODULE TransactionProofs --------------------------
(***************************************************************************)
(* The undo journal for any number of threads, lines, slots, journal       *)
(* entries and power failures: types, the write-ahead rule and isolation,  *)
(* with either flush instruction; then what a failure leaves, and the      *)
(* refinement of AtomicStore.                                              *)
(***************************************************************************)
EXTENDS Transaction, FiniteSetTheorems, WellFoundedInduction, TLAPS

\* Where a transaction has its slot and its journal.
Held == {"claimed", "run", "log", "stamp", "undo", "unlock"}
HeaderOf(t) == [id |-> id[t], active |-> TRUE]

\* An entry that points to a line holds contents of a line.
EntriesOK ==
  \A s \in Slots, i \in 1 .. JSize :
    /\ jrn[s][i].addr \in Addr => jrn[s][i].old \in Val
    /\ pjrn[s][i].addr \in Addr => pjrn[s][i].old \in Val

\* Nobody runs before recovery is over; an extent has room for what a log()
\* call has left to write, and is empty outside of a transaction.
LocalsOK ==
  /\ mode = "recover" => \A t \in Threads : pc[t] = "out"
  /\ left # None => mode = "recover" /\ at \in Slots
  /\ \A t \in Threads :
       /\ pc[t] \notin Held \ {"claimed"} => jcur[t] = 0 /\ logged[t] = {}
       /\ pc[t] \in {"log", "stamp"} => jcur[t] + Len(range[t]) < JSize
       /\ pc[t] = "stamp" => range[t] # <<>>

\* A slot belongs to one transaction from its claim until free_transaction.
SlotsHeld ==
  \A t \in Threads : pc[t] \in Held =>
    /\ hdr[slot[t]] = HeaderOf(t)
    /\ \A u \in Threads : u # t /\ pc[u] \in Held => slot[u] # slot[t]

\* The entries below _jcur are stamped, and every logged line is among them.
Journalled ==
  \A t \in Threads : pc[t] \in Held =>
    /\ \A i \in 1 .. jcur[t] : jrn[slot[t]][i].id = id[t] /\ jrn[slot[t]][i].addr \in Addr
    /\ \A a \in logged[t] : \E i \in 1 .. jcur[t] : jrn[slot[t]][i].addr = a
    /\ pc[t] = "stamp" => jrn[slot[t]][jcur[t] + 1].addr = Head(range[t])

\* Outside of log() the journal is durable under its header.
JournalDurable ==
  \A t \in Threads : pc[t] \in {"run", "undo", "unlock"} /\ jcur[t] > 0 =>
    /\ phdr[slot[t]] = HeaderOf(t)
    /\ \A i \in 1 .. jcur[t] : pjrn[slot[t]][i] = jrn[slot[t]][i]

\* The inductive invariant behind WriteAhead.
JournalInv ==
  TypeOK /\ EntriesOK /\ LocalsOK /\ SlotsHeld /\ Journalled /\ JournalDurable

USE DEF data, table, journal, txLocals, boot, history, Goto

-----------------------------------------------------------------------------
(***************************************************************************)
(* Least elements stand in for induction: a nonempty set of naturals has   *)
(* one, and a nonempty set of slots has a last one.                        *)
(***************************************************************************)
Less == {p \in Nat \X Nat : p[1] < p[2]}

LEMMA NatLeast ==
  ASSUME NEW T, T \subseteq Nat, T # {}
  PROVE  \E x \in T : \A y \in T : x <= y
  <1>1. IsWellFoundedOn(OpToRel(<, Nat), Nat)  BY NatLessThanWellFounded, Zenon
  <1>2. IsWellFoundedOn(Less, Nat)  BY <1>1, Zenon DEF OpToRel, Less
  <1>3. PICK x \in T : \A y \in T : ~(<<y, x>> \in Less)  BY <1>2, WFMin
  <1>4. \A y \in T : ~(y < x)  BY <1>3 DEF Less
  <1>5. QED  BY <1>4

LEMMA SlotLast ==
  ASSUME NEW S, S \subseteq Slots, S # {}
  PROVE  \E s \in S : \A r \in S : r <= s
  <1> DEFINE n == Cardinality(Slots)
             T == {n - s : s \in S}
  <1>1. n \in Nat  BY SlotsAssumption, FS_CardinalityType
  <1>2. ASSUME NEW s \in Slots PROVE s \in Nat /\ s < n
    <2>1. s \in Nat /\ 0 .. s \subseteq Slots  BY SlotsAssumption
    <2>2. Cardinality(0 .. s) <= n  BY <2>1, SlotsAssumption, FS_Subset
    <2>3. Cardinality(0 .. s) = s + 1
      <3>1. 0 \in Int /\ s \in Int /\ ~(0 > s)  BY <2>1
      <3>2. QED  BY <3>1, FS_Interval
    <2>4. QED  BY <2>1, <2>2, <2>3, <1>1
  <1>3. T \subseteq Nat /\ T # {}  BY <1>1, <1>2
  <1>4. PICK x \in T : \A y \in T : x <= y  BY <1>3, NatLeast
  <1>5. PICK s \in S : x = n - s  BY <1>4
  <1>6. ASSUME NEW r \in S PROVE r <= s
    <2>1. n - r \in T  OBVIOUS
    <2>2. n - s <= n - r  BY <2>1, <1>4, <1>5
    <2>3. QED  BY <2>2, <1>1, <1>2
  <1>7. QED  BY <1>6

\* The last slot and the first entry of a line are what their names say.
LEMMA LastSlotIs ==
  ASSUME NEW S, S \subseteq Slots, S # {}
  PROVE  LastSlot(S) \in S /\ \A r \in S : r <= LastSlot(S)
  BY SlotLast DEF LastSlot

LEMMA FirstEntryIs ==
  ASSUME NEW s \in Slots, NEW a, JSize \in Nat,
         \E i \in ValidEntries(phdr[s], pjrn[s]) : pjrn[s][i].addr = a
  PROVE  /\ FirstEntry(s, a) \in ValidEntries(phdr[s], pjrn[s])
         /\ pjrn[s][FirstEntry(s, a)].addr = a
         /\ \A k \in 1 .. (FirstEntry(s, a) - 1) : pjrn[s][k].addr # a
  <1> DEFINE V == ValidEntries(phdr[s], pjrn[s])
             T == {i \in V : pjrn[s][i].addr = a}
  <1>1. V \subseteq 1 .. JSize  BY DEF ValidEntries
  <1>2. T \subseteq Nat /\ T # {}  BY <1>1
  <1>3. PICK x \in T : \A y \in T : x <= y  BY <1>2, NatLeast
  <1>4. ASSUME NEW k \in 1 .. (x - 1) PROVE pjrn[s][k].addr # a
    <2>1. x \in 1 .. JSize /\ \A l \in 1 .. x : pjrn[s][l].id = phdr[s].id
      BY DEF ValidEntries
    <2>2. k \in 1 .. JSize /\ k \in 1 .. x /\ k < x  BY <2>1
    <2>3. k \in V  BY <2>1, <2>2 DEF ValidEntries
    <2>4. QED  BY <2>2, <2>3, <1>3, <1>1
  <1>5. QED  BY <1>3, <1>4 DEF FirstEntry

\* Recovery would leave contents of lines everywhere.
LEMMA RecoveredType ==
  ASSUME TypeOK, EntriesOK
  PROVE  Recovered \in [Addr -> Val]
  <1> SUFFICES ASSUME NEW a \in Addr, UndoSlots(a) # {}
               PROVE  pjrn[LastSlot(UndoSlots(a))][FirstEntry(LastSlot(UndoSlots(a)), a)].old \in Val
    BY DEF Recovered, TypeOK
  <1> DEFINE s == LastSlot(UndoSlots(a))
  <1>1. s \in UndoSlots(a)  BY LastSlotIs DEF UndoSlots
  <1>2. s \in Slots /\ \E i \in ValidEntries(phdr[s], pjrn[s]) : pjrn[s][i].addr = a
    BY <1>1 DEF UndoSlots
  <1> HIDE DEF s
  <1>3. FirstEntry(s, a) \in 1 .. JSize /\ pjrn[s][FirstEntry(s, a)].addr = a
    BY <1>2, FirstEntryIs, ConstAssumption DEF ValidEntries
  <1>4. QED  BY <1>2, <1>3 DEF EntriesOK, s

\* The valid entries of an extent are an initial segment of it.
LEMMA ValidSegment ==
  ASSUME NEW h, NEW j
  PROVE  \E n \in 0 .. JSize : ValidEntries(h, j) = 1 .. n /\ Cardinality(ValidEntries(h, j)) = n
  <1> DEFINE T == {i \in 1 .. (JSize + 1) : i = JSize + 1 \/ j[i].id # h.id}
  <1>1. JSize \in Nat  BY ConstAssumption
  <1>2. T \subseteq Nat /\ JSize + 1 \in T  BY <1>1
  <1>3. PICK x \in T : \A y \in T : x <= y  BY <1>2, NatLeast
  <1>4. x \in 1 .. (JSize + 1) /\ (x = JSize + 1 \/ j[x].id # h.id)  BY <1>3
  <1>5. \A k \in 1 .. (x - 1) : k \in 1 .. JSize /\ j[k].id = h.id
    <2>1. TAKE k \in 1 .. (x - 1)
    <2>2. k \in 1 .. JSize /\ k < x  BY <1>1, <1>4
    <2>3. k \notin T  BY <2>2, <1>1, <1>3, <1>4
    <2>4. QED  BY <2>2, <2>3, <1>1
  <1>6. ValidEntries(h, j) = 1 .. (x - 1)
    <2>1. ASSUME NEW i \in ValidEntries(h, j) PROVE i \in 1 .. (x - 1)
      <3>1. i \in 1 .. JSize /\ \A k \in 1 .. i : j[k].id = h.id  BY DEF ValidEntries
      <3>2. CASE x <= i  BY <3>1, <3>2, <1>1, <1>4
      <3>3. QED  BY <3>1, <3>2, <1>1, <1>4
    <2>2. ASSUME NEW i \in 1 .. (x - 1) PROVE i \in ValidEntries(h, j)
      <3>1. \A k \in 1 .. i : k \in 1 .. (x - 1)  BY <1>4, <1>1
      <3>2. QED  BY <3>1, <1>5 DEF ValidEntries
    <2>3. QED  BY <2>1, <2>2
  <1>7. x - 1 \in 0 .. JSize  BY <1>1, <1>4
  <1>8. Cardinality(1 .. (x - 1)) = x - 1
    <2>1. 1 \in Int /\ x - 1 \in Int  BY <1>7, <1>1
    <2>2. Cardinality(1 .. (x - 1)) = IF 1 > x - 1 THEN 0 ELSE (x - 1) - 1 + 1
      BY <2>1, FS_Interval
    <2>3. QED  BY <2>2, <1>7, <1>1
  <1>9. QED  BY <1>6, <1>7, <1>8

-----------------------------------------------------------------------------
(***************************************************************************)
(* What the composite updates do to the tables.                            *)
(***************************************************************************)
LEMMA EntryFields ==
  ASSUME NEW e \in Entry
  PROVE  e.id \in Ids /\ e.addr \in Addr \cup {None} /\ e.old \in Val \cup {None}
  BY DEF Entry

WithData(e, a, v) == [[e EXCEPT !.addr = a] EXCEPT !.old = v]

LEMMA EntryData ==
  ASSUME NEW e \in Entry, NEW a \in Addr, NEW v \in Val
  PROVE  /\ WithData(e, a, v) \in Entry
         /\ WithData(e, a, v).id = e.id
         /\ WithData(e, a, v).addr = a
         /\ WithData(e, a, v).old = v
  BY DEF WithData, Entry

LEMMA EntryStamp ==
  ASSUME NEW e \in Entry, NEW i \in Ids
  PROVE  /\ [e EXCEPT !.id = i] \in Entry
         /\ [e EXCEPT !.id = i].id = i
         /\ [e EXCEPT !.id = i].addr = e.addr
         /\ [e EXCEPT !.id = i].old = e.old
  BY DEF Entry

LEMMA HeaderFields ==
  /\ \A x \in Ids, b \in BOOLEAN : [id |-> x, active |-> b] \in Hdr
  /\ \A h \in Hdr : /\ h.id \in Ids /\ h.active \in BOOLEAN
                    /\ [h EXCEPT !.active = FALSE] \in Hdr
                    /\ [h EXCEPT !.active = FALSE] = [id |-> h.id, active |-> FALSE]
                    /\ h = [id |-> h.id, active |-> h.active]
  <1>1. \A x \in Ids, b \in BOOLEAN : [id |-> x, active |-> b] \in Hdr  BY DEF Hdr
  <1>2. \A h \in Hdr : h.id \in Ids /\ h.active \in BOOLEAN  BY DEF Hdr
  <1>3. \A h \in Hdr : h = [id |-> h.id, active |-> h.active]  BY DEF Hdr
  <1>4. ASSUME NEW h \in Hdr PROVE [h EXCEPT !.active = FALSE] = [id |-> h.id, active |-> FALSE]
    <2>1. PICK g \in Hdr : g = [h EXCEPT !.active = FALSE]  BY DEF Hdr
    <2>2. g.id = h.id /\ g.active = FALSE  BY <2>1 DEF Hdr
    <2>3. QED  BY <1>3, <2>1, <2>2
  <1>5. \A h \in Hdr : [h EXCEPT !.active = FALSE] \in Hdr  BY DEF Hdr
  <1>6. QED  BY <1>1, <1>2, <1>3, <1>4, <1>5

\* A log() call that has lines left has a next line and room for its entry.
LEMMA NextLine ==
  ASSUME JournalInv, NEW t \in Threads, pc[t] \in {"log", "stamp"}, range[t] # <<>>
  PROVE  /\ Head(range[t]) \in Addr /\ jcur[t] + 1 \in 1 .. JSize
         /\ Tail(range[t]) \in Seq(Addr) /\ Len(range[t]) > 0
         /\ jcur[t] + 1 + Len(Tail(range[t])) < JSize
  <1>1. range[t] \in Seq(Addr) /\ jcur[t] \in Nat  BY DEF JournalInv, TypeOK
  <1>2. /\ Head(range[t]) \in Addr /\ Tail(range[t]) \in Seq(Addr)
        /\ Len(range[t]) \in Nat /\ Len(range[t]) > 0
        /\ Len(Tail(range[t])) = Len(range[t]) - 1
    BY <1>1
  <1>3. jcur[t] + Len(range[t]) < JSize /\ JSize \in Nat
    BY ConstAssumption DEF JournalInv, LocalsOK
  <1>4. QED  BY <1>1, <1>2, <1>3

LEMMA DataEffect ==
  ASSUME JournalInv, NEW t \in Threads, log_je_data(t)
  PROVE  /\ jrn' \in [Slots -> [1 .. JSize -> Entry]]
         /\ \A s \in Slots, i \in 1 .. JSize :
              IF s = slot[t] /\ i = jcur[t] + 1
              THEN /\ jrn'[s][i].id = jrn[s][i].id
                   /\ jrn'[s][i].addr = Head(range[t])
                   /\ jrn'[s][i].old = mem[Head(range[t])]
              ELSE jrn'[s][i] = jrn[s][i]
  <1>1. slot[t] \in Slots /\ pc[t] = "log" /\ range[t] # <<>>
    BY DEF JournalInv, TypeOK, log_je_data
  <1>2. PICK s \in Slots, n \in 1 .. JSize, a \in Addr :
           s = slot[t] /\ n = jcur[t] + 1 /\ a = Head(range[t])
    BY <1>1, NextLine
  <1>3. jrn \in [Slots -> [1 .. JSize -> Entry]] /\ mem \in [Addr -> Val]
    BY DEF JournalInv, TypeOK
  <1>4. jrn[s][n] \in Entry /\ mem[a] \in Val  BY <1>3
  <1>5. PICK e \in Entry : /\ e = WithData(jrn[s][n], a, mem[a])
                           /\ e.id = jrn[s][n].id /\ e.addr = a /\ e.old = mem[a]
    BY <1>4, EntryData
  <1>6. jrn' = [jrn EXCEPT ![s][n] = WithData(jrn[s][n], a, mem[a])]
    BY <1>2, <1>3 DEF log_je_data, WithData
  <1>7. jrn' = [jrn EXCEPT ![s][n] = e]  BY <1>5, <1>6
  <1>8. jrn' \in [Slots -> [1 .. JSize -> Entry]]  BY <1>7, <1>3
  <1>9. \A r \in Slots, i \in 1 .. JSize : jrn'[r][i] = IF r = s /\ i = n THEN e ELSE jrn[r][i]
    BY <1>7, <1>3
  <1>10. QED  BY <1>2, <1>5, <1>8, <1>9

LEMMA StampEffect ==
  ASSUME JournalInv, NEW t \in Threads, log_je_stamp(t)
  PROVE  /\ jrn' \in [Slots -> [1 .. JSize -> Entry]]
         /\ \A s \in Slots, i \in 1 .. JSize :
              IF s = slot[t] /\ i = jcur[t] + 1
              THEN /\ jrn'[s][i].id = id[t]
                   /\ jrn'[s][i].addr = jrn[s][i].addr
                   /\ jrn'[s][i].old = jrn[s][i].old
              ELSE jrn'[s][i] = jrn[s][i]
  <1>1. slot[t] \in Slots /\ id[t] \in Ids /\ pc[t] = "stamp" /\ range[t] # <<>>
    BY DEF JournalInv, TypeOK, LocalsOK, log_je_stamp
  <1>2. PICK s \in Slots, n \in 1 .. JSize, x \in Ids :
           s = slot[t] /\ n = jcur[t] + 1 /\ x = id[t]
    BY <1>1, NextLine
  <1>3. jrn \in [Slots -> [1 .. JSize -> Entry]]  BY DEF JournalInv, TypeOK
  <1>4. jrn[s][n] \in Entry  BY <1>3
  <1>5. PICK e \in Entry : e = [jrn[s][n] EXCEPT !.id = x]  BY <1>4, EntryStamp
  <1>6. jrn' = [jrn EXCEPT ![s][n] = e]  BY <1>2, <1>5 DEF log_je_stamp
  <1>7. jrn' \in [Slots -> [1 .. JSize -> Entry]]  BY <1>6, <1>3
  <1>8. \A r \in Slots, i \in 1 .. JSize : jrn'[r][i] = IF r = s /\ i = n THEN e ELSE jrn[r][i]
    BY <1>6, <1>3
  <1>9. e.id = x /\ e.addr = jrn[s][n].addr /\ e.old = jrn[s][n].old
    BY <1>4, <1>5, EntryStamp
  <1>10. QED  BY <1>2, <1>7, <1>8, <1>9

\* PersistHdr keeps the types, whoever's writes it publishes.
LEMMA PersistHdrType ==
  ASSUME TypeOK, NEW s \in Slots, PersistHdr(s)
  PROVE  /\ phdr' \in [Slots -> Hdr] /\ store' \in [Addr -> Val]
         /\ ws' \in [Threads -> [Addr -> Val \cup {None}]]
         /\ phdr'[s] = hdr[s] /\ \A r \in Slots : r # s => phdr'[r] = phdr[r]
  <1>1. phdr' \in [Slots -> Hdr] /\ phdr'[s] = hdr[s] /\ \A r \in Slots : r # s => phdr'[r] = phdr[r]
    BY DEF TypeOK, PersistHdr
  <1>2. NoWrites \in [Addr -> Val \cup {None}]  BY DEF NoWrites
  <1>3. ws' \in [Threads -> [Addr -> Val \cup {None}]]  BY <1>2 DEF TypeOK, PersistHdr
  <1>4. ASSUME NEW a \in Addr, \E t \in Freed(s) : ws[t][a] # None
        PROVE  ws[CHOOSE t \in Freed(s) : ws[t][a] # None][a] \in Val
    <2> DEFINE t == CHOOSE t \in Freed(s) : ws[t][a] # None
    <2>1. t \in Freed(s) /\ ws[t][a] # None  BY <1>4
    <2>2. t \in Threads  BY <2>1 DEF Freed
    <2>3. QED  BY <2>1, <2>2 DEF TypeOK
  <1>5. store' \in [Addr -> Val]  BY <1>4 DEF TypeOK, PersistHdr
  <1>6. QED  BY <1>1, <1>3, <1>5

LEMMA PersistDataType ==
  ASSUME TypeOK, NEW A, PersistData(A)
  PROVE  pm' \in [Addr -> Val]
  BY DEF TypeOK, PersistData

-----------------------------------------------------------------------------
(***************************************************************************)
(* JournalInv is inductive: one lemma per phase of a transaction, one step *)
(* per action.                                                             *)
(***************************************************************************)
LEMMA JournalBegin ==
  ASSUME JournalInv, NEW t \in Threads,
         \/ begin_id(t) \/ begin_flush(t) \/ begin_throw(t)
         \/ \E s \in Slots : begin_slot(t, s)
  PROVE  JournalInv'
  <1> USE DEF JournalInv
  <1>1. CASE begin_id(t)
    <2>1. cur_tx_id' \in Ids /\ id' \in [Threads -> Ids]
      BY <1>1, ConstAssumption DEF begin_id, TypeOK, Ids
    <2>2. TypeOK'  BY <1>1, <2>1 DEF begin_id, TypeOK
    <2>3. EntriesOK' /\ LocalsOK'  BY <1>1 DEF begin_id, TypeOK, EntriesOK, LocalsOK, Held
    <2>4. SlotsHeld' /\ Journalled' /\ JournalDurable'
      BY <1>1 DEF begin_id, TypeOK, SlotsHeld, Journalled, JournalDurable, Held, HeaderOf
    <2>5. QED  BY <2>2, <2>3, <2>4
  <1>2. ASSUME NEW s \in Slots, begin_slot(t, s) PROVE JournalInv'
    <2>1. [id |-> id[t], active |-> TRUE] \in Hdr  BY HeaderFields DEF TypeOK
    <2>2. hdr' \in [Slots -> Hdr] /\ slot' \in [Threads -> Slots]
      BY <1>2, <2>1 DEF begin_slot, TypeOK
    <2>3. TypeOK'  BY <1>2, <2>2 DEF begin_slot, TypeOK
    <2>4. EntriesOK' /\ LocalsOK'  BY <1>2 DEF begin_slot, TypeOK, EntriesOK, LocalsOK, Held
    <2>5. SlotsHeld'
      <3>1. \A u \in Threads : pc[u] \in Held => slot[u] # s
        <4>1. \A u \in Threads : pc[u] \in Held => hdr[slot[u]] = HeaderOf(u)  BY DEF SlotsHeld
        <4>2. \A u \in Threads : HeaderOf(u).active  BY DEF HeaderOf
        <4>3. ~hdr[s].active  BY <1>2 DEF begin_slot
        <4>4. QED  BY <4>1, <4>2, <4>3
      <3>2. hdr'[s] = HeaderOf(t) /\ \A r \in Slots : r # s => hdr'[r] = hdr[r]
        BY <1>2 DEF begin_slot, TypeOK, HeaderOf
      <3>3. \A u \in Threads : u # t => slot'[u] = slot[u] /\ pc'[u] = pc[u] /\ id'[u] = id[u]
        BY <1>2 DEF begin_slot, TypeOK
      <3>4. slot'[t] = s /\ id' = id  BY <1>2 DEF begin_slot, TypeOK
      <3>5. ASSUME NEW u \in Threads, u # t, pc'[u] \in Held
            PROVE  hdr'[slot'[u]] = HeaderOf(u)' /\ slot'[u] # s
        <4>1. pc[u] \in Held /\ slot[u] \in Slots /\ slot'[u] = slot[u]  BY <3>3, <3>5 DEF TypeOK
        <4>2. hdr[slot[u]] = HeaderOf(u) /\ HeaderOf(u)' = HeaderOf(u)
          BY <4>1, <3>4 DEF SlotsHeld, HeaderOf
        <4>3. QED  BY <4>1, <4>2, <3>1, <3>2
      <3>6. hdr'[slot'[t]] = HeaderOf(t)'  BY <3>2, <3>4 DEF HeaderOf
      <3>7. ASSUME NEW u \in Threads, NEW w \in Threads, u # w, u # t, w # t,
                   pc'[u] \in Held, pc'[w] \in Held
            PROVE  slot'[u] # slot'[w]
        BY <3>3, <3>7 DEF SlotsHeld
      <3>8. QED  BY <3>4, <3>5, <3>6, <3>7 DEF SlotsHeld
    <2>6. Journalled' /\ JournalDurable'
      BY <1>2 DEF begin_slot, TypeOK, LocalsOK, SlotsHeld, Journalled, JournalDurable, Held, HeaderOf
    <2>7. QED  BY <2>3, <2>4, <2>5, <2>6
  <1>3. CASE begin_flush(t)
    <2>1. /\ phdr' \in [Slots -> Hdr] /\ store' \in [Addr -> Val]
          /\ ws' \in [Threads -> [Addr -> Val \cup {None}]]
          /\ \A r \in Slots : phdr'[r] = phdr[r] \/ phdr'[r] = hdr[r]
      <3>1. slot[t] \in Slots  BY DEF TypeOK
      <3>2. CASE OrderedFlush  BY <1>3, <3>1, <3>2, PersistHdrType DEF begin_flush
      <3>3. CASE ~OrderedFlush  BY <1>3, <3>3 DEF begin_flush, TypeOK
      <3>4. QED  BY <3>2, <3>3
    <2>2. TypeOK'  BY <1>3, <2>1 DEF begin_flush, TypeOK
    <2>3. EntriesOK' /\ LocalsOK'  BY <1>3 DEF begin_flush, TypeOK, EntriesOK, LocalsOK, Held
    <2>4. SlotsHeld' /\ Journalled'
      BY <1>3 DEF begin_flush, TypeOK, SlotsHeld, Journalled, Held, HeaderOf
    <2>5. JournalDurable'
      <3>1. jcur[t] = 0  BY <1>3 DEF begin_flush, LocalsOK, Held
      <3>2. QED  BY <1>3, <2>1, <3>1 DEF begin_flush, TypeOK, SlotsHeld, JournalDurable, Held, HeaderOf
    <2>6. QED  BY <2>2, <2>3, <2>4, <2>5
  <1>4. CASE begin_throw(t)
    <2>1. TypeOK' /\ EntriesOK' /\ LocalsOK'
      BY <1>4 DEF begin_throw, TypeOK, EntriesOK, LocalsOK, Held
    <2>2. SlotsHeld' /\ JournalDurable'
      BY <1>4 DEF begin_throw, TypeOK, SlotsHeld, JournalDurable, Held, HeaderOf
    <2>3. Journalled'
      <3>1. \A u \in Threads : pc'[u] \in Held => pc'[u] = pc[u]
        BY <1>4 DEF begin_throw, TypeOK, Held
      <3>2. UNCHANGED <<jrn, id, slot, jcur, logged, range>>  BY <1>4 DEF begin_throw
      <3>3. QED  BY <3>1, <3>2 DEF Journalled
    <2>4. QED  BY <2>1, <2>2, <2>3
  <1>5. QED  BY <1>1, <1>2, <1>3, <1>4

LEMMA JournalLog ==
  ASSUME JournalInv, NEW t \in Threads,
         \/ \E r \in Ranges : log_begin(t, r)
         \/ log_je_data(t) \/ log_je_stamp(t) \/ log_commit(t)
  PROVE  JournalInv'
  <1> USE DEF JournalInv
  <1>1. ASSUME NEW r \in Ranges, log_begin(t, r) PROVE JournalInv'
    <2>1. r \in Seq(Addr)  BY ConstAssumption
    <2>2. TypeOK' /\ EntriesOK' /\ LocalsOK'
      BY <1>1, <2>1 DEF log_begin, TypeOK, EntriesOK, LocalsOK, Held
    <2>3. SlotsHeld' /\ Journalled' /\ JournalDurable'
      BY <1>1 DEF log_begin, TypeOK, SlotsHeld, Journalled, JournalDurable, Held, HeaderOf
    <2>4. QED  BY <2>2, <2>3
  <1>2. CASE log_je_data(t)
    <2>1. pc[t] = "log" /\ range[t] # <<>> /\ slot[t] \in Slots
      BY <1>2 DEF log_je_data, TypeOK
    <2>2. Head(range[t]) \in Addr /\ jcur[t] + 1 \in 1 .. JSize  BY <2>1, NextLine
    <2>3. TypeOK'
      <3>1. jrn' \in [Slots -> [1 .. JSize -> Entry]]  BY <1>2, DataEffect
      <3>2. QED  BY <1>2, <3>1 DEF log_je_data, TypeOK
    <2>4. EntriesOK'
      <3>1. mem[Head(range[t])] \in Val  BY <2>2 DEF TypeOK
      <3>2. \A s \in Slots, i \in 1 .. JSize :
               jrn'[s][i] = jrn[s][i] \/ jrn'[s][i].old = mem[Head(range[t])]
        BY <1>2, DataEffect
      <3>3. pjrn' = pjrn  BY <1>2 DEF log_je_data
      <3>4. QED  BY <3>1, <3>2, <3>3 DEF EntriesOK
    <2>5. LocalsOK' /\ SlotsHeld'
      BY <1>2 DEF log_je_data, TypeOK, LocalsOK, SlotsHeld, Held, HeaderOf
    <2>6. \A u \in Threads, i \in 1 .. JSize : pc[u] \in Held /\ i <= jcur[u] =>
             jrn'[slot[u]][i] = jrn[slot[u]][i]
      BY <1>2, <2>1, DataEffect DEF TypeOK, SlotsHeld, Held
    <2>7. /\ \A u \in Threads : pc'[u] \in Held <=> pc[u] \in Held
          /\ \A u \in Threads : u # t => pc'[u] = pc[u]
          /\ pc'[t] = "stamp" /\ UNCHANGED <<pjrn, phdr, id, slot, jcur, logged, range>>
      BY <1>2 DEF log_je_data, TypeOK, Held
    <2>8. \A u \in Threads : \A i \in 1 .. jcur[u] : i \in 1 .. JSize /\ i <= jcur[u]
      BY ConstAssumption DEF TypeOK
    <2>9. Journalled'
      <3>1. jrn'[slot[t]][jcur[t] + 1].addr = Head(range[t])
        BY <1>2, <2>1, <2>2, DataEffect
      <3>2. \A u \in Threads : u # t /\ pc[u] = "stamp" =>
               jrn'[slot[u]][jcur[u] + 1] = jrn[slot[u]][jcur[u] + 1]
        <4>1. SUFFICES ASSUME NEW u \in Threads, u # t, pc[u] = "stamp"
                       PROVE  jrn'[slot[u]][jcur[u] + 1] = jrn[slot[u]][jcur[u] + 1]
          OBVIOUS
        <4>2. slot[u] # slot[t] /\ slot[u] \in Slots  BY <4>1, <2>1 DEF SlotsHeld, Held, TypeOK
        <4>3. jcur[u] + 1 \in 1 .. JSize
          BY <4>1, NextLine DEF LocalsOK
        <4>4. QED  BY <1>2, <4>2, <4>3, DataEffect
      <3>3. QED  BY <2>6, <2>7, <2>8, <3>1, <3>2 DEF Journalled
    <2>10. JournalDurable'
      BY <2>6, <2>7, <2>8 DEF JournalDurable, Held, HeaderOf
    <2>11. QED  BY <2>3, <2>4, <2>5, <2>9, <2>10
  <1>3. CASE log_je_stamp(t)
    <2>1. pc[t] = "stamp" /\ range[t] # <<>> /\ slot[t] \in Slots
      BY <1>3 DEF log_je_stamp, TypeOK, LocalsOK
    <2>2. /\ Head(range[t]) \in Addr /\ jcur[t] + 1 \in 1 .. JSize
          /\ Tail(range[t]) \in Seq(Addr) /\ jcur[t] + 1 + Len(Tail(range[t])) < JSize
      BY <2>1, NextLine
    <2>3. /\ jcur' = [jcur EXCEPT ![t] = jcur[t] + 1]
          /\ range' = [range EXCEPT ![t] = Tail(range[t])]
          /\ logged' = [logged EXCEPT ![t] = logged[t] \cup {Head(range[t])}]
          /\ pc' = [pc EXCEPT ![t] = "log"]
          /\ UNCHANGED <<data, table, pjrn, id, slot, todo, owner, boot, history>>
      BY <1>3 DEF log_je_stamp
    <2>4. TypeOK'
      <3>1. jrn' \in [Slots -> [1 .. JSize -> Entry]]  BY <1>3, StampEffect
      <3>2. QED  BY <2>2, <2>3, <3>1 DEF TypeOK
    <2>5. EntriesOK'
      <3>1. \A s \in Slots, i \in 1 .. JSize :
               jrn'[s][i].addr = jrn[s][i].addr /\ jrn'[s][i].old = jrn[s][i].old
        BY <1>3, StampEffect
      <3>2. QED  BY <2>3, <3>1 DEF EntriesOK
    <2>6. LocalsOK'  BY <2>1, <2>2, <2>3 DEF TypeOK, LocalsOK, Held
    <2>7. SlotsHeld'  BY <2>1, <2>3 DEF TypeOK, SlotsHeld, Held, HeaderOf
    <2>8. \A u \in Threads, i \in 1 .. JSize : pc[u] \in Held /\ i <= jcur[u] =>
             jrn'[slot[u]][i] = jrn[slot[u]][i]
      BY <1>3, <2>1, StampEffect DEF TypeOK, SlotsHeld, Held
    <2>9. \A u \in Threads : \A i \in 1 .. jcur[u] : i \in 1 .. JSize /\ i <= jcur[u]
      BY ConstAssumption DEF TypeOK
    <2>10. /\ \A u \in Threads : u # t => /\ pc'[u] = pc[u] /\ jcur'[u] = jcur[u]
                                          /\ range'[u] = range[u] /\ logged'[u] = logged[u]
           /\ pc'[t] = "log" /\ jcur'[t] = jcur[t] + 1
           /\ logged'[t] = logged[t] \cup {Head(range[t])}
           /\ UNCHANGED <<pjrn, phdr, id, slot>>
      BY <2>3 DEF TypeOK
    <2>11. Journalled'
      <3>1. /\ jrn'[slot[t]][jcur[t] + 1].addr = Head(range[t])
            /\ jrn'[slot[t]][jcur[t] + 1].id = id[t]
        BY <1>3, <2>1, <2>2, StampEffect DEF Journalled, Held
      <3>2. \A u \in Threads : u # t /\ pc[u] = "stamp" =>
               jrn'[slot[u]][jcur[u] + 1] = jrn[slot[u]][jcur[u] + 1]
        <4>1. SUFFICES ASSUME NEW u \in Threads, u # t, pc[u] = "stamp"
                       PROVE  jrn'[slot[u]][jcur[u] + 1] = jrn[slot[u]][jcur[u] + 1]
          OBVIOUS
        <4>2. slot[u] # slot[t] /\ slot[u] \in Slots  BY <4>1, <2>1 DEF SlotsHeld, Held, TypeOK
        <4>3. jcur[u] + 1 \in 1 .. JSize  BY <4>1, NextLine DEF LocalsOK
        <4>4. QED  BY <1>3, <4>2, <4>3, StampEffect
      <3>3. \A i \in 1 .. (jcur[t] + 1) : i \in 1 .. jcur[t] \/ i = jcur[t] + 1
        BY DEF TypeOK
      <3>4. jcur[t] + 1 \in 1 .. (jcur[t] + 1) /\ \A i \in 1 .. jcur[t] : i \in 1 .. (jcur[t] + 1)
        BY DEF TypeOK
      <3>5. ASSUME NEW u \in Threads, pc'[u] \in Held, u # t
            PROVE  /\ \A i \in 1 .. jcur'[u] : jrn'[slot[u]][i].id = id[u] /\ jrn'[slot[u]][i].addr \in Addr
                   /\ \A a \in logged'[u] : \E i \in 1 .. jcur'[u] : jrn'[slot[u]][i].addr = a
                   /\ pc'[u] = "stamp" => jrn'[slot[u]][jcur'[u] + 1].addr = Head(range'[u])
        BY <3>5, <2>8, <2>9, <2>10, <3>2 DEF Journalled
      <3>6. \A i \in 1 .. jcur'[t] : jrn'[slot[t]][i].id = id[t] /\ jrn'[slot[t]][i].addr \in Addr
        BY <2>1, <2>2, <2>8, <2>9, <2>10, <3>1, <3>3 DEF Journalled, Held
      <3>7. \A a \in logged'[t] : \E i \in 1 .. jcur'[t] : jrn'[slot[t]][i].addr = a
        BY <2>1, <2>8, <2>9, <2>10, <3>1, <3>4 DEF Journalled, Held
      <3>8. QED  BY <2>10, <3>5, <3>6, <3>7 DEF Journalled
    <2>12. JournalDurable'
      BY <2>8, <2>9, <2>10 DEF JournalDurable, Held, HeaderOf
    <2>13. QED  BY <2>4, <2>5, <2>6, <2>7, <2>11, <2>12
  <1>4. CASE log_commit(t)
    <2>1. slot[t] \in Slots /\ pc[t] = "log" /\ hdr[slot[t]] = HeaderOf(t)
      BY <1>4 DEF log_commit, TypeOK, SlotsHeld, Held
    <2>2. /\ phdr' \in [Slots -> Hdr] /\ store' \in [Addr -> Val]
          /\ ws' \in [Threads -> [Addr -> Val \cup {None}]]
          /\ phdr'[slot[t]] = hdr[slot[t]] /\ \A r \in Slots : r # slot[t] => phdr'[r] = phdr[r]
      BY <1>4, <2>1, PersistHdrType DEF log_commit
    <2>3. /\ pc' = [pc EXCEPT ![t] = "run"]
          /\ UNCHANGED <<data, hdr, cur_tx_id, jrn, txLocals, owner, boot, vstore>>
      BY <1>4 DEF log_commit
    <2>4. /\ pjrn' \in [Slots -> [1 .. JSize -> Entry]]
          /\ \A r \in Slots, i \in 1 .. JSize :
               pjrn'[r][i] = IF r = slot[t] /\ i <= jcur[t] THEN jrn[r][i] ELSE pjrn[r][i]
      BY <1>4, <2>1 DEF log_commit, TypeOK
    <2>5. TypeOK'  BY <2>2, <2>3, <2>4 DEF TypeOK
    <2>6. EntriesOK'  BY <2>3, <2>4 DEF EntriesOK
    <2>7. LocalsOK' /\ SlotsHeld'
      BY <2>1, <2>3 DEF TypeOK, LocalsOK, SlotsHeld, Held, HeaderOf
    <2>8. Journalled'
      <3>1. \A u \in Threads : pc'[u] \in Held => pc[u] \in Held
        BY <2>1, <2>3 DEF TypeOK, Held
      <3>2. \A u \in Threads : pc'[u] = "stamp" => pc[u] = "stamp"
        BY <2>1, <2>3 DEF TypeOK
      <3>3. UNCHANGED <<jrn, slot, id, jcur, logged, range>>  BY <2>3
      <3>4. QED  BY <3>1, <3>2, <3>3 DEF Journalled
    <2>9. JournalDurable'
      <3>1. ASSUME NEW u \in Threads, pc'[u] \in {"run", "undo", "unlock"}, jcur[u] > 0, u # t
            PROVE  /\ phdr'[slot[u]] = HeaderOf(u)
                   /\ \A i \in 1 .. jcur[u] : pjrn'[slot[u]][i] = jrn[slot[u]][i]
        <4>1. pc[u] \in {"run", "undo", "unlock"} /\ slot[u] # slot[t] /\ slot[u] \in Slots
          BY <2>1, <2>3, <3>1 DEF TypeOK, SlotsHeld, Held
        <4>2. \A i \in 1 .. jcur[u] : i \in 1 .. JSize  BY ConstAssumption DEF TypeOK
        <4>3. QED  BY <2>2, <2>4, <3>1, <4>1, <4>2 DEF JournalDurable
      <3>2. \A i \in 1 .. jcur[t] : pjrn'[slot[t]][i] = jrn[slot[t]][i]
        <4>1. \A i \in 1 .. jcur[t] : i \in 1 .. JSize /\ i <= jcur[t]
          BY ConstAssumption DEF TypeOK
        <4>2. QED  BY <4>1, <2>1, <2>4
      <3>3. QED  BY <2>1, <2>2, <2>3, <3>1, <3>2 DEF JournalDurable, HeaderOf
    <2>10. QED  BY <2>5, <2>6, <2>7, <2>8, <2>9
  <1>5. QED  BY <1>1, <1>2, <1>3, <1>4

LEMMA JournalRun ==
  ASSUME JournalInv, NEW t \in Threads, NEW a \in Addr, NEW v \in Val,
         lock(t, a) \/ unlock(t, a) \/ write(t, a, v)
  PROVE  JournalInv'
  <1> USE DEF JournalInv
  <1>1. CASE lock(t, a)
    <2>1. TypeOK' /\ EntriesOK' /\ LocalsOK'
      BY <1>1 DEF lock, TypeOK, EntriesOK, LocalsOK, Held
    <2>2. SlotsHeld' /\ Journalled' /\ JournalDurable'
      BY <1>1 DEF lock, TypeOK, SlotsHeld, Journalled, JournalDurable, Held, HeaderOf
    <2>3. QED  BY <2>1, <2>2
  <1>2. CASE unlock(t, a)
    <2>1. TypeOK' /\ EntriesOK' /\ LocalsOK'
      BY <1>2 DEF unlock, TypeOK, EntriesOK, LocalsOK, Held
    <2>2. SlotsHeld' /\ Journalled' /\ JournalDurable'
      BY <1>2 DEF unlock, TypeOK, SlotsHeld, Journalled, JournalDurable, Held, HeaderOf
    <2>3. QED  BY <2>1, <2>2
  <1>3. CASE write(t, a, v)
    <2>1. TypeOK' /\ EntriesOK' /\ LocalsOK'
      BY <1>3 DEF write, TypeOK, EntriesOK, LocalsOK, Held
    <2>2. SlotsHeld' /\ Journalled' /\ JournalDurable'
      BY <1>3 DEF write, TypeOK, SlotsHeld, Journalled, JournalDurable, Held, HeaderOf
    <2>3. QED  BY <2>1, <2>2
  <1>4. QED  BY <1>1, <1>2, <1>3

\* The header that commit, rollback and free_transaction make durable.
LEMMA JournalEnd ==
  ASSUME JournalInv, NEW t \in Threads,
         \/ commit(t) \/ abort(t) \/ undo(t) \/ undo_commit(t)
         \/ free_clear(t) \/ free_commit(t)
  PROVE  JournalInv'
  <1> USE DEF JournalInv
  <1>0. slot[t] \in Slots  BY DEF TypeOK
  <1>1. CASE commit(t) \/ undo_commit(t)
    <2>1. /\ pc[t] \in {"run", "undo"} /\ pc' = [pc EXCEPT ![t] = "unlock"]
          /\ PersistData(EntryAddrs(slot[t], jcur[t])) /\ PersistHdr(slot[t])
          /\ UNCHANGED <<mem, hdr, cur_tx_id, journal, txLocals, owner, boot>>
      BY <1>1 DEF commit, undo_commit
    <2>2. /\ phdr' \in [Slots -> Hdr] /\ store' \in [Addr -> Val]
          /\ ws' \in [Threads -> [Addr -> Val \cup {None}]] /\ pm' \in [Addr -> Val]
          /\ phdr'[slot[t]] = hdr[slot[t]] /\ \A r \in Slots : r # slot[t] => phdr'[r] = phdr[r]
      BY <2>1, <1>0, PersistHdrType, PersistDataType
    <2>3. vstore' \in [Addr -> Val]
      <3>1. Overlay(vstore, ws[t]) \in [Addr -> Val]  BY DEF TypeOK, Overlay
      <3>2. vstore' = vstore \/ vstore' = Overlay(vstore, ws[t])  BY <1>1 DEF commit, undo_commit
      <3>3. vstore \in [Addr -> Val]  BY DEF TypeOK
      <3>4. QED  BY <3>1, <3>2, <3>3
    <2>4. TypeOK'  BY <2>1, <2>2, <2>3 DEF TypeOK
    <2>5. EntriesOK' /\ LocalsOK' /\ SlotsHeld' /\ Journalled'
      BY <2>1 DEF TypeOK, EntriesOK, LocalsOK, SlotsHeld, Journalled, Held, HeaderOf
    <2>6. JournalDurable'
      BY <2>1, <2>2 DEF TypeOK, SlotsHeld, JournalDurable, Held, HeaderOf
    <2>7. QED  BY <2>4, <2>5, <2>6
  <1>2. CASE abort(t)
    <2>1. ws' \in [Threads -> [Addr -> Val \cup {None}]] /\ todo' \in [Threads -> 0 .. JSize]
      BY <1>2 DEF abort, TypeOK, NoWrites
    <2>2. TypeOK'  BY <1>2, <2>1 DEF abort, TypeOK
    <2>3. EntriesOK' /\ LocalsOK'  BY <1>2 DEF abort, TypeOK, EntriesOK, LocalsOK, Held
    <2>4. SlotsHeld' /\ Journalled' /\ JournalDurable'
      BY <1>2 DEF abort, TypeOK, SlotsHeld, Journalled, JournalDurable, Held, HeaderOf
    <2>5. QED  BY <2>2, <2>3, <2>4
  <1>3. CASE undo(t)
    <2>1. todo[t] \in 1 .. JSize  BY <1>3, ConstAssumption DEF undo, TypeOK
    <2>2. todo' \in [Threads -> 0 .. JSize]  BY <1>3, <2>1, ConstAssumption DEF undo, TypeOK
    <2>3. mem' \in [Addr -> Val]
      <3> DEFINE e == jrn[slot[t]][todo[t]]
      <3>1. mem' = [mem EXCEPT ![e.addr] = e.old]  BY <1>3 DEF undo
      <3>2. e.addr \in Addr => e.old \in Val  BY <1>0, <2>1 DEF EntriesOK
      <3> HIDE DEF e
      <3>3. mem \in [Addr -> Val]  BY DEF TypeOK
      <3>4. QED  BY <3>1, <3>2, <3>3
    <2>4. TypeOK'  BY <1>3, <2>2, <2>3 DEF undo, TypeOK
    <2>5. EntriesOK' /\ LocalsOK'  BY <1>3 DEF undo, TypeOK, EntriesOK, LocalsOK, Held
    <2>6. SlotsHeld' /\ Journalled' /\ JournalDurable'
      BY <1>3 DEF undo, TypeOK, SlotsHeld, Journalled, JournalDurable, Held, HeaderOf
    <2>7. QED  BY <2>4, <2>5, <2>6
  <1>4. CASE free_clear(t)
    <2>1. [hdr[slot[t]] EXCEPT !.active = FALSE] \in Hdr
      BY <1>0, HeaderFields DEF TypeOK
    <2>2. hdr' \in [Slots -> Hdr]  BY <1>0, <1>4, <2>1 DEF free_clear, TypeOK
    <2>3. jcur' \in [Threads -> 0 .. JSize] /\ logged' \in [Threads -> SUBSET Addr]
      BY <1>4, ConstAssumption DEF free_clear, TypeOK
    <2>4. TypeOK'  BY <1>4, <2>2, <2>3 DEF free_clear, TypeOK
    <2>5. EntriesOK' /\ LocalsOK'
      BY <1>4 DEF free_clear, TypeOK, EntriesOK, LocalsOK, Held
    <2>6. SlotsHeld' /\ Journalled' /\ JournalDurable'
      BY <1>4 DEF free_clear, TypeOK, SlotsHeld, Journalled, JournalDurable, Held, HeaderOf
    <2>7. QED  BY <2>4, <2>5, <2>6
  <1>5. CASE free_commit(t)
    <2>1. /\ phdr' \in [Slots -> Hdr] /\ store' \in [Addr -> Val]
          /\ ws' \in [Threads -> [Addr -> Val \cup {None}]]
          /\ \A r \in Slots : phdr'[r] = phdr[r] \/ phdr'[r] = hdr[r]
      BY <1>0, <1>5, PersistHdrType DEF free_commit
    <2>2. TypeOK'  BY <1>5, <2>1 DEF free_commit, TypeOK
    <2>3. EntriesOK' /\ LocalsOK' /\ SlotsHeld' /\ Journalled'
      BY <1>5 DEF free_commit, TypeOK, EntriesOK, LocalsOK, SlotsHeld, Journalled, Held, HeaderOf
    <2>4. JournalDurable'
      BY <1>5, <2>1 DEF free_commit, TypeOK, SlotsHeld, JournalDurable, Held, HeaderOf
    <2>5. QED  BY <2>2, <2>3, <2>4
  <1>6. QED  BY <1>1, <1>2, <1>3, <1>4, <1>5

\* A cache line written back takes the persistent copy closer to the cached one.
LEMMA JournalWriteBack ==
  ASSUME JournalInv, WriteBack
  PROVE  JournalInv'
  <1> USE DEF JournalInv
  <1>1. ASSUME NEW a \in Addr, PersistData({a}),
               UNCHANGED <<mem, table, journal, pc, txLocals, owner, boot, history>>
        PROVE  JournalInv'
    <2>1. pm' \in [Addr -> Val]  BY <1>1, PersistDataType
    <2>2. TypeOK'  BY <1>1, <2>1 DEF TypeOK
    <2>3. QED
      BY <1>1, <2>2 DEF EntriesOK, LocalsOK, SlotsHeld, Journalled, JournalDurable, HeaderOf
  <1>2. ASSUME NEW s \in Slots, PersistHdr(s),
               UNCHANGED <<data, hdr, cur_tx_id, journal, pc, txLocals, owner, boot, vstore>>
        PROVE  JournalInv'
    <2>1. /\ phdr' \in [Slots -> Hdr] /\ store' \in [Addr -> Val]
          /\ ws' \in [Threads -> [Addr -> Val \cup {None}]]
          /\ \A r \in Slots : phdr'[r] = phdr[r] \/ phdr'[r] = hdr[r]
      BY <1>2, PersistHdrType
    <2>2. TypeOK'  BY <1>2, <2>1 DEF TypeOK
    <2>3. EntriesOK' /\ LocalsOK' /\ SlotsHeld' /\ Journalled'
      BY <1>2 DEF EntriesOK, LocalsOK, SlotsHeld, Journalled, HeaderOf
    <2>4. JournalDurable'
      BY <1>2, <2>1 DEF TypeOK, SlotsHeld, JournalDurable, Held, HeaderOf
    <2>5. QED  BY <2>2, <2>3, <2>4
  <1>3. ASSUME NEW s \in Slots, NEW i \in 1 .. JSize,
               pjrn' = [pjrn EXCEPT ![s][i] = jrn[s][i]],
               UNCHANGED <<data, table, jrn, pc, txLocals, owner, boot, history>>
        PROVE  JournalInv'
    <2>1. /\ pjrn' \in [Slots -> [1 .. JSize -> Entry]]
          /\ \A r \in Slots, k \in 1 .. JSize :
               pjrn'[r][k] = IF r = s /\ k = i THEN jrn[r][k] ELSE pjrn[r][k]
      BY <1>3 DEF TypeOK
    <2>2. TypeOK'  BY <1>3, <2>1 DEF TypeOK
    <2>3. EntriesOK'  BY <1>3, <2>1 DEF EntriesOK
    <2>4. LocalsOK' /\ SlotsHeld' /\ Journalled'
      BY <1>3 DEF LocalsOK, SlotsHeld, Journalled, HeaderOf
    <2>5. JournalDurable'
      <3>1. \A u \in Threads : slot[u] \in Slots /\ \A k \in 1 .. jcur[u] : k \in 1 .. JSize
        BY ConstAssumption DEF TypeOK
      <3>2. ASSUME NEW u \in Threads, NEW k \in 1 .. jcur[u], pjrn[slot[u]][k] = jrn[slot[u]][k]
            PROVE  pjrn'[slot[u]][k] = jrn[slot[u]][k]
        BY <2>1, <3>1, <3>2
      <3>3. ASSUME NEW u \in Threads, pc[u] \in {"run", "undo", "unlock"}, jcur[u] > 0
            PROVE  /\ phdr[slot[u]] = HeaderOf(u)
                   /\ \A k \in 1 .. jcur[u] : pjrn'[slot[u]][k] = jrn[slot[u]][k]
        BY <3>2, <3>3 DEF JournalDurable
      <3>4. QED  BY <1>3, <3>3 DEF JournalDurable, HeaderOf
    <2>6. QED  BY <2>2, <2>3, <2>4, <2>5
  <1>4. QED  BY <1>1, <1>2, <1>3, Zenon DEF WriteBack

\* Recovery works on headers and data only.
LEMMA JournalRecover ==
  ASSUME JournalInv, Crash \/ Recover
  PROVE  JournalInv'
  <1> USE DEF JournalInv
  <1>1. CASE Crash
    <2>1. Recovered \in [Addr -> Val]  BY RecoveredType
    <2>2. ws' \in [Threads -> [Addr -> Val \cup {None}]]  BY <1>1 DEF Crash, NoWrites
    <2>3. /\ range' \in [Threads -> Seq(Addr)] /\ crashes' \in 0 .. MaxCrashes
          /\ jcur' \in [Threads -> 0 .. JSize]
      BY <1>1, ConstAssumption DEF Crash, TypeOK
    <2>4. store' \in [Addr -> Val] /\ max_tx_id' \in Ids
      BY <1>1, <2>1, ConstAssumption DEF Crash, Ids
    <2>5. TypeOK'  BY <1>1, <2>2, <2>3, <2>4 DEF Crash, TypeOK
    <2>6. EntriesOK' /\ LocalsOK'  BY <1>1 DEF Crash, EntriesOK, LocalsOK, Held
    <2>7. SlotsHeld' /\ Journalled' /\ JournalDurable'
      BY <1>1 DEF Crash, SlotsHeld, Journalled, JournalDurable, Held
    <2>8. QED  BY <2>5, <2>6, <2>7
  <1>2. ASSUME mode = "recover", TypeOK', EntriesOK', UNCHANGED <<pc, txLocals>>,
               left' # None => mode' = "recover" /\ at' \in Slots
        PROVE  JournalInv'
    <2>1. \A t \in Threads : pc[t] = "out"  BY <1>2 DEF LocalsOK
    <2>2. LocalsOK'  BY <1>2, <2>1 DEF LocalsOK
    <2>3. SlotsHeld' /\ Journalled' /\ JournalDurable'
      BY <1>2, <2>1 DEF SlotsHeld, Journalled, JournalDurable, Held
    <2>4. QED  BY <1>2, <2>2, <2>3
  <1>3. CASE recover_scan
    <2>1. PICK n \in 0 .. JSize : Cardinality(ValidEntries(hdr[at], jrn[at])) = n
      BY ValidSegment
    <2>2. TypeOK'  BY <1>3, <2>1 DEF recover_scan, TypeOK
    <2>3. QED  BY <1>2, <1>3, <2>2 DEF recover_scan, EntriesOK
  <1>4. CASE recover_undo
    <2>1. left \in 1 .. JSize /\ at \in Slots
      BY <1>4, ConstAssumption DEF recover_undo, TypeOK, LocalsOK
    <2>2. mem' \in [Addr -> Val]
      <3> DEFINE e == jrn[at][left]
      <3>1. mem' = [mem EXCEPT ![e.addr] = e.old]  BY <1>4 DEF recover_undo
      <3>2. e.addr \in Addr => e.old \in Val  BY <2>1 DEF EntriesOK
      <3> HIDE DEF e
      <3>3. mem \in [Addr -> Val]  BY DEF TypeOK
      <3>4. QED  BY <3>1, <3>2, <3>3
    <2>3. left' \in 0 .. JSize  BY <1>4, <2>1, ConstAssumption DEF recover_undo
    <2>4. TypeOK'  BY <1>4, <2>2, <2>3 DEF recover_undo, TypeOK
    <2>5. QED  BY <1>2, <1>4, <2>1, <2>4 DEF recover_undo, EntriesOK
  <1>5. CASE recover_clear
    <2>1. at \in Slots  BY <1>5, ConstAssumption DEF recover_clear, LocalsOK, TypeOK
    <2>2. [hdr[at] EXCEPT !.active = FALSE] \in Hdr /\ hdr[at].id \in Ids
      BY <2>1, HeaderFields DEF TypeOK
    <2>3. hdr' \in [Slots -> Hdr]  BY <1>5, <2>1, <2>2 DEF recover_clear, TypeOK
    <2>4. pm' \in [Addr -> Val]  BY <1>5, PersistDataType DEF recover_clear
    <2>5. max_tx_id' \in Ids /\ at' \in Nat
      BY <1>5, <2>2 DEF recover_clear, MaxOf, TypeOK
    <2>6. TypeOK'  BY <1>5, <2>3, <2>4, <2>5 DEF recover_clear, TypeOK
    <2>7. QED  BY <1>2, <1>5, <2>6 DEF recover_clear, EntriesOK
  <1>6. CASE recover_skip
    <2>1. hdr[at].id \in Ids  BY <1>6, HeaderFields DEF recover_skip, TypeOK
    <2>2. max_tx_id' \in Ids /\ at' \in Nat
      BY <1>6, <2>1 DEF recover_skip, MaxOf, TypeOK
    <2>3. TypeOK'  BY <1>6, <2>2 DEF recover_skip, TypeOK
    <2>4. QED  BY <1>2, <1>6, <2>3 DEF recover_skip, EntriesOK
  <1>7. CASE recover_done
    <2>1. TypeOK'  BY <1>7, ConstAssumption DEF recover_done, TypeOK, Ids
    <2>2. left = None  BY <1>7 DEF recover_done, LocalsOK
    <2>3. QED  BY <1>2, <1>7, <2>1, <2>2 DEF recover_done, EntriesOK
  <1>8. QED  BY <1>1, <1>3, <1>4, <1>5, <1>6, <1>7 DEF Recover

\* The invariant holds of a new graph.
LEMMA JournalInit == Init => JournalInv
  <1> SUFFICES ASSUME Init PROVE JournalInv  OBVIOUS
  <1>1. TypeOK
    <2>1. 0 \in Ids /\ 0 \in 0 .. JSize /\ 0 \in 0 .. MaxCrashes /\ 0 \in Slots
      <3>1. PICK s \in Slots : s \in Nat /\ 0 .. s \subseteq Slots  BY SlotsAssumption
      <3>2. QED  BY <3>1, ConstAssumption DEF Ids
    <2>2. [id |-> 0, active |-> FALSE] \in Hdr /\ [id |-> 0, addr |-> None, old |-> None] \in Entry
      BY <2>1 DEF Hdr, Entry
    <2>3. hdr \in [Slots -> Hdr] /\ jrn \in [Slots -> [1 .. JSize -> Entry]]
      BY <2>2 DEF Init
    <2>4. ws \in [Threads -> [Addr -> Val \cup {None}]]  BY DEF Init, NoWrites
    <2>5. range \in [Threads -> Seq(Addr)]  BY DEF Init
    <2>6. QED  BY <2>1, <2>3, <2>4, <2>5 DEF Init, TypeOK
  <1>2. EntriesOK
    <2>1. \A s \in Slots, i \in 1 .. JSize : jrn[s][i].addr = None /\ pjrn[s][i].addr = None
      BY DEF Init
    <2>2. QED  BY <2>1, ConstAssumption DEF EntriesOK
  <1>3. LocalsOK /\ SlotsHeld /\ Journalled /\ JournalDurable
    BY DEF Init, LocalsOK, SlotsHeld, Journalled, JournalDurable, Held
  <1>4. QED  BY <1>1, <1>2, <1>3 DEF JournalInv

LEMMA JournalNext == JournalInv /\ [Next]_vars => JournalInv'
  <1> SUFFICES ASSUME JournalInv, [Next]_vars PROVE JournalInv'  OBVIOUS
  <1>1. ASSUME NEW t \in Threads, TxStep(t) PROVE JournalInv'
    BY <1>1, JournalBegin, JournalLog, JournalRun, JournalEnd, ConstAssumption DEF TxStep
  <1>2. CASE UNCHANGED vars
    <2>1. TypeOK' /\ EntriesOK' /\ LocalsOK'
      BY <1>2 DEF vars, JournalInv, TypeOK, EntriesOK, LocalsOK
    <2>2. SlotsHeld' /\ Journalled' /\ JournalDurable'
      BY <1>2 DEF vars, JournalInv, SlotsHeld, Journalled, JournalDurable, HeaderOf
    <2>3. QED  BY <2>1, <2>2 DEF JournalInv
  <1>3. QED  BY <1>1, <1>2, JournalWriteBack, JournalRecover DEF Next

\* Every variable keeps its type: no journal index leaves its extent, no undo
\* puts an unwritten entry into memory, and what recovery makes of any
\* persistent state is contents of lines.
THEOREM TransactionTyped == Spec => []TypeOK
  <1>1. JournalInv => TypeOK  BY DEF JournalInv
  <1>2. QED  BY JournalInit, JournalNext, <1>1, PTL DEF Spec

-----------------------------------------------------------------------------
(***************************************************************************)
(* Isolation.  What a transaction knows of the lines it has locked; the    *)
(* clauses are per thread, so that a step of one thread needs only be      *)
(* shown to leave the others' lines alone (lemma Others).                  *)
(***************************************************************************)
Running == {"run", "log", "stamp"}

\* Journal and range point to locked lines.
OwnsLines(t) ==
  /\ \A a \in Addr : owner[a] = t => pc[t] \in Held \ {"claimed"}
  /\ pc[t] \in Running \cup {"undo"} => \A i \in 1 .. jcur[t] : owner[jrn[slot[t]][i].addr] = t
  /\ pc[t] \in {"log", "stamp"} => \A i \in 1 .. Len(range[t]) : owner[range[t][i]] = t
  /\ pc[t] = "undo" => todo[t] <= jcur[t]

\* A written line is in the journal.
WritesJournalled(t) ==
  \A a \in Addr : ws[t][a] # None =>
    \/ pc[t] \in {"unlock", "free"}
    \/ pc[t] \in Running /\ \E i \in 1 .. jcur[t] : jrn[slot[t]][i].addr = a

\* Entry i is the first of its line.
FirstAt(s, i) == \A k \in 1 .. (i - 1) : jrn[s][k].addr # jrn[s][i].addr

\* The first entry of a line holds what was visible before.
OldsVisible(t) ==
  /\ pc[t] \in Running \cup {"undo"} => \A i \in 1 .. jcur[t] :
       FirstAt(slot[t], i) => jrn[slot[t]][i].old = vstore[jrn[slot[t]][i].addr]
  /\ pc[t] = "stamp" => jrn[slot[t]][jcur[t] + 1].old = mem[Head(range[t])]

\* A locked line holds what was visible before, or the transaction's own write;
\* during rollback this is settled for the lines without an entry left to undo.
LinesVisible(t) ==
  \A a \in Addr : owner[a] = t =>
    /\ pc[t] \in Running => mem[a] = IF ws[t][a] = None THEN vstore[a] ELSE ws[t][a]
    /\ pc[t] = "undo" /\ (\A i \in 1 .. todo[t] : jrn[slot[t]][i].addr # a) => mem[a] = vstore[a]
    /\ pc[t] = "unlock" => mem[a] = vstore[a]

View(t) == OwnsLines(t) /\ WritesJournalled(t) /\ OldsVisible(t) /\ LinesVisible(t)

\* What recover() has left to undo, and what becomes of a line because of it:
\* without an entry left it is in its final state, else the first entry of the
\* last slot that has one decides.
Pending(s, i) ==
  /\ s >= at /\ hdr[s].active /\ i \in ValidEntries(hdr[s], jrn[s])
  /\ s = at /\ left # None => i <= left
LastPending(s, i) ==
  /\ Pending(s, i) /\ FirstAt(s, i)
  /\ \A r \in Slots, k \in 1 .. JSize : r > s /\ Pending(r, k) => jrn[r][k].addr # jrn[s][i].addr
Recovering ==
  mode = "recover" =>
    /\ \A a \in Addr :
         (\A s \in Slots, i \in 1 .. JSize : Pending(s, i) => jrn[s][i].addr # a)
         => mem[a] = store[a]
    /\ \A s \in Slots, i \in 1 .. JSize : LastPending(s, i) /\ jrn[s][i].addr \in Addr =>
         jrn[s][i].old = store[jrn[s][i].addr]
    /\ left # None => hdr[at].active /\ 1 .. left \subseteq ValidEntries(hdr[at], jrn[at])

\* The inductive invariant behind Isolation, on top of JournalInv.
VisibleInv == (\A t \in Threads : View(t)) /\ Isolation /\ Recovering

\* A thread's view survives a step that leaves its lines alone.
LEMMA Others ==
  ASSUME JournalInv, NEW u \in Threads, View(u),
         pc'[u] = pc[u] /\ slot'[u] = slot[u] /\ jcur'[u] = jcur[u],
         range'[u] = range[u] /\ todo'[u] = todo[u],
         pc[u] \in Held => \A i \in 1 .. JSize : jrn'[slot[u]][i] = jrn[slot[u]][i],
         \A a \in Addr : owner'[a] = u <=> owner[a] = u,
         \A a \in Addr : owner[a] = u => mem'[a] = mem[a] /\ vstore'[a] = vstore[a],
         ws'[u] = ws[u] \/ (pc[u] = "free" /\ ws'[u] = NoWrites)
  PROVE  View(u)'
  <1>1. /\ \A i \in 1 .. jcur[u] : i \in 1 .. JSize
        /\ todo[u] \in 0 .. JSize /\ jcur[u] \in 0 .. JSize /\ JSize \in Nat
    BY ConstAssumption DEF JournalInv, TypeOK
  <1>2. pc[u] \in Held =>
          /\ \A i \in 1 .. JSize : jrn[slot[u]][i].addr = jrn'[slot[u]][i].addr
          /\ \A i \in 1 .. jcur[u] : jrn[slot[u]][i].addr \in Addr
    BY DEF JournalInv, Journalled
  <1>3. Running \cup {"undo"} \subseteq Held /\ "stamp" \in Held /\ {"log", "stamp"} \subseteq Held
    BY DEF Running, Held
  <1>4. OwnsLines(u)'
    <2>1. pc[u] \in {"log", "stamp"} => \A i \in 1 .. Len(range[u]) : range[u][i] \in Addr
      BY DEF JournalInv, TypeOK
    <2>2. QED  BY <1>1, <1>2, <1>3, <2>1 DEF View, OwnsLines
  <1>5. WritesJournalled(u)'
    <2>1. CASE ws'[u] = ws[u]  BY <2>1, <1>1, <1>2, <1>3 DEF View, WritesJournalled
    <2>2. CASE ws'[u] = NoWrites  BY <2>2 DEF NoWrites, WritesJournalled
    <2>3. QED  BY <2>1, <2>2
  <1>6. OldsVisible(u)'
    <2>1. ASSUME pc[u] \in Running \cup {"undo"}, NEW i \in 1 .. jcur[u], FirstAt(slot[u], i)'
          PROVE  jrn'[slot'[u]][i].old = vstore'[jrn'[slot'[u]][i].addr]
      <3>1. \A k \in 1 .. (i - 1) : k \in 1 .. JSize  BY <1>1
      <3>2. FirstAt(slot[u], i)  BY <2>1, <1>1, <1>2, <1>3, <3>1 DEF FirstAt
      <3>3. jrn[slot[u]][i].old = vstore[jrn[slot[u]][i].addr] /\ owner[jrn[slot[u]][i].addr] = u
        BY <2>1, <3>2 DEF View, OldsVisible, OwnsLines
      <3>4. QED  BY <2>1, <3>3, <1>1, <1>2, <1>3
    <2>2. ASSUME pc[u] = "stamp"
          PROVE  jrn'[slot'[u]][jcur'[u] + 1].old = mem'[Head(range'[u])]
      <3>1. /\ Head(range[u]) \in Addr /\ jcur[u] + 1 \in 1 .. JSize
            /\ Len(range[u]) > 0 /\ range[u] \in Seq(Addr)
        BY <2>2, NextLine DEF JournalInv, LocalsOK, TypeOK
      <3>2. Head(range[u]) = range[u][1] /\ 1 \in 1 .. Len(range[u])  BY <3>1
      <3>3. owner[Head(range[u])] = u  BY <2>2, <3>2 DEF View, OwnsLines
      <3>4. QED  BY <2>2, <3>1, <3>3, <1>3 DEF View, OldsVisible
    <2>3. QED  BY <2>1, <2>2 DEF OldsVisible
  <1>7. LinesVisible(u)'
    <2>1. SUFFICES ASSUME NEW a \in Addr, owner[a] = u
                   PROVE  /\ pc[u] \in Running =>
                               mem[a] = IF ws'[u][a] = None THEN vstore[a] ELSE ws'[u][a]
                          /\ pc[u] = "undo" /\ (\A i \in 1 .. todo[u] : jrn'[slot[u]][i].addr # a)
                             => mem[a] = vstore[a]
                          /\ pc[u] = "unlock" => mem[a] = vstore[a]
      BY DEF LinesVisible
    <2>2. pc[u] \in Running => ws'[u] = ws[u]  BY DEF Running
    <2>3. \A i \in 1 .. todo[u] : i \in 1 .. JSize  BY <1>1
    <2>4. pc[u] = "undo" /\ (\A i \in 1 .. todo[u] : jrn'[slot[u]][i].addr # a)
          => \A i \in 1 .. todo[u] : jrn[slot[u]][i].addr # a
      BY <1>2, <1>3, <2>3
    <2>5. QED  BY <2>1, <2>2, <2>4 DEF View, LinesVisible
  <1>8. QED  BY <1>4, <1>5, <1>6, <1>7 DEF View

\* PersistHdr takes away the writes of freed transactions only.
LEMMA PersistHdrWrites ==
  ASSUME TypeOK, NEW s, PersistHdr(s), NEW u \in Threads
  PROVE  ws'[u] = ws[u] \/ (pc[u] = "free" /\ ws'[u] = NoWrites)
  BY DEF TypeOK, PersistHdr, Freed

\* A transaction without lines and writes has nothing to look after.
LEMMA EmptyView ==
  ASSUME NEW t \in Threads, \A a \in Addr : owner'[a] # t /\ ws'[t][a] = None,
         jcur'[t] = 0, pc'[t] \in {"out", "begin", "claimed", "run"}
  PROVE  View(t)'
  BY DEF View, OwnsLines, WritesJournalled, OldsVisible, LinesVisible

LEMMA VisibleBegin ==
  ASSUME JournalInv, VisibleInv, NEW t \in Threads,
         \/ begin_id(t) \/ begin_flush(t) \/ begin_throw(t)
         \/ \E s \in Slots : begin_slot(t, s)
  PROVE  VisibleInv'
  <1>1. /\ mode = "up" /\ mode' = mode /\ UNCHANGED <<mem, vstore, owner, jcur, range, todo, jrn>>
        /\ pc[t] \in {"out", "begin", "claimed"} /\ pc'[t] \in {"out", "begin", "claimed", "run"}
        /\ \A u \in Threads : u # t => pc'[u] = pc[u]
    BY DEF begin_id, begin_slot, begin_flush, begin_throw, JournalInv, TypeOK
  <1>2. slot \in [Threads -> Slots]  BY DEF JournalInv, TypeOK
  <1>3. \A u \in Threads : u # t => slot'[u] = slot[u]
    BY <1>2 DEF begin_id, begin_slot, begin_flush, begin_throw
  <1>4. \A u \in Threads : ws'[u] = ws[u] \/ (pc[u] = "free" /\ ws'[u] = NoWrites)
    <2>1. CASE begin_flush(t)
      BY <2>1, PersistHdrWrites DEF begin_flush, JournalInv
    <2>2. CASE ~begin_flush(t)
      BY <2>2 DEF begin_id, begin_slot, begin_throw
    <2>3. QED  BY <2>1, <2>2
  <1>5. ASSUME NEW u \in Threads, u # t PROVE View(u)'
    BY <1>1, <1>3, <1>4, <1>5, Others DEF VisibleInv
  <1>6. View(t)'
    <2>1. \A a \in Addr : owner[a] # t /\ ws[t][a] = None
      BY <1>1 DEF VisibleInv, View, OwnsLines, WritesJournalled, Held, Running
    <2>2. jcur[t] = 0  BY <1>1 DEF JournalInv, LocalsOK, Held
    <2>3. ws'[t] = ws[t]  BY <1>1, <1>4
    <2>4. QED  BY <1>1, <2>1, <2>2, <2>3, EmptyView
  <1>7. Isolation' /\ Recovering'  BY <1>1 DEF VisibleInv, Isolation, Recovering
  <1>8. QED  BY <1>5, <1>6, <1>7 DEF VisibleInv

LEMMA VisibleLog ==
  ASSUME JournalInv, VisibleInv, NEW t \in Threads,
         \/ \E r \in Ranges : log_begin(t, r)
         \/ log_je_data(t) \/ log_je_stamp(t) \/ log_commit(t)
  PROVE  VisibleInv'
  <1>1. /\ mode = "up" /\ mode' = mode /\ UNCHANGED <<mem, vstore, owner, todo, id, slot>>
        /\ pc[t] \in Running /\ pc'[t] \in Running
        /\ \A u \in Threads : u # t => /\ pc'[u] = pc[u] /\ jcur'[u] = jcur[u]
                                       /\ range'[u] = range[u]
    BY DEF log_begin, log_je_data, log_je_stamp, log_commit, JournalInv, TypeOK, Running
  <1>2. \A u \in Threads : ws'[u] = ws[u] \/ (pc[u] = "free" /\ ws'[u] = NoWrites)
    <2>1. CASE log_commit(t)
      BY <2>1, PersistHdrWrites DEF log_commit, JournalInv
    <2>2. CASE ~log_commit(t)
      BY <2>2 DEF log_begin, log_je_data, log_je_stamp
    <2>3. QED  BY <2>1, <2>2
  <1>3. ASSUME NEW u \in Threads, u # t, pc[u] \in Held, NEW i \in 1 .. JSize
        PROVE  jrn'[slot[u]][i] = jrn[slot[u]][i]
    <2>1. slot[u] # slot[t] /\ slot[u] \in Slots
      BY <1>1, <1>3 DEF JournalInv, SlotsHeld, TypeOK, Held, Running
    <2>2. CASE log_je_data(t)  BY <2>1, <2>2, DataEffect
    <2>3. CASE log_je_stamp(t)  BY <2>1, <2>3, StampEffect
    <2>4. CASE ~log_je_data(t) /\ ~log_je_stamp(t)  BY <2>4 DEF log_begin, log_commit
    <2>5. QED  BY <2>2, <2>3, <2>4
  <1>4. ASSUME NEW u \in Threads, u # t PROVE View(u)'
    BY <1>1, <1>2, <1>3, <1>4, Others DEF VisibleInv
  <1>5. ws'[t] = ws[t]  BY <1>1, <1>2 DEF Running
  <1>6. View(t) /\ t \in Threads /\ slot[t] \in Slots /\ jcur[t] \in 0 .. JSize /\ JSize \in Nat
    BY ConstAssumption DEF VisibleInv, JournalInv, TypeOK
  <1>7. View(t)'
    <2>1. LinesVisible(t)'
      BY <1>1, <1>5, <1>6 DEF View, LinesVisible, Running
    <2>2. ASSUME UNCHANGED <<jrn, jcur>>, pc'[t] \in {"run", "log"},
                 pc'[t] = "log" => \A i \in 1 .. Len(range'[t]) : owner[range'[t][i]] = t
          PROVE  View(t)'
      <3>1. OwnsLines(t)' /\ WritesJournalled(t)'
        BY <1>1, <1>5, <1>6, <2>2 DEF View, OwnsLines, WritesJournalled, Running, Held
      <3>2. OldsVisible(t)'
        BY <1>1, <1>6, <2>2 DEF View, OldsVisible, FirstAt, Running
      <3>3. QED  BY <2>1, <3>1, <3>2 DEF View
    <2>3. CASE \E r \in Ranges : log_begin(t, r)
      BY <2>2, <2>3 DEF log_begin, JournalInv, TypeOK
    <2>4. CASE log_commit(t)
      BY <2>2, <2>4 DEF log_commit, JournalInv, TypeOK
    <2>5. CASE log_je_data(t)
      <3>1. /\ pc[t] = "log" /\ pc'[t] = "stamp" /\ UNCHANGED <<jcur, range>> /\ range[t] # <<>>
        BY <2>5 DEF log_je_data, JournalInv, TypeOK
      <3>2. jcur[t] + 1 \in 1 .. JSize /\ Head(range[t]) \in Addr  BY <3>1, NextLine
      <3>3. \A i \in 1 .. jcur[t] : i \in 1 .. JSize /\ jrn'[slot[t]][i] = jrn[slot[t]][i]
        BY <1>6, <2>5, DataEffect
      <3>4. OwnsLines(t)' /\ WritesJournalled(t)'
        BY <1>1, <1>5, <1>6, <3>1, <3>3 DEF View, OwnsLines, WritesJournalled, Running, Held
      <3>5. \A i \in 1 .. jcur[t] : FirstAt(slot[t], i)' => FirstAt(slot[t], i)
        <4>1. \A i \in 1 .. jcur[t] : \A k \in 1 .. (i - 1) : k \in 1 .. jcur[t]  BY <1>6
        <4>2. QED  BY <1>1, <3>3, <4>1 DEF FirstAt
      <3>6. jrn'[slot[t]][jcur[t] + 1].old = mem[Head(range[t])]
        BY <1>6, <2>5, <3>2, DataEffect
      <3>7. OldsVisible(t)'
        BY <1>1, <3>1, <3>3, <3>5, <3>6 DEF VisibleInv, View, OldsVisible, Running
      <3>8. QED  BY <2>1, <3>4, <3>7 DEF View
    <2>6. CASE log_je_stamp(t)
      <3> DEFINE n == jcur[t] + 1
                 a == Head(range[t])
      <3>1. /\ pc[t] = "stamp" /\ pc'[t] = "log" /\ jcur'[t] = n
            /\ range'[t] = Tail(range[t]) /\ range[t] # <<>>
        BY <2>6 DEF log_je_stamp, JournalInv, TypeOK, LocalsOK
      <3>2. n \in 1 .. JSize /\ a \in Addr /\ range[t] \in Seq(Addr) /\ Len(range[t]) > 0
        BY <3>1, NextLine DEF JournalInv, TypeOK
      <3>3. \A i \in 1 .. n : /\ i \in 1 .. JSize /\ jrn'[slot[t]][i].addr = jrn[slot[t]][i].addr
                              /\ jrn'[slot[t]][i].old = jrn[slot[t]][i].old
        BY <1>6, <2>6, <3>2, StampEffect
      <3>4. jrn[slot[t]][n].addr = a /\ jrn[slot[t]][n].old = mem[a]
        BY <3>1, <1>6 DEF JournalInv, Journalled, Held, View, OldsVisible
      <3>5. owner[a] = t /\ \A i \in 1 .. Len(Tail(range[t])) : owner[Tail(range[t])[i]] = t
        <4>1. \A i \in 1 .. Len(range[t]) : owner[range[t][i]] = t
          BY <1>6, <3>1 DEF View, OwnsLines
        <4>2. /\ a = range[t][1] /\ 1 \in 1 .. Len(range[t])
              /\ \A i \in 1 .. Len(Tail(range[t])) : /\ Tail(range[t])[i] = range[t][i + 1]
                                                     /\ i + 1 \in 1 .. Len(range[t])
          BY <3>2
        <4>3. QED  BY <4>1, <4>2
      <3>6. \A i \in 1 .. n : i = n \/ i \in 1 .. jcur[t]  BY <1>6
      <3>7. n \in 1 .. n /\ \A i \in 1 .. jcur[t] : i \in 1 .. n  BY <1>6
      <3> HIDE DEF n, a
      <3>8. OwnsLines(t)'
        BY <1>1, <1>6, <3>1, <3>3, <3>4, <3>5, <3>6 DEF View, OwnsLines, Running, Held
      <3>9. WritesJournalled(t)'
        BY <1>1, <1>5, <1>6, <3>1, <3>3, <3>7 DEF View, WritesJournalled, Running
      <3>10. OldsVisible(t)'
        <4>1. SUFFICES ASSUME NEW i \in 1 .. n, FirstAt(slot[t], i)'
                       PROVE  jrn'[slot[t]][i].old = vstore[jrn'[slot[t]][i].addr]
          BY <1>1, <3>1 DEF OldsVisible
        <4>2. FirstAt(slot[t], i)
          <5>1. \A k \in 1 .. (i - 1) : k \in 1 .. n  BY <1>6, <3>2
          <5>2. QED  BY <4>1, <5>1, <1>1, <3>3 DEF FirstAt
        <4>3. CASE i \in 1 .. jcur[t]
          BY <1>6, <3>1, <3>3, <4>2, <4>3 DEF View, OldsVisible, Running
        <4>4. CASE i = n
          <5>1. \A k \in 1 .. jcur[t] : jrn[slot[t]][k].addr # a
            <6>1. \A k \in 1 .. jcur[t] : k \in 1 .. (n - 1)  BY <1>6 DEF n
            <6>2. QED  BY <4>2, <4>4, <3>4, <6>1 DEF FirstAt
          <5>2. ws[t][a] = None
            BY <1>6, <3>1, <3>2, <5>1 DEF View, WritesJournalled, Running
          <5>3. mem[a] = vstore[a]
            BY <1>6, <3>1, <3>2, <3>5, <5>2 DEF View, LinesVisible, Running
          <5>4. QED  BY <3>3, <3>4, <4>4, <5>3
        <4>5. QED  BY <4>3, <4>4, <3>6
      <3>11. QED  BY <2>1, <3>8, <3>9, <3>10 DEF View
    <2>7. QED  BY <2>3, <2>4, <2>5, <2>6
  <1>8. Isolation' /\ Recovering'  BY <1>1 DEF VisibleInv, Isolation, Recovering
  <1>9. QED  BY <1>4, <1>7, <1>8 DEF VisibleInv

LEMMA VisibleRun ==
  ASSUME JournalInv, VisibleInv, NEW t \in Threads, NEW a \in Addr, NEW v \in Val,
         lock(t, a) \/ unlock(t, a) \/ write(t, a, v)
  PROVE  VisibleInv'
  <1>1. /\ mode = "up" /\ mode' = mode /\ pc[t] \in {"run", "unlock"}
        /\ UNCHANGED <<vstore, pc, slot, jcur, range, todo, jrn>>
    BY DEF lock, unlock, write, JournalInv, TypeOK
  <1>2. /\ View(t) /\ owner \in [Addr -> Threads \cup {None}] /\ mem \in [Addr -> Val]
        /\ ws \in [Threads -> [Addr -> Val \cup {None}]]
        /\ None \notin Threads \cup Val
    BY ConstAssumption DEF VisibleInv, JournalInv, TypeOK
  <1>3. CASE lock(t, a)
    <2>1. /\ owner[a] = None /\ owner' = [owner EXCEPT ![a] = t] /\ UNCHANGED <<mem, ws>>
          /\ pc[t] = "run"
      BY <1>3 DEF lock
    <2>2. ASSUME NEW u \in Threads, u # t PROVE View(u)'
      <3>1. \A b \in Addr : owner'[b] = u <=> owner[b] = u  BY <1>2, <2>1, <2>2
      <3>2. QED  BY <1>1, <2>1, <2>2, <3>1, Others DEF VisibleInv
    <2>3. View(t)'
      <3>1. \A b \in Addr : owner'[b] = t <=> (owner[b] = t \/ b = a)  BY <1>2, <2>1
      <3>2. \A i \in 1 .. jcur[t] : jrn[slot[t]][i].addr \in Addr
        BY <2>1 DEF JournalInv, Journalled, Held
      <3>3. OwnsLines(t)' /\ WritesJournalled(t)'
        BY <1>1, <1>2, <2>1, <3>1, <3>2 DEF View, OwnsLines, WritesJournalled, Running, Held
      <3>4. OldsVisible(t)'
        BY <1>1, <1>2, <2>1 DEF View, OldsVisible, FirstAt, Running
      <3>5. ws[t][a] = None
        <4>1. \A i \in 1 .. jcur[t] : jrn[slot[t]][i].addr # a
          BY <1>2, <2>1 DEF View, OwnsLines, Running
        <4>2. QED  BY <1>2, <2>1, <4>1 DEF View, WritesJournalled
      <3>6. mem[a] = vstore[a]  BY <1>1, <2>1 DEF VisibleInv, Isolation
      <3>7. LinesVisible(t)'
        BY <1>1, <1>2, <2>1, <3>1, <3>5, <3>6 DEF View, LinesVisible
      <3>8. QED  BY <3>3, <3>4, <3>7 DEF View
    <2>4. Isolation' /\ Recovering'
      BY <1>1, <1>2, <2>1 DEF VisibleInv, Isolation, Recovering
    <2>5. QED  BY <2>2, <2>3, <2>4 DEF VisibleInv
  <1>4. CASE unlock(t, a)
    <2>1. /\ owner[a] = t /\ owner' = [owner EXCEPT ![a] = None] /\ UNCHANGED <<mem, ws>>
          /\ pc[t] = "unlock"
      BY <1>4 DEF unlock
    <2>2. ASSUME NEW u \in Threads, u # t PROVE View(u)'
      <3>1. \A b \in Addr : owner'[b] = u <=> owner[b] = u  BY <1>2, <2>1, <2>2
      <3>2. QED  BY <1>1, <2>1, <2>2, <3>1, Others DEF VisibleInv
    <2>3. View(t)'
      <3>1. \A b \in Addr : owner'[b] = t => owner[b] = t  BY <1>2, <2>1
      <3>2. OwnsLines(t)' /\ WritesJournalled(t)' /\ OldsVisible(t)'
        BY <1>1, <1>2, <2>1, <3>1
        DEF View, OwnsLines, WritesJournalled, OldsVisible, Running
      <3>3. LinesVisible(t)'
        BY <1>1, <1>2, <2>1, <3>1 DEF View, LinesVisible, Running
      <3>4. QED  BY <3>2, <3>3 DEF View
    <2>4. mem[a] = vstore[a]  BY <1>2, <2>1 DEF View, LinesVisible
    <2>5. Isolation' /\ Recovering'
      BY <1>1, <1>2, <2>1, <2>4 DEF VisibleInv, Isolation, Recovering
    <2>6. QED  BY <2>2, <2>3, <2>5 DEF VisibleInv
  <1>5. CASE write(t, a, v)
    <2>1. /\ a \in logged[t] /\ mem' = [mem EXCEPT ![a] = v] /\ ws' = [ws EXCEPT ![t][a] = v]
          /\ pc[t] = "run" /\ owner' = owner
      BY <1>5 DEF write
    <2>2. PICK n \in 1 .. jcur[t] : jrn[slot[t]][n].addr = a
      BY <2>1 DEF JournalInv, Journalled, Held
    <2>3. owner[a] = t  BY <1>2, <2>1, <2>2 DEF View, OwnsLines, Running
    <2>4. ASSUME NEW u \in Threads, u # t PROVE View(u)'
      <3>1. ws'[u] = ws[u]  BY <1>2, <2>1, <2>4
      <3>2. \A b \in Addr : owner[b] = u => mem'[b] = mem[b]  BY <1>2, <2>1, <2>3, <2>4
      <3>3. QED  BY <1>1, <2>1, <2>4, <3>1, <3>2, Others DEF VisibleInv
    <2>5. View(t)'
      <3>1. /\ mem'[a] = v /\ ws'[t][a] = v /\ v # None
            /\ \A b \in Addr : b # a => mem'[b] = mem[b] /\ ws'[t][b] = ws[t][b]
        BY <1>2, <2>1
      <3>2. OwnsLines(t)' /\ OldsVisible(t)'
        BY <1>1, <1>2, <2>1 DEF View, OwnsLines, OldsVisible, FirstAt, Running
      <3>3. WritesJournalled(t)'
        BY <1>1, <1>2, <2>1, <2>2, <3>1 DEF View, WritesJournalled, Running
      <3>4. LinesVisible(t)'
        BY <1>1, <1>2, <2>1, <3>1 DEF View, LinesVisible, Running
      <3>5. QED  BY <3>2, <3>3, <3>4 DEF View
    <2>6. Isolation' /\ Recovering'
      BY <1>1, <1>2, <2>1, <2>3 DEF VisibleInv, Isolation, Recovering
    <2>7. QED  BY <2>4, <2>5, <2>6 DEF VisibleInv
  <1>6. QED  BY <1>3, <1>4, <1>5

LEMMA VisibleEnd ==
  ASSUME JournalInv, VisibleInv, NEW t \in Threads,
         \/ commit(t) \/ abort(t) \/ undo(t) \/ undo_commit(t)
         \/ free_clear(t) \/ free_commit(t)
  PROVE  VisibleInv'
  <1>1. /\ mode = "up" /\ mode' = mode /\ UNCHANGED <<owner, slot, range, jrn>>
        /\ \A u \in Threads : u # t => pc'[u] = pc[u] /\ jcur'[u] = jcur[u] /\ todo'[u] = todo[u]
    BY DEF commit, abort, undo, undo_commit, free_clear, free_commit, JournalInv, TypeOK
  <1>2. /\ View(t) /\ owner \in [Addr -> Threads \cup {None}] /\ mem \in [Addr -> Val]
        /\ ws \in [Threads -> [Addr -> Val \cup {None}]] /\ vstore \in [Addr -> Val]
        /\ jcur[t] \in 0 .. JSize /\ todo[t] \in 0 .. JSize /\ JSize \in Nat
        /\ None \notin Threads \cup Val /\ slot[t] \in Slots
    BY ConstAssumption DEF VisibleInv, JournalInv, TypeOK
  <1>3. CASE commit(t)
    <2>1. /\ pc[t] = "run" /\ pc'[t] = "unlock" /\ UNCHANGED <<mem, jcur, todo>>
          /\ vstore' = Overlay(vstore, ws[t]) /\ PersistHdr(slot[t])
      BY <1>3 DEF commit, JournalInv, TypeOK
    <2>2. \A u \in Threads : ws'[u] = ws[u] \/ (pc[u] = "free" /\ ws'[u] = NoWrites)
      BY <2>1, PersistHdrWrites DEF JournalInv
    <2>3. \A b \in Addr : owner[b] # t => vstore'[b] = vstore[b]
      <3>1. \A b \in Addr : owner[b] # t => ws[t][b] = None
        BY <1>2, <2>1 DEF View, WritesJournalled, OwnsLines, Running
      <3>2. QED  BY <2>1, <3>1 DEF Overlay
    <2>4. \A b \in Addr : owner[b] = t => mem[b] = vstore'[b]
      BY <1>2, <2>1 DEF View, LinesVisible, Overlay, Running
    <2>5. ASSUME NEW u \in Threads, u # t PROVE View(u)'
      BY <1>1, <2>1, <2>2, <2>3, <2>5, Others DEF VisibleInv
    <2>6. View(t)'
      <3>1. OwnsLines(t)' /\ WritesJournalled(t)' /\ OldsVisible(t)'
        BY <1>1, <1>2, <2>1 DEF View, OwnsLines, WritesJournalled, OldsVisible, Running, Held
      <3>2. LinesVisible(t)'  BY <1>1, <2>1, <2>4 DEF LinesVisible, Running
      <3>3. QED  BY <3>1, <3>2 DEF View
    <2>7. Isolation' /\ Recovering'
      BY <1>1, <1>2, <2>1, <2>3 DEF VisibleInv, Isolation, Recovering
    <2>8. QED  BY <2>5, <2>6, <2>7 DEF VisibleInv
  <1>4. CASE abort(t)
    <2>1. /\ pc[t] = "run" /\ pc'[t] = "undo" /\ UNCHANGED <<mem, vstore, jcur>>
          /\ todo'[t] = jcur[t] /\ ws'[t] = NoWrites
          /\ \A u \in Threads : u # t => ws'[u] = ws[u]
      BY <1>4 DEF abort, JournalInv, TypeOK
    <2>2. ASSUME NEW u \in Threads, u # t PROVE View(u)'
      BY <1>1, <2>1, <2>2, Others DEF VisibleInv
    <2>3. View(t)'
      <3>1. OwnsLines(t)'
        BY <1>1, <1>2, <2>1 DEF View, OwnsLines, Running, Held
      <3>2. WritesJournalled(t)'  BY <2>1 DEF WritesJournalled, NoWrites
      <3>3. OldsVisible(t)'
        BY <1>1, <1>2, <2>1 DEF View, OldsVisible, FirstAt, Running
      <3>4. LinesVisible(t)'
        BY <1>1, <1>2, <2>1 DEF View, LinesVisible, WritesJournalled, Running
      <3>5. QED  BY <3>1, <3>2, <3>3, <3>4 DEF View
    <2>4. Isolation' /\ Recovering'
      BY <1>1, <2>1 DEF VisibleInv, Isolation, Recovering
    <2>5. QED  BY <2>2, <2>3, <2>4 DEF VisibleInv
  <1>5. CASE undo(t)
    <2> DEFINE n == todo[t]
               b == jrn[slot[t]][n].addr
    <2>1. /\ pc[t] = "undo" /\ pc' = pc /\ UNCHANGED <<vstore, jcur, ws>>
          /\ n > 0 /\ mem' = [mem EXCEPT ![b] = jrn[slot[t]][n].old] /\ todo'[t] = n - 1
      BY <1>5 DEF undo, JournalInv, TypeOK
    <2>2. n \in 1 .. jcur[t]  BY <1>2, <2>1 DEF View, OwnsLines
    <2>3. b \in Addr /\ owner[b] = t
      BY <1>2, <2>1, <2>2 DEF View, OwnsLines, JournalInv, Journalled, Held, Running
    <2>4. mem'[b] = jrn[slot[t]][n].old /\ \A c \in Addr : c # b => mem'[c] = mem[c]
      BY <1>2, <2>1, <2>3
    <2>5. FirstAt(slot[t], n) => jrn[slot[t]][n].old = vstore[b]
      BY <1>2, <2>1, <2>2 DEF View, OldsVisible
    <2>6. \A i \in 1 .. n : i = n \/ i \in 1 .. (n - 1)
      <3>1. n \in Nat  BY <1>2
      <3> HIDE DEF n
      <3>2. QED  BY <3>1
    <2> HIDE DEF n, b
    <2>7. ASSUME NEW u \in Threads, u # t PROVE View(u)'
      <3>1. \A c \in Addr : owner[c] = u => mem'[c] = mem[c]  BY <2>3, <2>4, <2>7
      <3>2. QED  BY <1>1, <2>1, <2>7, <3>1, Others DEF VisibleInv
    <2>8. View(t)'
      <3>1. OwnsLines(t)'
        <4>1. n - 1 <= jcur[t]  BY <1>2, <2>2
        <4>2. QED  BY <1>1, <1>2, <2>1, <4>1 DEF View, OwnsLines
      <3>2. WritesJournalled(t)'
        BY <1>1, <1>2, <2>1 DEF View, WritesJournalled, Running
      <3>3. OldsVisible(t)'
        BY <1>1, <1>2, <2>1 DEF View, OldsVisible, FirstAt
      <3>4. ASSUME NEW c \in Addr, owner[c] = t, \A i \in 1 .. (n - 1) : jrn[slot[t]][i].addr # c
            PROVE  mem'[c] = vstore[c]
        <4>1. CASE c = b
          <5>1. FirstAt(slot[t], n)  BY <3>4, <4>1 DEF FirstAt, b
          <5>2. QED  BY <2>4, <2>5, <4>1, <5>1
        <4>2. CASE c # b
          <5>1. \A i \in 1 .. n : jrn[slot[t]][i].addr # c  BY <2>6, <3>4, <4>2 DEF b
          <5>2. QED  BY <1>2, <2>1, <2>4, <3>4, <4>2, <5>1 DEF View, LinesVisible, n
        <4>3. QED  BY <4>1, <4>2
      <3>5. LinesVisible(t)'  BY <1>1, <2>1, <3>4 DEF LinesVisible, Running
      <3>6. QED  BY <3>1, <3>2, <3>3, <3>5 DEF View
    <2>9. Isolation' /\ Recovering'
      BY <1>1, <1>2, <2>1, <2>3, <2>4 DEF VisibleInv, Isolation, Recovering
    <2>10. QED  BY <2>7, <2>8, <2>9 DEF VisibleInv
  <1>6. CASE undo_commit(t)
    <2>1. /\ pc[t] = "undo" /\ pc'[t] = "unlock" /\ UNCHANGED <<mem, vstore, jcur, todo>>
          /\ todo[t] = 0 /\ PersistHdr(slot[t])
      BY <1>6 DEF undo_commit, JournalInv, TypeOK
    <2>2. \A u \in Threads : ws'[u] = ws[u] \/ (pc[u] = "free" /\ ws'[u] = NoWrites)
      BY <2>1, PersistHdrWrites DEF JournalInv
    <2>3. ASSUME NEW u \in Threads, u # t PROVE View(u)'
      BY <1>1, <2>1, <2>2, <2>3, Others DEF VisibleInv
    <2>4. View(t)'
      BY <1>1, <1>2, <2>1
      DEF View, OwnsLines, WritesJournalled, OldsVisible, LinesVisible, Running, Held
    <2>5. Isolation' /\ Recovering'
      BY <1>1, <2>1 DEF VisibleInv, Isolation, Recovering
    <2>6. QED  BY <2>3, <2>4, <2>5 DEF VisibleInv
  <1>7. CASE free_clear(t)
    <2>1. /\ pc[t] = "unlock" /\ pc'[t] = "free" /\ UNCHANGED <<mem, vstore, todo, ws>>
          /\ \A b \in Addr : owner[b] # t
      BY <1>7 DEF free_clear, JournalInv, TypeOK
    <2>2. ASSUME NEW u \in Threads, u # t PROVE View(u)'
      BY <1>1, <2>1, <2>2, Others DEF VisibleInv
    <2>3. View(t)'
      BY <1>1, <2>1 DEF View, OwnsLines, WritesJournalled, OldsVisible, LinesVisible, Running
    <2>4. Isolation' /\ Recovering'
      BY <1>1, <2>1 DEF VisibleInv, Isolation, Recovering
    <2>5. QED  BY <2>2, <2>3, <2>4 DEF VisibleInv
  <1>8. CASE free_commit(t)
    <2>1. /\ pc[t] = "free" /\ pc'[t] = "out" /\ UNCHANGED <<mem, vstore, jcur, todo>>
          /\ PersistHdr(slot[t])
      BY <1>8 DEF free_commit, JournalInv, TypeOK
    <2>2. \A u \in Threads : ws'[u] = ws[u] \/ (pc[u] = "free" /\ ws'[u] = NoWrites)
      BY <2>1, PersistHdrWrites DEF JournalInv
    <2>3. ASSUME NEW u \in Threads, u # t PROVE View(u)'
      BY <1>1, <2>1, <2>2, <2>3, Others DEF VisibleInv
    <2>4. View(t)'
      <3>1. \A b \in Addr : owner[b] # t
        BY <1>2, <2>1 DEF View, OwnsLines, Held
      <3>2. jcur[t] = 0  BY <2>1 DEF JournalInv, LocalsOK, Held
      <3>3. \A b \in Addr : ws'[t][b] = None
        <4>1. ws'[t] = IF t \in Freed(slot[t]) THEN NoWrites ELSE ws[t]
          BY <2>1 DEF PersistHdr
        <4>2. ws[t] # NoWrites => t \in Freed(slot[t])  BY <2>1 DEF Freed
        <4>3. QED  BY <4>1, <4>2 DEF NoWrites
      <3>4. QED  BY <1>1, <2>1, <3>1, <3>2, <3>3, EmptyView
    <2>5. Isolation' /\ Recovering'
      BY <1>1, <2>1 DEF VisibleInv, Isolation, Recovering
    <2>6. QED  BY <2>3, <2>4, <2>5 DEF VisibleInv
  <1>9. QED  BY <1>3, <1>4, <1>5, <1>6, <1>7, <1>8

LEMMA VisibleWriteBack ==
  ASSUME JournalInv, VisibleInv, WriteBack
  PROVE  VisibleInv'
  <1>1. UNCHANGED <<mem, hdr, jrn, pc, txLocals, owner, boot, vstore>>  BY DEF WriteBack
  <1>2. \A u \in Threads : ws'[u] = ws[u] \/ (pc[u] = "free" /\ ws'[u] = NoWrites)
    <2>1. ASSUME NEW s \in Slots, PersistHdr(s)
          PROVE  \A u \in Threads : ws'[u] = ws[u] \/ (pc[u] = "free" /\ ws'[u] = NoWrites)
      BY <2>1, PersistHdrWrites DEF JournalInv
    <2>2. QED  BY <2>1 DEF WriteBack
  <1>3. \A u \in Threads : View(u)'
    BY <1>1, <1>2, Others DEF VisibleInv
  <1>4. Isolation'  BY <1>1 DEF VisibleInv, Isolation
  <1>5. mode = "recover" => store' = store
    <2>1. SUFFICES ASSUME mode = "recover", NEW s \in Slots, PersistHdr(s) PROVE store' = store
      BY DEF WriteBack
    <2>2. Freed(s) = {}  BY <2>1 DEF Freed, JournalInv, LocalsOK
    <2>3. store \in [Addr -> Val]  BY DEF JournalInv, TypeOK
    <2>4. QED  BY <2>1, <2>2, <2>3 DEF PersistHdr
  <1>6. Recovering'
    <2>1. SUFFICES ASSUME mode = "recover" PROVE Recovering'  BY <1>1 DEF Recovering
    <2>2. store' = store  BY <1>5, <2>1
    <2>3. QED
      BY <1>1, <2>2 DEF VisibleInv, Recovering, LastPending, Pending, FirstAt
  <1>7. QED  BY <1>3, <1>4, <1>6 DEF VisibleInv

\* The loop of recover() starts from what it is going to leave.
LEMMA RecoveringStarts ==
  ASSUME JournalInv, Crash
  PROVE  Recovering'
  <1>1. /\ mem' = pm /\ hdr' = phdr /\ jrn' = pjrn /\ store' = Recovered
        /\ at' = 0 /\ left' = None /\ mode' = "recover"
    BY DEF Crash
  <1>2. Slots \subseteq Nat /\ JSize \in Nat  BY SlotsAssumption, ConstAssumption
  <1>3. \A s \in Slots, i \in 1 .. JSize : Pending(s, i)' <=>
          phdr[s].active /\ i \in ValidEntries(phdr[s], pjrn[s])
    BY <1>1, <1>2 DEF Pending, ValidEntries
  <1>4. \A s \in Slots : ValidEntries(phdr[s], pjrn[s]) \subseteq 1 .. JSize
    BY DEF ValidEntries
  <1>5. ASSUME NEW a \in Addr,
               \A s \in Slots, i \in 1 .. JSize : Pending(s, i)' => pjrn[s][i].addr # a
        PROVE  Recovered[a] = pm[a]
    <2>1. UndoSlots(a) = {}  BY <1>3, <1>4, <1>5 DEF UndoSlots
    <2>2. QED  BY <2>1 DEF Recovered
  <1>6. ASSUME NEW s \in Slots, NEW i \in 1 .. JSize, LastPending(s, i)', pjrn[s][i].addr \in Addr
        PROVE  pjrn[s][i].old = Recovered[pjrn[s][i].addr]
    <2> DEFINE a == pjrn[s][i].addr
    <2>1. /\ phdr[s].active /\ i \in ValidEntries(phdr[s], pjrn[s])
          /\ \A k \in 1 .. (i - 1) : pjrn[s][k].addr # a
          /\ \A r \in Slots, k \in 1 .. JSize : r > s /\ Pending(r, k)' => pjrn[r][k].addr # a
      BY <1>1, <1>3, <1>6 DEF LastPending, FirstAt
    <2>2. s \in UndoSlots(a) /\ UndoSlots(a) \subseteq Slots  BY <2>1 DEF UndoSlots
    <2>3. PICK l \in UndoSlots(a) : s <= l /\ l = LastSlot(UndoSlots(a))  BY <2>2, LastSlotIs
    <2>4. l \in Slots /\ phdr[l].active
          /\ \E k \in ValidEntries(phdr[l], pjrn[l]) : pjrn[l][k].addr = a
      BY <2>3 DEF UndoSlots
    <2>5. l = s
      <3>1. PICK k \in 1 .. JSize : Pending(l, k)' /\ pjrn[l][k].addr = a
        BY <1>3, <1>4, <2>4
      <3>2. ~(l > s)  BY <2>1, <2>4, <3>1
      <3>3. QED  BY <1>2, <2>3, <2>4, <3>2
    <2>6. FirstEntry(s, a) = i
      <3> DEFINE f == FirstEntry(s, a)
      <3>1. /\ f \in 1 .. JSize /\ pjrn[s][f].addr = a
            /\ \A k \in 1 .. (f - 1) : pjrn[s][k].addr # a
        <4>1. \E k \in ValidEntries(phdr[s], pjrn[s]) : pjrn[s][k].addr = a  BY <2>4, <2>5
        <4>2. QED  BY <1>2, <1>4, <4>1, FirstEntryIs
      <3> HIDE DEF f
      <3>2. ~(f < i) /\ ~(i < f)  BY <1>2, <2>1, <3>1
      <3>3. QED  BY <1>2, <3>1, <3>2 DEF f
    <2>7. Recovered[a] = pjrn[s][FirstEntry(s, a)].old
      BY <1>6, <2>2, <2>3, <2>5 DEF Recovered
    <2>8. QED  BY <2>6, <2>7
  <1>7. QED  BY <1>1, <1>5, <1>6 DEF Recovering

\* Each step of the loop undoes one entry, or passes over what is not active.
LEMMA RecoveringStep ==
  ASSUME JournalInv, Recovering,
         recover_scan \/ recover_undo \/ recover_clear \/ recover_skip
  PROVE  Recovering'
  <1>1. /\ mode = "recover" /\ mode' = "recover" /\ UNCHANGED <<jrn, store>>
    BY DEF recover_scan, recover_undo, recover_clear, recover_skip
  <1>2. /\ Slots \subseteq Nat /\ JSize \in Nat /\ None \notin Nat /\ at \in Nat
        /\ hdr \in [Slots -> Hdr] /\ mem \in [Addr -> Val]
    BY SlotsAssumption, ConstAssumption DEF JournalInv, TypeOK
  <1>3. ASSUME mem' = mem,
               \A s \in Slots, i \in 1 .. JSize : Pending(s, i)' <=> Pending(s, i),
               left' # None => hdr'[at'].active /\ 1 .. left' \subseteq ValidEntries(hdr'[at'], jrn[at'])
        PROVE  Recovering'
    BY <1>1, <1>3 DEF Recovering, LastPending, FirstAt
  <1>4. CASE recover_scan
    <2>1. PICK n \in 0 .. JSize : /\ ValidEntries(hdr[at], jrn[at]) = 1 .. n
                                  /\ Cardinality(ValidEntries(hdr[at], jrn[at])) = n
      BY ValidSegment
    <2>2. /\ left = None /\ left' = n /\ UNCHANGED <<mem, hdr, at>> /\ hdr[at].active
      BY <1>4, <2>1 DEF recover_scan
    <2>3. \A s \in Slots, i \in 1 .. JSize : Pending(s, i)' <=> Pending(s, i)
      BY <1>1, <1>2, <2>1, <2>2 DEF Pending, ValidEntries
    <2>4. QED  BY <1>3, <2>1, <2>2, <2>3
  <1>5. CASE recover_undo
    <2>1. /\ left \in 1 .. JSize /\ at \in Slots /\ left' = left - 1 /\ UNCHANGED <<hdr, at>>
          /\ mem' = [mem EXCEPT ![jrn[at][left].addr] = jrn[at][left].old]
      BY <1>5, ConstAssumption DEF recover_undo, JournalInv, TypeOK, LocalsOK
    <2>2. PICK q \in Slots, n \in 1 .. JSize : q = at /\ n = left  BY <2>1
    <2>3. \A s \in Slots, i \in 1 .. JSize :
             /\ Pending(s, i)' => Pending(s, i)
             /\ Pending(s, i) => Pending(s, i)' \/ (s = q /\ i = n)
      BY <1>1, <1>2, <2>1, <2>2 DEF Pending, ValidEntries
    <2>4. ASSUME NEW s \in Slots, NEW i \in 1 .. JSize, LastPending(s, i)'
          PROVE  LastPending(s, i)
      <3>1. Pending(s, i) /\ FirstAt(s, i)
        BY <1>1, <2>3, <2>4 DEF LastPending, FirstAt
      <3>2. s >= q  BY <2>2, <3>1 DEF Pending
      <3>3. \A r \in Slots, k \in 1 .. JSize : r > s /\ Pending(r, k) => Pending(r, k)'
        BY <1>2, <2>3, <3>2
      <3>4. QED  BY <1>1, <2>4, <3>1, <3>3 DEF LastPending
    <2>5. ASSUME NEW a \in Addr,
                 \A s \in Slots, i \in 1 .. JSize : Pending(s, i)' => jrn[s][i].addr # a
          PROVE  mem'[a] = store[a]
      <3>1. CASE jrn[q][n].addr = a /\ Pending(q, n)
        <4>1. FirstAt(q, n)
          <5>1. SUFFICES ASSUME NEW k \in 1 .. (n - 1) PROVE jrn[q][k].addr # a
            BY <3>1 DEF FirstAt
          <5>2. k \in 1 .. JSize /\ k <= n /\ k # n  BY <1>2
          <5>3. Pending(q, k)
            <6>1. \A i \in 1 .. k : i \in 1 .. n  BY <1>2, <5>2
            <6>2. QED  BY <1>2, <2>2, <3>1, <5>2, <6>1 DEF Pending, ValidEntries
          <5>4. QED  BY <2>3, <2>5, <5>2, <5>3
        <4>2. LastPending(q, n)
          BY <1>2, <2>3, <2>5, <3>1, <4>1 DEF LastPending
        <4>3. jrn[q][n].old = store[a]  BY <1>1, <3>1, <4>2 DEF Recovering
        <4>4. QED  BY <1>2, <2>1, <2>2, <3>1, <4>3
      <3>2. CASE jrn[q][n].addr # a
        <4>1. \A s \in Slots, i \in 1 .. JSize : Pending(s, i) => jrn[s][i].addr # a
          BY <2>3, <2>5, <3>2
        <4>2. mem[a] = store[a]  BY <1>1, <4>1 DEF Recovering
        <4>3. QED  BY <1>2, <2>1, <2>2, <3>2, <4>2
      <3>3. Pending(q, n)
        <4>1. hdr[q].active /\ n \in ValidEntries(hdr[q], jrn[q])
          BY <1>1, <1>2, <2>1, <2>2 DEF Recovering
        <4>2. QED  BY <1>2, <2>2, <4>1 DEF Pending
      <3>4. QED  BY <3>1, <3>2, <3>3
    <2>6. left' # None => hdr'[at'].active /\ 1 .. left' \subseteq ValidEntries(hdr'[at'], jrn[at'])
      <3>1. 1 .. (left - 1) \subseteq 1 .. left  BY <2>1, <1>2
      <3>2. QED  BY <1>1, <1>2, <2>1, <3>1 DEF Recovering
    <2>7. QED  BY <1>1, <2>4, <2>5, <2>6 DEF Recovering
  <1>6. CASE recover_clear
    <2>1. /\ left = 0 /\ left' = None /\ at' = at + 1 /\ mem' = mem
          /\ hdr' = [hdr EXCEPT ![at].active = FALSE]
      BY <1>6 DEF recover_clear
    <2>2. \A s \in Slots : s # at => hdr'[s] = hdr[s]  BY <1>2, <2>1
    <2>3. ASSUME NEW s \in Slots, NEW i \in 1 .. JSize PROVE Pending(s, i)' <=> Pending(s, i)
      <3>1. CASE s = at  BY <1>2, <2>1, <3>1 DEF Pending
      <3>2. CASE s # at
        BY <1>1, <1>2, <2>1, <2>2, <3>2 DEF Pending, ValidEntries
      <3>3. QED  BY <3>1, <3>2
    <2>4. QED  BY <1>3, <2>1, <2>3
  <1>7. CASE recover_skip
    <2>1. /\ left = None /\ at' = at + 1 /\ UNCHANGED <<mem, hdr, left>> /\ ~hdr[at].active
      BY <1>7 DEF recover_skip
    <2>2. ASSUME NEW s \in Slots, NEW i \in 1 .. JSize PROVE Pending(s, i)' <=> Pending(s, i)
      <3>1. CASE s = at  BY <1>2, <2>1, <3>1 DEF Pending
      <3>2. CASE s # at
        BY <1>1, <1>2, <2>1, <3>2 DEF Pending, ValidEntries
      <3>3. QED  BY <3>1, <3>2
    <2>3. QED  BY <1>3, <2>1, <2>2
  <1>8. QED  BY <1>4, <1>5, <1>6, <1>7

LEMMA VisibleRecover ==
  ASSUME JournalInv, VisibleInv, Crash \/ Recover
  PROVE  VisibleInv'
  <1>1. CASE Crash
    <2>1. ASSUME NEW u \in Threads PROVE View(u)'
      <3>1. /\ \A a \in Addr : owner'[a] = None /\ ws'[u][a] = None
            /\ jcur'[u] = 0 /\ pc'[u] = "out"
        BY <1>1 DEF Crash, NoWrites
      <3>2. u # None  BY ConstAssumption
      <3>3. QED  BY <3>1, <3>2, EmptyView
    <2>2. Isolation'  BY <1>1 DEF Crash, Isolation
    <2>3. QED  BY <1>1, <2>1, <2>2, RecoveringStarts DEF VisibleInv
  <1>2. CASE Recover
    <2>1. /\ mode = "recover" /\ UNCHANGED <<jrn, pc, txLocals, owner, ws>>
      BY <1>2 DEF Recover, recover_scan, recover_undo, recover_clear, recover_skip, recover_done
    <2>2. ASSUME NEW u \in Threads PROVE View(u)'
      <3>1. pc[u] = "out" /\ View(u)  BY <2>1 DEF JournalInv, LocalsOK, VisibleInv
      <3>2. \A a \in Addr : owner[a] # u  BY <3>1 DEF View, OwnsLines, Held
      <3>3. QED  BY <2>1, <3>1, <3>2, Others
    <2>3. CASE recover_done
      <3>1. /\ at \notin Slots /\ mode' = "up" /\ vstore' = store /\ mem' = mem
        BY <2>3 DEF recover_done
      <3>2. ASSUME NEW s \in Slots, NEW i \in 1 .. JSize PROVE ~Pending(s, i)
        <4>1. s \in Nat /\ at \in Nat /\ 0 .. s \subseteq Slots
          BY SlotsAssumption DEF JournalInv, TypeOK
        <4>2. ~(at <= s)  BY <4>1, <3>1
        <4>3. QED  BY <4>1, <4>2 DEF Pending
      <3>3. \A a \in Addr : mem[a] = store[a]  BY <2>1, <3>2 DEF VisibleInv, Recovering
      <3>4. Isolation' /\ Recovering'  BY <3>1, <3>3 DEF Isolation, Recovering
      <3>5. QED  BY <2>2, <3>4 DEF VisibleInv
    <2>4. CASE recover_scan \/ recover_undo \/ recover_clear \/ recover_skip
      <3>1. Recovering'  BY <2>4, RecoveringStep DEF VisibleInv
      <3>2. Isolation'
        BY <2>4 DEF Isolation, recover_scan, recover_undo, recover_clear, recover_skip
      <3>3. QED  BY <2>2, <3>1, <3>2 DEF VisibleInv
    <2>5. QED  BY <1>2, <2>3, <2>4 DEF Recover
  <1>3. QED  BY <1>1, <1>2

LEMMA VisibleInit == Init => VisibleInv
  <1> SUFFICES ASSUME Init PROVE VisibleInv  OBVIOUS
  <1>1. ASSUME NEW t \in Threads PROVE View(t)
    <2>1. t # None  BY ConstAssumption
    <2>2. QED
      BY <2>1 DEF Init, NoWrites, View, OwnsLines, WritesJournalled, OldsVisible, LinesVisible, Running
  <1>2. Isolation /\ Recovering  BY DEF Init, Isolation, Recovering
  <1>3. QED  BY <1>1, <1>2 DEF VisibleInv

LEMMA VisibleNext == JournalInv /\ VisibleInv /\ [Next]_vars => VisibleInv'
  <1> SUFFICES ASSUME JournalInv, VisibleInv, [Next]_vars PROVE VisibleInv'  OBVIOUS
  <1>1. ASSUME NEW t \in Threads, TxStep(t) PROVE VisibleInv'
    BY <1>1, VisibleBegin, VisibleLog, VisibleRun, VisibleEnd, ConstAssumption DEF TxStep
  <1>2. CASE UNCHANGED vars
    <2>1. \A u \in Threads : View(u)'  BY <1>2, Others DEF vars, VisibleInv
    <2>2. Isolation'  BY <1>2 DEF vars, VisibleInv, Isolation
    <2>3. Recovering'
      BY <1>2 DEF vars, VisibleInv, Recovering, LastPending, Pending, FirstAt, ValidEntries
    <2>4. QED  BY <2>1, <2>2, <2>3 DEF VisibleInv
  <1>3. QED  BY <1>1, <1>2, VisibleWriteBack, VisibleRecover DEF Next

\* A line that nobody has locked shows the committed value, whatever the other
\* transactions, write-backs and failures do: commit() and abort() are over
\* before unlock_all, and recover() leaves in memory what it makes durable.
THEOREM IsolationHolds == Spec => []Isolation
  <1>1. VisibleInv => Isolation  BY DEF VisibleInv
  <1>2. JournalInv /\ VisibleInv /\ [Next]_vars => (JournalInv /\ VisibleInv)'
    BY JournalNext, VisibleNext
  <1>3. Init => JournalInv /\ VisibleInv  BY JournalInit, VisibleInit
  <1>4. QED  BY <1>1, <1>2, <1>3, PTL DEF Spec

\* A logged line is in the persistent journal where recovery finds it, first
\* with the contents that are to come back.
LEMMA FirstDurable ==
  ASSUME JournalInv, VisibleInv, NEW t \in Threads, pc[t] \in {"run", "undo", "unlock"},
         NEW a \in logged[t]
  PROVE  /\ phdr[slot[t]] = HeaderOf(t)
         /\ \E i \in 1 .. JSize :
              /\ i \in ValidEntries(phdr[slot[t]], pjrn[slot[t]])
              /\ pjrn[slot[t]][i].addr = a
              /\ \A k \in 1 .. (i - 1) : pjrn[slot[t]][k].addr # a
              /\ pc[t] \in {"run", "undo"} => pjrn[slot[t]][i].old = vstore[a]
  <1> USE DEF JournalInv
  <1> DEFINE T == {i \in 1 .. jcur[t] : jrn[slot[t]][i].addr = a}
  <1>1. pc[t] \in Held /\ jcur[t] \in 0 .. JSize /\ JSize \in Nat
    BY ConstAssumption DEF Held, TypeOK
  <1>2. T \subseteq Nat /\ T # {}  BY <1>1 DEF Journalled
  <1>3. PICK i \in T : \A y \in T : i <= y  BY <1>2, NatLeast
  <1>4. i \in 1 .. JSize /\ i \in 1 .. jcur[t] /\ jcur[t] > 0 /\ jrn[slot[t]][i].addr = a
    BY <1>1, <1>3
  <1>5. \A k \in 1 .. (i - 1) : k \in 1 .. jcur[t] /\ k < i  BY <1>1, <1>4
  <1>6. \A k \in 1 .. (i - 1) : jrn[slot[t]][k].addr # a  BY <1>3, <1>4, <1>5
  <1>7. /\ phdr[slot[t]] = HeaderOf(t)
        /\ \A k \in 1 .. jcur[t] : pjrn[slot[t]][k] = jrn[slot[t]][k]
    BY <1>4 DEF JournalDurable
  <1>8. phdr[slot[t]].id = id[t]  BY <1>7 DEF HeaderOf
  <1>9. \A k \in 1 .. i : k \in 1 .. jcur[t]  BY <1>1, <1>4
  <1>10. \A k \in 1 .. i : pjrn[slot[t]][k].id = phdr[slot[t]].id
    BY <1>1, <1>7, <1>8, <1>9 DEF Journalled
  <1>11. i \in ValidEntries(phdr[slot[t]], pjrn[slot[t]])
    BY <1>4, <1>10 DEF ValidEntries
  <1>12. pc[t] \in {"run", "undo"} => jrn[slot[t]][i].old = vstore[a]
    <2>1. FirstAt(slot[t], i)  BY <1>4, <1>6 DEF FirstAt
    <2>2. QED  BY <1>4, <2>1 DEF VisibleInv, View, OldsVisible, Running
  <1>13. QED  BY <1>4, <1>5, <1>6, <1>7, <1>11, <1>12

LEMMA WriteAheadHolds == JournalInv /\ VisibleInv => WriteAhead
  <1> SUFFICES ASSUME JournalInv, VisibleInv,
                      NEW t \in Threads, pc[t] \in {"run", "undo", "unlock"},
                      NEW a \in logged[t]
               PROVE  /\ phdr[slot[t]] = [id |-> id[t], active |-> TRUE]
                      /\ \E i \in ValidEntries(phdr[slot[t]], pjrn[slot[t]]) :
                           /\ pjrn[slot[t]][i].addr = a
                           /\ \A k \in 1 .. (i - 1) : pjrn[slot[t]][k].addr # a
                           /\ pc[t] # "unlock" => pjrn[slot[t]][i].old = vstore[a]
    BY DEF WriteAhead
  <1>1. pc[t] # "unlock" => pc[t] \in {"run", "undo"}  OBVIOUS
  <1>2. PICK i \in 1 .. JSize :
          /\ i \in ValidEntries(phdr[slot[t]], pjrn[slot[t]])
          /\ pjrn[slot[t]][i].addr = a
          /\ \A k \in 1 .. (i - 1) : pjrn[slot[t]][k].addr # a
          /\ pc[t] \in {"run", "undo"} => pjrn[slot[t]][i].old = vstore[a]
    BY FirstDurable
  <1>3. phdr[slot[t]] = HeaderOf(t)  BY FirstDurable
  <1>4. QED  BY <1>1, <1>2, <1>3 DEF HeaderOf

\* The write-ahead rule holds however write-backs, flushes, failures and other
\* transactions interleave with log(), for either flush instruction: what a
\* transaction may have overwritten is in the persistent journal with its
\* committed contents.
THEOREM WriteAheadRule == Spec => []WriteAhead
  <1>1. JournalInv /\ VisibleInv /\ [Next]_vars => (JournalInv /\ VisibleInv)'
    BY JournalNext, VisibleNext
  <1>2. Init => JournalInv /\ VisibleInv  BY JournalInit, VisibleInit
  <1>3. QED  BY <1>1, <1>2, WriteAheadHolds, PTL DEF Spec
-----------------------------------------------------------------------------
(***************************************************************************)
(* What a failure leaves of a line, for either flush instruction, any      *)
(* overlap of transactions and any sharing of lines.                       *)
(***************************************************************************)
\* A durable entry of t's transaction protects line a.
Saved(t, a) ==
  /\ phdr[slot[t]] = HeaderOf(t)
  /\ \E i \in 1 .. jcur[t] :
       /\ jrn[slot[t]][i].addr = a
       /\ \A k \in 1 .. i : pjrn[slot[t]][k] = jrn[slot[t]][k]

\* A line is durable with its committed contents, or protected by an entry of
\* the transaction that has it locked; a written line always is.
LineBacked(a) ==
  /\ owner[a] = None => pm[a] = vstore[a]
  /\ \A t \in Threads : owner[a] = t =>
       /\ pc[t] \in Running \cup {"undo"} => pm[a] = vstore[a] \/ Saved(t, a)
       /\ pc[t] \in Running /\ ws[t][a] # None => Saved(t, a)
       /\ pc[t] = "unlock" => pm[a] = vstore[a]

\* What recover() has restored is durable, but for the slot it is at.
LineRestored(a) ==
  \/ mem[a] = pm[a]
  \/ left # None /\ \E i \in ValidEntries(hdr[at], jrn[at]) : jrn[at][i].addr = a

\* The inductive invariant behind CommittedSurvives, on top of the other two.
BackedInv ==
  \A a \in Addr : IF mode = "up" THEN LineBacked(a) ELSE LineRestored(a)

\* An entry protects its line until the slot is freed.
LEMMA SavedKept ==
  ASSUME JournalInv, NEW u \in Threads, pc[u] \in Held, NEW a, Saved(u, a),
         slot'[u] = slot[u], id'[u] = id[u], jcur'[u] \in Nat, jcur[u] <= jcur'[u],
         \A i \in 1 .. jcur[u] : jrn'[slot[u]][i] = jrn[slot[u]][i],
         \A i \in 1 .. jcur[u] : pjrn'[slot[u]][i] \in {pjrn[slot[u]][i], jrn[slot[u]][i]},
         phdr'[slot[u]] \in {phdr[slot[u]], hdr[slot[u]]}
  PROVE  Saved(u, a)'
  <1>1. jcur[u] \in 0 .. JSize /\ JSize \in Nat  BY ConstAssumption DEF JournalInv, TypeOK
  <1>2. phdr'[slot[u]] = HeaderOf(u)  BY DEF JournalInv, SlotsHeld, Saved
  <1>3. PICK i \in 1 .. jcur[u] : /\ jrn[slot[u]][i].addr = a
                                  /\ \A k \in 1 .. i : pjrn[slot[u]][k] = jrn[slot[u]][k]
    BY DEF Saved
  <1>4. \A k \in 1 .. i : k \in 1 .. jcur[u]  BY <1>1, <1>3
  <1>5. i \in 1 .. jcur'[u]  BY <1>1, <1>3
  <1>6. \A k \in 1 .. i : pjrn'[slot[u]][k] = jrn'[slot[u]][k]  BY <1>3, <1>4
  <1>7. jrn'[slot[u]][i].addr = a  BY <1>3
  <1>8. HeaderOf(u)' = HeaderOf(u)  BY DEF HeaderOf
  <1>9. QED  BY <1>2, <1>5, <1>6, <1>7, <1>8 DEF Saved

LEMMA SavedTx ==
  ASSUME JournalInv, NEW t \in Threads, TxStep(t) \/ WriteBack,
         NEW u \in Threads, pc[u] \in Held, pc'[u] \in Held, NEW a, Saved(u, a)
  PROVE  Saved(u, a)'
  <1>1. /\ jcur[u] \in 0 .. JSize /\ JSize \in Nat /\ slot[u] \in Slots /\ slot[t] \in Slots
        /\ \A i \in 1 .. jcur[u] : i \in 1 .. JSize
        /\ jcur[t] \in 0 .. JSize /\ jcur[t] + 1 \notin 1 .. jcur[t]
    BY ConstAssumption DEF JournalInv, TypeOK
  <1>2. u # t => \A i \in 1 .. jcur[u] : jrn'[slot[u]][i] = jrn[slot[u]][i]
    <2>1. CASE pc[t] \in Held
      <3>1. u # t => slot[u] # slot[t]  BY <2>1 DEF JournalInv, SlotsHeld
      <3>2. jrn' = jrn \/ \E e : jrn' = [jrn EXCEPT ![slot[t]] = e]
        BY DEF TxStep, WriteBack, begin_id, begin_slot, begin_flush, begin_throw, lock, unlock,
               write, log_begin, log_je_data, log_je_stamp, log_commit, commit, abort, undo,
               undo_commit, free_clear, free_commit
      <3>3. QED  BY <1>1, <3>1, <3>2 DEF JournalInv, TypeOK
    <2>2. CASE pc[t] \notin Held
      BY <2>2
      DEF TxStep, WriteBack, begin_id, begin_slot, begin_flush, begin_throw, lock, unlock,
          write, log_begin, log_je_data, log_je_stamp, log_commit, commit, abort, undo,
          undo_commit, free_clear, free_commit, Held
    <2>3. QED  BY <2>1, <2>2
  <1>3. u = t => \A i \in 1 .. jcur[u] : jrn'[slot[u]][i] = jrn[slot[u]][i]
    <2>1. CASE log_je_data(t)  BY <1>1, <2>1 DEF log_je_data, JournalInv, TypeOK
    <2>2. CASE log_je_stamp(t)  BY <1>1, <2>2 DEF log_je_stamp, JournalInv, TypeOK
    <2>3. CASE ~log_je_data(t) /\ ~log_je_stamp(t)
      BY <2>3
      DEF TxStep, WriteBack, begin_id, begin_slot, begin_flush, begin_throw, lock, unlock,
          write, log_begin, log_commit, commit, abort, undo, undo_commit, free_clear, free_commit
    <2>4. QED  BY <2>1, <2>2, <2>3
  <1>4. \A i \in 1 .. jcur[u] : pjrn'[slot[u]][i] \in {pjrn[slot[u]][i], jrn[slot[u]][i]}
    <2>1. CASE log_commit(t)  BY <1>1, <2>1 DEF log_commit, JournalInv, TypeOK
    <2>2. CASE WriteBack
      <3>1. CASE pjrn' = pjrn  BY <3>1
      <3>2. CASE \E s \in Slots, i \in 1 .. JSize : pjrn' = [pjrn EXCEPT ![s][i] = jrn[s][i]]
        BY <1>1, <3>2 DEF JournalInv, TypeOK
      <3>3. QED  BY <2>2, <3>1, <3>2 DEF WriteBack
    <2>3. CASE TxStep(t) /\ ~log_commit(t)
      BY <2>3
      DEF TxStep, begin_id, begin_slot, begin_flush, begin_throw, lock, unlock, write,
          log_begin, log_je_data, log_je_stamp, commit, abort, undo, undo_commit, free_clear,
          free_commit
    <2>4. QED  BY <2>1, <2>2, <2>3
  <1>5. phdr'[slot[u]] \in {phdr[slot[u]], hdr[slot[u]]}
    <2>1. phdr' = phdr \/ \E s \in Slots : PersistHdr(s)
      BY <1>1
      DEF TxStep, WriteBack, begin_id, begin_slot, begin_flush, begin_throw, lock, unlock,
          write, log_begin, log_je_data, log_je_stamp, log_commit, commit, abort, undo,
          undo_commit, free_clear, free_commit
    <2>2. QED  BY <1>1, <2>1, PersistHdrType DEF JournalInv
  <1>6. slot'[u] = slot[u] /\ id'[u] = id[u]
    BY DEF TxStep, WriteBack, begin_id, begin_slot, begin_flush, begin_throw, lock, unlock,
           write, log_begin, log_je_data, log_je_stamp, log_commit, commit, abort, undo,
           undo_commit, free_clear, free_commit, Held, JournalInv, TypeOK
  <1>7. jcur'[u] \in Nat /\ jcur[u] <= jcur'[u]
    <2>1. CASE log_je_stamp(t)  BY <1>1, <2>1 DEF log_je_stamp, JournalInv, TypeOK
    <2>2. CASE free_clear(t)
      <3>1. u # t  BY <2>2 DEF free_clear, Held, JournalInv, TypeOK
      <3>2. QED  BY <1>1, <2>2, <3>1 DEF free_clear, JournalInv, TypeOK
    <2>3. CASE jcur' = jcur  BY <1>1, <2>3
    <2>4. QED
      BY <2>1, <2>2, <2>3
      DEF TxStep, WriteBack, begin_id, begin_slot, begin_flush, begin_throw, lock, unlock,
          write, log_begin, log_je_data, log_commit, commit, abort, undo, undo_commit,
          free_commit
  <1>8. QED  BY <1>2, <1>3, <1>4, <1>5, <1>6, <1>7, SavedKept

\* A line that keeps its owner and its committed contents, while persistent
\* memory keeps or receives what is visible, if that is committed or protected.
LEMMA LineKept ==
  ASSUME JournalInv, VisibleInv, mode = "up", NEW t \in Threads, TxStep(t) \/ WriteBack,
         NEW a \in Addr, LineBacked(a), owner'[a] = owner[a], vstore'[a] = vstore[a],
         pm'[a] \in {pm[a], mem[a]},
         \A u \in Threads : owner[a] = u =>
           /\ pc'[u] = pc[u] \/ (pc[u] \in Running /\ pc'[u] \in Running)
           /\ ws'[u] = ws[u] \/ (pc[u] = "free" /\ ws'[u] = NoWrites)
  PROVE  LineBacked(a)'
  <1>1. CASE owner[a] = None
    <2>1. mem[a] = vstore[a] /\ pm[a] = vstore[a] /\ \A u \in Threads : owner[a] # u
      BY <1>1, ConstAssumption DEF VisibleInv, Isolation, LineBacked
    <2>2. QED  BY <2>1 DEF LineBacked
  <1>2. ASSUME NEW u \in Threads, owner[a] = u PROVE LineBacked(a)'
    <2>1. /\ pc[u] \in Held \ {"claimed"} /\ owner[a] # None
          /\ Running \subseteq Held /\ "free" \notin Held
      BY <1>2, ConstAssumption DEF VisibleInv, View, OwnsLines, Running, Held
    <2>2. pc'[u] \in Held /\ ws'[u] = ws[u]  BY <1>2, <2>1
    <2>3. Saved(u, a) => Saved(u, a)'  BY <2>1, <2>2, SavedTx
    <2>4. CASE pc[u] \in Running
      <3>1. pc'[u] \in Running /\ pc'[u] \notin {"undo", "unlock"}  BY <1>2, <2>4 DEF Running
      <3>2. ws[u][a] # None => Saved(u, a)  BY <1>2, <2>4 DEF LineBacked
      <3>3. ws[u][a] = None => mem[a] = vstore[a]
        BY <1>2, <2>4 DEF VisibleInv, View, LinesVisible
      <3>4. pm[a] = vstore[a] \/ Saved(u, a)  BY <1>2, <2>4 DEF LineBacked
      <3>5. pm'[a] = vstore[a] \/ Saved(u, a)  BY <3>2, <3>3, <3>4
      <3>6. QED  BY <1>2, <2>1, <2>2, <2>3, <3>1, <3>2, <3>5 DEF LineBacked
    <2>5. CASE pc[u] = "undo"
      <3>1. pc'[u] = "undo" /\ "undo" \notin Running  BY <1>2, <2>5 DEF Running
      <3>2. pm[a] = vstore[a] \/ Saved(u, a)  BY <1>2, <2>5 DEF LineBacked
      <3>3. mem[a] = vstore[a] \/ Saved(u, a)
        <4>1. /\ todo[u] \in 0 .. JSize /\ jcur[u] \in 0 .. JSize /\ JSize \in Nat
              /\ todo[u] <= jcur[u]
          BY <2>5, ConstAssumption DEF VisibleInv, View, OwnsLines, JournalInv, TypeOK
        <4>2. CASE \E i \in 1 .. todo[u] : jrn[slot[u]][i].addr = a
          <5>1. PICK i \in 1 .. todo[u] : jrn[slot[u]][i].addr = a  BY <4>2
          <5>2. i \in 1 .. jcur[u] /\ jcur[u] > 0 /\ \A k \in 1 .. i : k \in 1 .. jcur[u]
            BY <4>1, <5>1
          <5>3. QED  BY <2>5, <5>1, <5>2 DEF JournalInv, JournalDurable, Saved
        <4>3. CASE ~\E i \in 1 .. todo[u] : jrn[slot[u]][i].addr = a
          BY <1>2, <2>5, <4>3 DEF VisibleInv, View, LinesVisible
        <4>4. QED  BY <4>2, <4>3
      <3>4. QED  BY <1>2, <2>1, <2>2, <2>3, <3>1, <3>2, <3>3 DEF LineBacked
    <2>6. CASE pc[u] = "unlock"
      <3>1. pc'[u] = "unlock" /\ "unlock" \notin Running \cup {"undo"}
        BY <1>2, <2>6 DEF Running
      <3>2. pm[a] = vstore[a] /\ mem[a] = vstore[a]
        BY <1>2, <2>6 DEF LineBacked, VisibleInv, View, LinesVisible
      <3>3. QED  BY <1>2, <2>1, <3>1, <3>2 DEF LineBacked
    <2>7. QED  BY <2>1, <2>4, <2>5, <2>6 DEF Held, Running
  <1>3. QED  BY <1>1, <1>2 DEF JournalInv, TypeOK

LEMMA BackedTx ==
  ASSUME JournalInv, VisibleInv, BackedInv, NEW t \in Threads, TxStep(t)
  PROVE  BackedInv'
  <1> USE DEF JournalInv
  <1>1. mode = "up" /\ mode' = "up" /\ pm \in [Addr -> Val]
    BY DEF TypeOK, TxStep, begin_id, begin_slot, begin_flush, begin_throw, lock, unlock, write,
           log_begin, log_je_data, log_je_stamp, log_commit, commit, abort, undo, undo_commit,
           free_clear, free_commit
  <1>2. /\ View(t) /\ owner \in [Addr -> Threads \cup {None}] /\ vstore \in [Addr -> Val]
        /\ ws \in [Threads -> [Addr -> Val \cup {None}]] /\ None \notin Threads \cup Val
        /\ slot[t] \in Slots
    BY ConstAssumption DEF VisibleInv, TypeOK
  <1>3. \A a \in Addr : LineBacked(a)  BY <1>1 DEF BackedInv
  <1>4. SUFFICES ASSUME NEW a \in Addr PROVE LineBacked(a)'  BY <1>1 DEF BackedInv
  <1>5. ASSUME NEW s, PersistHdr(s)
        PROVE  \A u \in Threads : ws'[u] = ws[u] \/ (pc[u] = "free" /\ ws'[u] = NoWrites)
    BY <1>5, PersistHdrWrites
  <1>6. \A u \in Threads : u # t => pc'[u] = pc[u]
    BY DEF TypeOK, TxStep, begin_id, begin_slot, begin_flush, begin_throw, lock, unlock, write,
           log_begin, log_je_data, log_je_stamp, log_commit, commit, abort, undo, undo_commit,
           free_clear, free_commit
  <1>7. CASE \/ begin_id(t) \/ begin_flush(t) \/ begin_throw(t) \/ (\E s \in Slots : begin_slot(t, s))
             \/ (\E r \in Ranges : log_begin(t, r)) \/ log_je_data(t) \/ log_je_stamp(t)
             \/ log_commit(t) \/ free_clear(t) \/ free_commit(t) \/ undo(t)
    <2>1. UNCHANGED <<owner, vstore, pm>>
      BY <1>7 DEF begin_id, begin_slot, begin_flush, begin_throw, log_begin, log_je_data,
                  log_je_stamp, log_commit, free_clear, free_commit, undo
    <2>2. ASSUME NEW u \in Threads
          PROVE  ws'[u] = ws[u] \/ (pc[u] = "free" /\ ws'[u] = NoWrites)
      BY <1>5, <1>7 DEF begin_id, begin_slot, begin_flush, begin_throw, log_begin, log_je_data,
                  log_je_stamp, log_commit, free_clear, free_commit, undo
    <2>3. owner[a] = t => pc'[t] = pc[t] \/ (pc[t] \in Running /\ pc'[t] \in Running)
      <3>1. CASE undo(t)  BY <3>1 DEF undo, TypeOK
      <3>2. CASE free_clear(t)  BY <3>2 DEF free_clear
      <3>3. CASE \/ begin_id(t) \/ begin_flush(t) \/ begin_throw(t) \/ free_commit(t)
                 \/ \E s \in Slots : begin_slot(t, s)
        <4>1. pc[t] \notin Held \ {"claimed"}
          BY <3>3 DEF begin_id, begin_flush, begin_throw, free_commit, begin_slot, Held
        <4>2. QED  BY <1>2, <4>1 DEF View, OwnsLines
      <3>4. CASE \/ (\E r \in Ranges : log_begin(t, r)) \/ log_je_data(t) \/ log_je_stamp(t)
                 \/ log_commit(t)
        BY <3>4 DEF log_begin, log_je_data, log_je_stamp, log_commit, Running, TypeOK
      <3>5. QED  BY <1>7, <3>1, <3>2, <3>3, <3>4
    <2>4. QED  BY <1>1, <1>3, <1>6, <2>1, <2>2, <2>3, LineKept
  <1>8. CASE \E b \in Addr : lock(t, b) \/ unlock(t, b)
    <2>1. PICK b \in Addr : lock(t, b) \/ unlock(t, b)  BY <1>8
    <2>2. UNCHANGED <<pm, vstore, ws, pc>>  BY <2>1 DEF lock, unlock, TypeOK
    <2>3. CASE a # b
      <3>1. owner'[a] = owner[a]  BY <2>1, <2>3 DEF lock, unlock, TypeOK
      <3>2. QED  BY <1>1, <1>3, <2>2, <3>1, LineKept
    <2>4. CASE a = b /\ lock(t, b)
      <3>1. owner[a] = None /\ owner'[a] = t /\ pc[t] = "run"  BY <1>2, <2>4 DEF lock
      <3>2. pm[a] = vstore[a]  BY <1>3, <3>1 DEF LineBacked
      <3>3. ws[t][a] = None
        <4>1. \A i \in 1 .. jcur[t] : jrn[slot[t]][i].addr # a
          BY <1>2, <3>1 DEF View, OwnsLines, Running
        <4>2. QED  BY <1>2, <3>1, <4>1 DEF View, WritesJournalled
      <3>4. QED  BY <1>2, <2>2, <3>1, <3>2, <3>3 DEF LineBacked
    <2>5. CASE a = b /\ unlock(t, b)
      <3>1. owner[a] = t /\ owner'[a] = None /\ pc[t] = "unlock"  BY <1>2, <2>5 DEF unlock
      <3>2. pm[a] = vstore[a]  BY <1>3, <3>1 DEF LineBacked
      <3>3. QED  BY <1>2, <2>2, <3>1, <3>2 DEF LineBacked
    <2>6. QED  BY <2>1, <2>3, <2>4, <2>5
  <1>9. CASE \E b \in Addr, v \in Val : write(t, b, v)
    <2>1. PICK b \in Addr, v \in Val : write(t, b, v)  BY <1>9
    <2>2. /\ UNCHANGED <<pm, vstore, pc, owner>> /\ pc[t] = "run" /\ b \in logged[t]
          /\ ws' = [ws EXCEPT ![t][b] = v]
      BY <2>1 DEF write, TypeOK
    <2>3. CASE owner[a] # t
      <3>1. \A u \in Threads : u # t => ws'[u] = ws[u]  BY <1>2, <2>2
      <3>2. QED  BY <1>1, <1>3, <2>2, <2>3, <3>1, LineKept
    <2>4. CASE owner[a] = t /\ a # b
      <3>1. ws'[t][a] = ws[t][a]  BY <1>2, <2>2, <2>4
      <3>2. pc[t] \in Held /\ pc'[t] \in Held  BY <2>2 DEF Held
      <3>3. Saved(t, a) => Saved(t, a)'  BY <3>2, SavedTx
      <3>4. QED  BY <1>2, <1>3, <2>2, <2>4, <3>1, <3>3 DEF LineBacked, Running
    <2>5. CASE owner[a] = t /\ a = b
      <3>1. pc[t] \in Held /\ pc'[t] \in Held  BY <2>2 DEF Held
      <3>2. PICK i \in 1 .. jcur[t] : jrn[slot[t]][i].addr = a
        BY <2>2, <2>5, <3>1 DEF Journalled
      <3>3. jcur[t] \in 0 .. JSize /\ JSize \in Nat  BY ConstAssumption DEF TypeOK
      <3>4. jcur[t] > 0 /\ \A k \in 1 .. i : k \in 1 .. jcur[t]  BY <3>2, <3>3
      <3>5. Saved(t, a)  BY <2>2, <3>2, <3>4 DEF JournalDurable, Saved
      <3>6. Saved(t, a)'  BY <3>1, <3>5, SavedTx
      <3>7. QED  BY <1>2, <2>2, <2>5, <3>6 DEF LineBacked, Running
    <2>6. QED  BY <2>3, <2>4, <2>5
  <1>10. CASE commit(t)
    <2>1. /\ pc[t] = "run" /\ pc'[t] = "unlock" /\ UNCHANGED <<owner, mem>>
          /\ vstore' = Overlay(vstore, ws[t]) /\ PersistHdr(slot[t])
          /\ PersistData(EntryAddrs(slot[t], jcur[t]))
      BY <1>10 DEF commit, TypeOK
    <2>2. pm'[a] \in {pm[a], mem[a]}  BY <2>1 DEF PersistData
    <2>3. CASE owner[a] # t
      <3>1. vstore'[a] = vstore[a]
        BY <1>2, <2>1, <2>3 DEF View, WritesJournalled, OwnsLines, Running, Overlay
      <3>2. QED  BY <1>1, <1>3, <1>5, <1>6, <2>1, <2>2, <2>3, <3>1, LineKept
    <2>4. CASE owner[a] = t
      <3>1. mem[a] = vstore'[a]
        BY <1>2, <2>1, <2>4 DEF View, LinesVisible, Overlay, Running
      <3>2. CASE Saved(t, a)
        <4>1. a \in EntryAddrs(slot[t], jcur[t])  BY <3>2 DEF Saved, EntryAddrs
        <4>2. pm'[a] = mem[a]  BY <2>1, <4>1 DEF PersistData
        <4>3. QED  BY <1>2, <2>1, <2>4, <3>1, <4>2 DEF LineBacked, Running
      <3>3. CASE ~Saved(t, a)
        <4>1. ws[t][a] = None /\ pm[a] = vstore[a]
          BY <1>3, <2>1, <2>4, <3>3 DEF LineBacked, Running
        <4>2. vstore'[a] = vstore[a]  BY <2>1, <4>1 DEF Overlay
        <4>3. pm'[a] = vstore'[a]  BY <2>2, <3>1, <4>1, <4>2
        <4>4. QED  BY <1>2, <2>1, <2>4, <4>3 DEF LineBacked, Running
      <3>4. QED  BY <3>2, <3>3
    <2>5. QED  BY <2>3, <2>4
  <1>11. CASE abort(t)
    <2>1. /\ pc[t] = "run" /\ pc'[t] = "undo" /\ UNCHANGED <<owner, pm, vstore>>
          /\ \A u \in Threads : u # t => ws'[u] = ws[u]
      BY <1>11 DEF abort, TypeOK
    <2>2. CASE owner[a] # t
      BY <1>1, <1>3, <1>6, <2>1, <2>2, LineKept
    <2>3. CASE owner[a] = t
      <3>1. pc[t] \in Held /\ pc'[t] \in Held  BY <2>1 DEF Held
      <3>2. Saved(t, a) => Saved(t, a)'  BY <3>1, SavedTx
      <3>3. pm[a] = vstore[a] \/ Saved(t, a)  BY <1>3, <2>1, <2>3 DEF LineBacked, Running
      <3>4. QED  BY <1>2, <2>1, <2>3, <3>2, <3>3 DEF LineBacked, Running
    <2>4. QED  BY <2>2, <2>3
  <1>12. CASE undo_commit(t)
    <2>1. /\ pc[t] = "undo" /\ pc'[t] = "unlock" /\ UNCHANGED <<owner, mem, vstore>>
          /\ todo[t] = 0 /\ PersistHdr(slot[t])
          /\ PersistData(EntryAddrs(slot[t], jcur[t]))
      BY <1>12 DEF undo_commit, TypeOK
    <2>2. pm'[a] \in {pm[a], mem[a]}  BY <2>1 DEF PersistData
    <2>3. CASE owner[a] # t
      BY <1>1, <1>3, <1>5, <1>6, <2>1, <2>2, <2>3, LineKept
    <2>4. CASE owner[a] = t
      <3>1. mem[a] = vstore[a]  BY <1>2, <2>1, <2>4 DEF View, LinesVisible
      <3>2. CASE Saved(t, a)
        <4>1. a \in EntryAddrs(slot[t], jcur[t])  BY <3>2 DEF Saved, EntryAddrs
        <4>2. pm'[a] = mem[a]  BY <2>1, <4>1 DEF PersistData
        <4>3. QED  BY <1>2, <2>1, <2>4, <3>1, <4>2 DEF LineBacked, Running
      <3>3. CASE ~Saved(t, a)
        <4>1. pm[a] = vstore[a]  BY <1>3, <2>1, <2>4, <3>3 DEF LineBacked
        <4>2. pm'[a] = vstore[a]  BY <2>2, <3>1, <4>1
        <4>3. QED  BY <1>2, <2>1, <2>4, <4>2 DEF LineBacked, Running
      <3>4. QED  BY <3>2, <3>3
    <2>5. QED  BY <2>3, <2>4
  <1>13. QED  BY <1>7, <1>8, <1>9, <1>10, <1>11, <1>12, ConstAssumption DEF TxStep

LEMMA BackedWriteBack ==
  ASSUME JournalInv, VisibleInv, BackedInv, WriteBack
  PROVE  BackedInv'
  <1> USE DEF JournalInv
  <1>1. UNCHANGED <<mem, hdr, jrn, pc, txLocals, owner, boot, vstore>>  BY DEF WriteBack
  <1>2. SUFFICES ASSUME NEW a \in Addr
                 PROVE  IF mode = "up" THEN LineBacked(a)' ELSE LineRestored(a)'
    BY <1>1 DEF BackedInv
  <1>3. pm'[a] \in {pm[a], mem[a]}  BY DEF WriteBack, PersistData, TypeOK
  <1>4. \A u \in Threads : ws'[u] = ws[u] \/ (pc[u] = "free" /\ ws'[u] = NoWrites)
    <2>1. ASSUME NEW s \in Slots, PersistHdr(s)
          PROVE  \A u \in Threads : ws'[u] = ws[u] \/ (pc[u] = "free" /\ ws'[u] = NoWrites)
      BY <2>1, PersistHdrWrites
    <2>2. QED  BY <2>1 DEF WriteBack
  <1>5. CASE mode = "up"
    <2>1. LineBacked(a)  BY <1>5 DEF BackedInv
    <2>2. CASE Threads = {}
      <3>1. owner[a] = None  BY <2>2 DEF TypeOK
      <3>2. pm[a] = vstore[a] /\ mem[a] = vstore[a]
        BY <1>5, <2>1, <3>1 DEF LineBacked, VisibleInv, Isolation
      <3>3. QED  BY <1>1, <1>3, <1>5, <2>2, <3>2 DEF LineBacked
    <2>3. CASE Threads # {}
      <3>1. PICK t \in Threads : TRUE  BY <2>3
      <3>2. LineBacked(a)'  BY <1>1, <1>3, <1>4, <1>5, <2>1, <3>1, LineKept
      <3>3. QED  BY <1>5, <3>2
    <2>4. QED  BY <2>2, <2>3
  <1>6. CASE mode # "up"
    <2>1. LineRestored(a)  BY <1>6 DEF BackedInv
    <2>2. QED  BY <1>1, <1>3, <1>6, <2>1 DEF LineRestored
  <1>7. QED  BY <1>5, <1>6

LEMMA BackedRecover ==
  ASSUME JournalInv, VisibleInv, BackedInv, Crash \/ Recover
  PROVE  BackedInv'
  <1> USE DEF JournalInv
  <1>1. mode \in {"up", "recover"} /\ None \notin Nat /\ None \notin Threads
    BY ConstAssumption DEF TypeOK
  <1>2. CASE Crash  BY <1>2 DEF Crash, BackedInv, LineRestored
  <1>3. CASE recover_scan \/ recover_undo \/ recover_clear \/ recover_skip
    <2>1. mode = "recover" /\ mode' = "recover" /\ jrn' = jrn
      BY <1>3 DEF recover_scan, recover_undo, recover_clear, recover_skip
    <2>2. SUFFICES ASSUME NEW a \in Addr PROVE LineRestored(a)'  BY <2>1 DEF BackedInv
    <2>3. LineRestored(a)  BY <2>1 DEF BackedInv
    <2>4. CASE recover_scan \/ recover_skip
      BY <2>3, <2>4 DEF recover_scan, recover_skip, LineRestored
    <2>5. CASE recover_undo
      <3> DEFINE e == jrn[at][left]
      <3>1. /\ left \in 0 .. JSize /\ left # 0 /\ left' = left - 1 /\ JSize \in Nat
            /\ mem' = [mem EXCEPT ![e.addr] = e.old] /\ UNCHANGED <<pm, hdr, at>>
        BY <2>5, ConstAssumption DEF recover_undo, TypeOK
      <3>2. left \in ValidEntries(hdr[at], jrn[at])
        <4>1. 1 .. left \subseteq ValidEntries(hdr[at], jrn[at])
          BY <1>1, <2>1, <2>5, <3>1 DEF VisibleInv, Recovering, recover_undo
        <4>2. QED  BY <3>1, <4>1
      <3>3. left' # None /\ left # None  BY <1>1, <3>1
      <3> HIDE DEF e
      <3>4. a = e.addr \/ mem'[a] = mem[a]  BY <3>1 DEF TypeOK
      <3>5. QED  BY <2>1, <2>3, <3>1, <3>2, <3>3, <3>4 DEF LineRestored, e
    <2>6. CASE recover_clear
      BY <2>1, <2>3, <2>6 DEF recover_clear, PersistData, LineRestored
    <2>7. QED  BY <1>3, <2>4, <2>5, <2>6
  <1>4. CASE recover_done
    <2>1. /\ mode = "recover" /\ mode' = "up" /\ at \notin Slots
          /\ vstore' = store /\ UNCHANGED <<pm, mem, owner, pc>>
      BY <1>4 DEF recover_done
    <2>2. left = None  BY <2>1 DEF LocalsOK
    <2>3. ASSUME NEW s \in Slots, NEW i \in 1 .. JSize PROVE ~Pending(s, i)
      <3>1. s \in Nat /\ at \in Nat /\ 0 .. s \subseteq Slots
        BY SlotsAssumption DEF TypeOK
      <3>2. ~(at <= s)  BY <2>1, <3>1
      <3>3. QED  BY <3>1, <3>2 DEF Pending
    <2>4. ASSUME NEW a \in Addr PROVE LineBacked(a)'
      <3>1. mem[a] = store[a]  BY <2>1, <2>3 DEF VisibleInv, Recovering
      <3>2. pm[a] = mem[a]  BY <2>1, <2>2 DEF BackedInv, LineRestored
      <3>3. \A u \in Threads : owner[a] # u
        BY <2>1 DEF LocalsOK, VisibleInv, View, OwnsLines, Held
      <3>4. QED  BY <2>1, <3>1, <3>2, <3>3 DEF LineBacked
    <2>5. QED  BY <2>1, <2>4 DEF BackedInv
  <1>5. QED  BY <1>2, <1>3, <1>4 DEF Recover

LEMMA BackedNext ==
  JournalInv /\ VisibleInv /\ BackedInv /\ [Next]_vars => BackedInv'
  <1> SUFFICES ASSUME JournalInv, VisibleInv, BackedInv, [Next]_vars PROVE BackedInv'
    OBVIOUS
  <1>1. CASE UNCHANGED vars
    <2>1. ASSUME NEW a \in Addr, LineBacked(a) PROVE LineBacked(a)'
      <3>1. \A t \in Threads : Saved(t, a) => Saved(t, a)'
        BY <1>1 DEF vars, Saved, HeaderOf
      <3>2. QED  BY <1>1, <2>1, <3>1 DEF vars, LineBacked
    <2>2. ASSUME NEW a \in Addr, LineRestored(a) PROVE LineRestored(a)'
      BY <1>1, <2>2 DEF vars, LineRestored
    <2>3. QED  BY <1>1, <2>1, <2>2 DEF vars, BackedInv
  <1>2. QED  BY <1>1, BackedTx, BackedWriteBack, BackedRecover DEF Next

LEMMA BackedInit == Init => BackedInv
  <1> SUFFICES ASSUME Init PROVE BackedInv  OBVIOUS
  <1>1. \A t \in Threads : t # None  BY ConstAssumption
  <1>2. QED  BY <1>1 DEF Init, BackedInv, LineBacked

\* What recovery would make of a line of a graph that is up.
LEMMA CommittedHolds == JournalInv /\ VisibleInv /\ BackedInv => CommittedSurvives
  <1> SUFFICES ASSUME JournalInv, VisibleInv, BackedInv, mode = "up", NEW a \in Addr,
                      UndoSlots(a) \subseteq Undoing(a)
               PROVE  Recovered[a] = vstore[a]
    BY DEF CommittedSurvives
  <1>1. /\ JSize \in Nat /\ UndoSlots(a) \subseteq Slots /\ LineBacked(a)
        /\ \A s \in Slots : ValidEntries(phdr[s], pjrn[s]) \subseteq 1 .. JSize
    BY ConstAssumption DEF UndoSlots, BackedInv, ValidEntries
  <1>2. CASE UndoSlots(a) = {}
    <2>1. ASSUME NEW t \in Threads, pc[t] \in Held, Saved(t, a) PROVE FALSE
      <3>1. PICK i \in 1 .. jcur[t] : /\ jrn[slot[t]][i].addr = a
                                      /\ \A k \in 1 .. i : pjrn[slot[t]][k] = jrn[slot[t]][k]
        BY <2>1 DEF Saved
      <3>2. slot[t] \in Slots /\ jcur[t] \in 0 .. JSize  BY DEF JournalInv, TypeOK
      <3>3. i \in 1 .. JSize /\ i \in 1 .. i /\ \A k \in 1 .. i : k \in 1 .. jcur[t]
        BY <1>1, <3>1, <3>2
      <3>4. phdr[slot[t]].active /\ phdr[slot[t]].id = id[t]  BY <2>1 DEF Saved, HeaderOf
      <3>5. \A k \in 1 .. i : pjrn[slot[t]][k].id = phdr[slot[t]].id
        BY <2>1, <3>1, <3>3, <3>4 DEF JournalInv, Journalled
      <3>6. i \in ValidEntries(phdr[slot[t]], pjrn[slot[t]])  BY <3>3, <3>5 DEF ValidEntries
      <3>7. pjrn[slot[t]][i].addr = a  BY <3>1, <3>3
      <3>8. QED  BY <1>2, <3>2, <3>4, <3>6, <3>7 DEF UndoSlots
    <2>2. pm[a] = vstore[a]
      <3>1. CASE owner[a] = None  BY <1>1, <3>1 DEF LineBacked
      <3>2. ASSUME NEW t \in Threads, owner[a] = t PROVE pm[a] = vstore[a]
        <4>1. pc[t] \in Held \ {"claimed"}  BY <3>2 DEF VisibleInv, View, OwnsLines
        <4>2. pc[t] \in Running \cup {"undo"} \/ pc[t] = "unlock"
          BY <4>1 DEF Held, Running
        <4>3. QED  BY <1>1, <2>1, <3>2, <4>1, <4>2 DEF LineBacked
      <3>3. QED  BY <3>1, <3>2 DEF JournalInv, TypeOK
    <2>3. QED  BY <1>2, <2>2 DEF Recovered
  <1>3. CASE UndoSlots(a) # {}
    <2> DEFINE s == LastSlot(UndoSlots(a))
               f == FirstEntry(s, a)
    <2>1. s \in UndoSlots(a) /\ s \in Slots  BY <1>1, <1>3, LastSlotIs
    <2>2. PICK t \in Threads : pc[t] \in {"run", "undo"} /\ a \in logged[t] /\ s = slot[t]
      BY <2>1 DEF Undoing
    <2>3. Recovered[a] = pjrn[s][f].old  BY <1>3 DEF Recovered
    <2>4. \E i \in ValidEntries(phdr[s], pjrn[s]) : pjrn[s][i].addr = a
      BY <2>1 DEF UndoSlots
    <2> HIDE DEF s
    <2>5. /\ f \in 1 .. JSize /\ pjrn[s][f].addr = a
          /\ \A k \in 1 .. (f - 1) : pjrn[s][k].addr # a
      BY <1>1, <2>1, <2>4, FirstEntryIs
    <2> HIDE DEF f
    <2>6. a \in logged[t]  BY <2>2
    <2>7. PICK i \in 1 .. JSize :
            /\ pjrn[s][i].addr = a
            /\ \A k \in 1 .. (i - 1) : pjrn[s][k].addr # a
            /\ pjrn[s][i].old = vstore[a]
      BY <2>2, <2>6, FirstDurable
    <2>8. ~(f < i) /\ ~(i < f)  BY <1>1, <2>5, <2>7
    <2>9. f = i  BY <1>1, <2>5, <2>7, <2>8
    <2>10. QED  BY <2>3, <2>7, <2>9
  <1>4. QED  BY <1>2, <1>3

\* A failure at any moment leaves the committed contents of every line, unless
\* recovery finds an entry for it that is not one of an uncommitted
\* transaction's completed log() calls; for any number of threads and slots,
\* lines that transactions share, either flush instruction and any overlap.
THEOREM CommittedSurvive == Spec => []CommittedSurvives
  <1>1. Init => JournalInv /\ VisibleInv /\ BackedInv
    BY JournalInit, VisibleInit, BackedInit
  <1>2. JournalInv /\ VisibleInv /\ BackedInv /\ [Next]_vars
        => (JournalInv /\ VisibleInv /\ BackedInv)'
    BY JournalNext, VisibleNext, BackedNext
  <1>3. QED  BY <1>1, <1>2, CommittedHolds, PTL DEF Spec

-----------------------------------------------------------------------------
(***************************************************************************)
(* Durability: a power failure leaves the completed transactions, each in  *)
(* full, and nothing of the others, under what the runs of the journal     *)
(* show to be needed: the header of a new transaction is durable before    *)
(* its journal (OrderedFlush), transactions are started one at a time      *)
(* (SerialBegin), and two transactions that recovery may both have to undo *)
(* do not share lines, either because threads do not or because there is   *)
(* only one slot (Separate).                                               *)
(***************************************************************************)
Separate ==
  \/ \A t, u \in Threads : t # u => Footprint[t] \cap Footprint[u] = {}
  \/ Slots = {0}

\* A failure now would undo t's transaction.
Live(t) == pc[t] \in Held \cup {"free"} /\ phdr[slot[t]] = HeaderOf(t)

\* Entry i of t's extent was written by t's transaction.
Stamped(t, i) == jrn[slot[t]][i].id = id[t]

\* A failure now would make recover() undo line a with entry i of slot s.
Undoes(s, i, a) ==
  phdr[s].active /\ i \in ValidEntries(phdr[s], pjrn[s]) /\ pjrn[s][i].addr = a

\* Ids grow: from the entries of an extent to its headers to the counter.
IdsGrow ==
  /\ \A s \in Slots, i \in 1 .. JSize : jrn[s][i].id <= phdr[s].id /\ pjrn[s][i].id <= phdr[s].id
  /\ \A s \in Slots : phdr[s].id <= hdr[s].id
  /\ mode = "up" => \A s \in Slots : hdr[s].id <= cur_tx_id
  /\ mode = "recover" => \A s \in Slots : s < at => hdr[s].id <= max_tx_id
  /\ \A t \in Threads : pc[t] # "out" => id[t] <= cur_tx_id
  /\ \A t \in Threads : pc[t] = "begin" =>
       id[t] = cur_tx_id /\ \A s \in Slots : hdr[s].id < id[t]

\* No two transactions have one id, and no two are being started.
IdsApart ==
  \A t, u \in Threads : t # u =>
    /\ pc[t] # "out" /\ pc[u] # "out" => id[t] # id[u]
    /\ pc[t] \in {"begin", "claimed"} => pc[u] \notin {"begin", "claimed"}

\* An ACTIVE header has its transaction, a transaction its ACTIVE header.
Holders ==
  /\ mode = "up" => \A s \in Slots :
       /\ hdr[s].active => \E t \in Threads : pc[t] \in Held /\ slot[t] = s
       /\ phdr[s].active => \E t \in Threads : Live(t) /\ slot[t] = s
  /\ \A t \in Threads :
       /\ pc[t] \in Held \ {"claimed"} => Live(t)
       /\ pc[t] = "free" /\ ws[t] # NoWrites => Live(t)

\* The extent of a transaction that has not been cleared.
Extent(t) ==
  /\ pc[t] \in Held => \A i \in 1 .. JSize : Stamped(t, i) => i <= jcur[t]
  /\ pc[t] \in Held \/ Live(t) => \A i \in 1 .. JSize :
       /\ pjrn[slot[t]][i].id = id[t] => pjrn[slot[t]][i] = jrn[slot[t]][i]
       /\ Stamped(t, i) => jrn[slot[t]][i].addr \in Footprint[t]
  /\ pc[t] = "stamp" => jrn[slot[t]][jcur[t] + 1].addr \in Footprint[t]
  /\ pc[t] = "free" /\ Live(t) => \A i \in 1 .. JSize : Stamped(t, i) =>
       /\ pjrn[slot[t]][i] = jrn[slot[t]][i]
       /\ \A k \in 1 .. i : Stamped(t, k)

\* The first entry of a line holds what is in the store.
OldsBacked(t) ==
  Live(t) => \A i \in 1 .. JSize :
    (Stamped(t, i) \/ (pc[t] = "stamp" /\ i = jcur[t] + 1)) /\ FirstAt(slot[t], i)
    => jrn[slot[t]][i].old = store[jrn[slot[t]][i].addr]

\* A line with an entry holds what is in the store or the transaction's own
\* write; it is durable once commit() or rollback() has returned.
LinesBacked(t) ==
  Live(t) => \A i \in 1 .. JSize : \A a \in Addr : Stamped(t, i) /\ jrn[slot[t]][i].addr = a =>
    /\ pc[t] \in Running \cup {"unlock", "free"} =>
         mem[a] = IF ws[t][a] = None THEN store[a] ELSE ws[t][a]
    /\ pc[t] = "undo" /\ (\A k \in 1 .. todo[t] : jrn[slot[t]][k].addr # a) => mem[a] = store[a]
    /\ pc[t] \in {"unlock", "free"} => pm[a] = mem[a]

\* A write that is not in the store yet has its entry.
WritesBacked(t) ==
  \A a \in Addr : ws[t][a] # None =>
    \E i \in 1 .. JSize : Stamped(t, i) /\ jrn[slot[t]][i].addr = a

Tracked(t) == Extent(t) /\ OldsBacked(t) /\ LinesBacked(t) /\ WritesBacked(t)

\* Locks are taken on lines of the footprint.
OwnFootprint == \A a \in Addr, t \in Threads : owner[a] = t => a \in Footprint[t]

\* A line that recovery would not touch is in the store as it is.
Settled ==
  \A a \in Addr : (\A s \in Slots, i \in 1 .. JSize : ~Undoes(s, i, a)) =>
    mem[a] = store[a] /\ pm[a] = store[a]

\* While recover() runs, each line is undone from one slot, from the store; the
\* slots it has passed are undone durably, with or without a durable header.
Restoring ==
  mode = "recover" =>
    /\ jrn = pjrn
    /\ \A s \in Slots :
         IF s < at THEN hdr[s] = [id |-> phdr[s].id, active |-> FALSE] ELSE hdr[s] = phdr[s]
    /\ \A s, r \in Slots, i, k \in 1 .. JSize, a \in Addr :
         Undoes(s, i, a) /\ Undoes(r, k, a) => s = r
    /\ \A s \in Slots, i \in 1 .. JSize, a \in Addr : Undoes(s, i, a) =>
         /\ FirstAt(s, i) => jrn[s][i].old = store[a]
         /\ s < at => mem[a] = store[a] /\ pm[a] = store[a]
         /\ s = at /\ left # None /\ (\A k \in 1 .. left : jrn[s][k].addr # a) => mem[a] = store[a]

\* The inductive invariant behind DurableStore, on top of the other two.
DurableInv ==
  /\ IdsGrow /\ IdsApart /\ Holders
  /\ \A t \in Threads : Tracked(t)
  /\ OwnFootprint /\ Settled /\ Restoring

-----------------------------------------------------------------------------
(***************************************************************************)
(* Consequences of the invariants within one state.                        *)
(***************************************************************************)
\* The shapes the proofs below keep needing.
LEMMA Shapes ==
  ASSUME JournalInv
  PROVE  /\ JSize \in Nat /\ Slots \subseteq Nat /\ None \notin Threads \cup Addr \cup Val
         /\ mem \in [Addr -> Val] /\ pm \in [Addr -> Val] /\ store \in [Addr -> Val]
         /\ \A t \in Threads : /\ slot[t] \in Slots /\ id[t] \in Nat
                               /\ jcur[t] \in 0 .. JSize /\ todo[t] \in 0 .. JSize
                               /\ ws[t] \in [Addr -> Val \cup {None}]
         /\ \A s \in Slots : /\ hdr[s].id \in Nat /\ hdr[s].active \in BOOLEAN
                             /\ phdr[s].id \in Nat /\ phdr[s].active \in BOOLEAN
         /\ \A s \in Slots, i \in 1 .. JSize : jrn[s][i].id \in Nat /\ pjrn[s][i].id \in Nat
         /\ cur_tx_id \in Nat /\ max_tx_id \in Nat /\ at \in Nat
  <1>1. Ids \subseteq Nat  BY ConstAssumption DEF Ids
  <1>2. \A s \in Slots : hdr[s] \in Hdr /\ phdr[s] \in Hdr  BY DEF JournalInv, TypeOK
  <1>3. \A s \in Slots : /\ hdr[s].id \in Nat /\ hdr[s].active \in BOOLEAN
                         /\ phdr[s].id \in Nat /\ phdr[s].active \in BOOLEAN
    BY <1>1, <1>2, HeaderFields
  <1>4. \A s \in Slots, i \in 1 .. JSize : jrn[s][i] \in Entry /\ pjrn[s][i] \in Entry
    BY DEF JournalInv, TypeOK
  <1>5. \A s \in Slots, i \in 1 .. JSize : jrn[s][i].id \in Nat /\ pjrn[s][i].id \in Nat
    BY <1>1, <1>4, EntryFields
  <1>6. QED  BY <1>1, <1>3, <1>5, SlotsAssumption, ConstAssumption DEF JournalInv, TypeOK

\* One transaction at most is live in a slot, and the one that holds the slot
\* is the one its header names.
LEMMA OneLive ==
  ASSUME JournalInv, DurableInv, NEW t \in Threads, NEW u \in Threads, Live(t), Live(u),
         slot[t] = slot[u]
  PROVE  t = u
  <1>1. id[t] = id[u]  BY DEF Live, HeaderOf
  <1>2. pc[t] # "out" /\ pc[u] # "out"  BY DEF Live, Held
  <1>3. QED  BY <1>1, <1>2 DEF DurableInv, IdsApart

LEMMA LiveApart ==
  ASSUME JournalInv, DurableInv, Separate, NEW t \in Threads, NEW u \in Threads,
         Live(t), Live(u), t # u
  PROVE  Footprint[t] \cap Footprint[u] = {}
  <1>1. slot[t] # slot[u]  BY OneLive
  <1>2. Slots # {0}  BY <1>1, Shapes
  <1>3. QED  BY <1>2 DEF Separate

\* The header of a slot whose transaction is past its claim is durable, and no
\* transaction that has been cleared is still waiting there.
LEMMA FreedIsLive ==
  ASSUME DurableInv, NEW s \in Slots, NEW u \in Freed(s)
  PROVE  u \in Threads /\ Live(u) /\ slot[u] = s /\ pc[u] = "free" /\ ws[u] # NoWrites
  BY DEF Freed, DurableInv, Holders

LEMMA NothingFreed ==
  ASSUME JournalInv, DurableInv, NEW t \in Threads, Live(t), pc[t] # "free"
  PROVE  Freed(slot[t]) = {}
  <1>1. slot[t] \in Slots  BY Shapes
  <1>2. \A u \in Freed(slot[t]) : u = t  BY <1>1, FreedIsLive, OneLive
  <1>3. QED  BY <1>1, <1>2, FreedIsLive

LEMMA PersistHdrIdle ==
  ASSUME JournalInv, DurableInv, NEW t \in Threads, pc[t] \in Held \ {"claimed"},
         PersistHdr(slot[t])
  PROVE  phdr' = phdr /\ store' = store /\ ws' = ws
  <1>1. Live(t) /\ pc[t] # "free" /\ slot[t] \in Slots
    BY Shapes DEF DurableInv, Holders, Held
  <1>2. Freed(slot[t]) = {}  BY <1>1, NothingFreed
  <1>3. phdr[slot[t]] = hdr[slot[t]]
    BY <1>1 DEF Live, JournalInv, SlotsHeld
  <1>4. phdr \in [Slots -> Hdr] /\ store \in [Addr -> Val]
        /\ ws \in [Threads -> [Addr -> Val \cup {None}]]
    BY DEF JournalInv, TypeOK
  <1>5. phdr' = phdr  BY <1>1, <1>3, <1>4 DEF PersistHdr
  <1>6. store' = store  BY <1>2, <1>4 DEF PersistHdr
  <1>7. ws' = ws  BY <1>2, <1>4 DEF PersistHdr
  <1>8. QED  BY <1>5, <1>6, <1>7

\* An entry recovery would undo is an entry of the live transaction.
LEMMA UndoesStamped ==
  ASSUME JournalInv, DurableInv, mode = "up",
         NEW s \in Slots, NEW i, NEW a, Undoes(s, i, a)
  PROVE  /\ i \in 1 .. JSize
         /\ \E t \in Threads :
              /\ Live(t) /\ slot[t] = s
              /\ \A k \in 1 .. i : k \in 1 .. JSize /\ Stamped(t, k) /\ pjrn[s][k] = jrn[s][k]
              /\ jrn[s][i].addr = a /\ a \in Footprint[t]
  <1>1. /\ i \in 1 .. JSize /\ phdr[s].active /\ pjrn[s][i].addr = a
        /\ \A k \in 1 .. i : pjrn[s][k].id = phdr[s].id
    BY DEF Undoes, ValidEntries
  <1>2. PICK t \in Threads : Live(t) /\ slot[t] = s  BY <1>1 DEF DurableInv, Holders
  <1>3. phdr[s].id = id[t]  BY <1>2 DEF Live, HeaderOf
  <1>4. \A k \in 1 .. i : k \in 1 .. JSize  BY <1>1, Shapes
  <1>5. Extent(t)  BY DEF DurableInv, Tracked
  <1>6. \A k \in 1 .. i : pjrn[s][k] = jrn[s][k]  BY <1>1, <1>2, <1>3, <1>4, <1>5 DEF Extent
  <1>7. \A k \in 1 .. i : Stamped(t, k)  BY <1>1, <1>2, <1>3, <1>6 DEF Stamped
  <1>8. i \in 1 .. i  BY <1>1, Shapes
  <1>9. jrn[s][i].addr = a /\ a \in Footprint[t]
    BY <1>1, <1>2, <1>4, <1>5, <1>6, <1>7, <1>8 DEF Extent
  <1>10. QED  BY <1>1, <1>2, <1>4, <1>6, <1>7, <1>9

\* Whatever recovery would undo, it takes from the store, and from one slot.
LEMMA UndoesStore ==
  ASSUME JournalInv, DurableInv, NEW s \in Slots, NEW i, NEW a \in Addr, Undoes(s, i, a),
         \A k \in 1 .. (i - 1) : pjrn[s][k].addr # a
  PROVE  pjrn[s][i].old = store[a]
  <1>1. i \in 1 .. JSize /\ pjrn[s][i].addr = a /\ JSize \in Nat
    BY Shapes DEF Undoes, ValidEntries
  <1>2. CASE mode = "up"
    <2>1. PICK t \in Threads :
             /\ Live(t) /\ slot[t] = s
             /\ \A k \in 1 .. i : k \in 1 .. JSize /\ Stamped(t, k) /\ pjrn[s][k] = jrn[s][k]
             /\ jrn[s][i].addr = a
      BY <1>2, UndoesStamped
    <2>2. i \in 1 .. i /\ \A k \in 1 .. (i - 1) : k \in 1 .. i  BY <1>1
    <2>3. FirstAt(slot[t], i)  BY <2>1, <2>2 DEF FirstAt
    <2>4. jrn[s][i].old = store[a]
      BY <1>1, <2>1, <2>2, <2>3 DEF DurableInv, Tracked, OldsBacked
    <2>5. QED  BY <2>1, <2>2, <2>4
  <1>3. CASE mode = "recover"
    <2>1. jrn = pjrn  BY <1>3 DEF DurableInv, Restoring
    <2>2. FirstAt(s, i)  BY <1>1, <2>1 DEF FirstAt
    <2>3. QED  BY <1>1, <1>3, <2>1, <2>2 DEF DurableInv, Restoring
  <1>4. QED  BY <1>2, <1>3 DEF JournalInv, TypeOK

LEMMA UndoesApart ==
  ASSUME JournalInv, DurableInv, Separate, NEW s \in Slots, NEW r \in Slots, NEW i, NEW k,
         NEW a \in Addr, Undoes(s, i, a), Undoes(r, k, a)
  PROVE  s = r
  <1>1. i \in 1 .. JSize /\ k \in 1 .. JSize  BY DEF Undoes, ValidEntries
  <1>2. CASE mode = "up"
    <2>1. PICK t \in Threads : Live(t) /\ slot[t] = s /\ a \in Footprint[t]
      BY <1>2, UndoesStamped
    <2>2. PICK u \in Threads : Live(u) /\ slot[u] = r /\ a \in Footprint[u]
      BY <1>2, UndoesStamped
    <2>3. t = u  BY <2>1, <2>2, LiveApart
    <2>4. QED  BY <2>1, <2>2, <2>3
  <1>3. CASE mode = "recover"  BY <1>1, <1>3 DEF DurableInv, Restoring
  <1>4. QED  BY <1>2, <1>3 DEF JournalInv, TypeOK

\* What recovery would leave is the store.
LEMMA DurableHolds ==
  ASSUME JournalInv, DurableInv
  PROVE  DurableStore
  <1>1. ASSUME NEW a \in Addr PROVE Recovered[a] = store[a]
    <2>1. CASE UndoSlots(a) = {}
      <3>1. \A s \in Slots, i \in 1 .. JSize : ~Undoes(s, i, a)
        BY <2>1 DEF UndoSlots, Undoes
      <3>2. pm[a] = store[a]  BY <3>1 DEF DurableInv, Settled
      <3>3. QED  BY <2>1, <3>2 DEF Recovered
    <2>2. CASE UndoSlots(a) # {}
      <3>1. PICK s \in UndoSlots(a) : s = LastSlot(UndoSlots(a))
        BY <2>2, LastSlotIs DEF UndoSlots
      <3>2. /\ s \in Slots /\ phdr[s].active
            /\ \E i \in ValidEntries(phdr[s], pjrn[s]) : pjrn[s][i].addr = a
        BY DEF UndoSlots
      <3>3. PICK f : /\ f = FirstEntry(s, a) /\ f \in ValidEntries(phdr[s], pjrn[s])
                     /\ pjrn[s][f].addr = a /\ \A k \in 1 .. (f - 1) : pjrn[s][k].addr # a
        BY <3>2, FirstEntryIs, Shapes
      <3>4. Undoes(s, f, a)  BY <3>2, <3>3 DEF Undoes
      <3>5. pjrn[s][f].old = store[a]  BY <3>2, <3>3, <3>4, UndoesStore
      <3>6. QED  BY <2>2, <3>1, <3>3, <3>5 DEF Recovered
    <2>3. QED  BY <2>1, <2>2
  <1>2. store \in [Addr -> Val]  BY Shapes
  <1>3. Recovered = [a \in Addr |-> Recovered[a]]  BY DEF Recovered
  <1>4. QED  BY <1>1, <1>2, <1>3 DEF DurableStore

-----------------------------------------------------------------------------
(***************************************************************************)
(* Frames: what a transaction needs of the steps of others.                *)
(***************************************************************************)
\* Only a transaction with an extent has writes outside of the store.
LEMMA WritersHold ==
  ASSUME JournalInv, VisibleInv, DurableInv, NEW u \in Threads, NEW a \in Addr, ws[u][a] # None
  PROVE  Live(u) /\ pc[u] \in Running \cup {"unlock", "free"}
  <1>1. pc[u] \in {"unlock", "free"} \/ pc[u] \in Running
    BY DEF VisibleInv, View, WritesJournalled
  <1>2. ws[u] # NoWrites  BY DEF NoWrites
  <1>3. pc[u] = "free" \/ pc[u] \in Held \ {"claimed"}  BY <1>1 DEF Held, Running
  <1>4. QED  BY <1>1, <1>2, <1>3 DEF DurableInv, Holders

\* A transaction stays tracked if its extent is left alone, or written back,
\* and its lines are left alone, or written back.
LEMMA TrackedFrame ==
  ASSUME JournalInv, VisibleInv, DurableInv, NEW u \in Threads,
         pc'[u] = pc[u] \/ (pc[u] \in {"run", "log"} /\ pc'[u] \in {"run", "log"}),
         slot'[u] = slot[u] /\ id'[u] = id[u],
         jcur'[u] = jcur[u] /\ todo'[u] = todo[u] /\ ws'[u] = ws[u],
         Live(u)' => Live(u),
         pc[u] \in Held \/ Live(u) => \A i \in 1 .. JSize :
           /\ jrn'[slot[u]][i] = jrn[slot[u]][i]
           /\ pjrn'[slot[u]][i] = pjrn[slot[u]][i] \/ pjrn'[slot[u]][i] = jrn[slot[u]][i],
         Live(u)' => \A a \in Footprint[u] :
           /\ store'[a] = store[a] /\ mem'[a] = mem[a]
           /\ pm'[a] = pm[a] \/ pm'[a] = mem[a]
  PROVE  Tracked(u)'
  <1>0. /\ pc'[u] \in Held <=> pc[u] \in Held
        /\ pc'[u] \in Running \cup {"unlock", "free"} => pc[u] \in Running \cup {"unlock", "free"}
        /\ pc'[u] \in {"stamp", "undo", "unlock", "free"} => pc'[u] = pc[u]
    BY DEF Held, Running
  <1>1. Tracked(u) /\ JSize \in Nat /\ jcur[u] \in 0 .. JSize /\ todo[u] \in 0 .. JSize
    BY Shapes DEF DurableInv
  <1>2. pc[u] \in Held \/ Live(u) => \A i \in 1 .. JSize : Stamped(u, i)' <=> Stamped(u, i)
    BY DEF Stamped
  <1>3. pc[u] = "stamp" => jcur[u] + 1 \in 1 .. JSize /\ pc[u] \in Held
    BY NextLine DEF JournalInv, LocalsOK, Held
  <1>4. \A i \in 1 .. JSize : \A k \in 1 .. i : k \in 1 .. JSize  BY <1>1
  <1>5. Extent(u)'
    <2>1. pc[u] \in Held => \A i \in 1 .. JSize : Stamped(u, i)' => i <= jcur[u]
      BY <1>1, <1>2 DEF Tracked, Extent
    <2>2. ASSUME pc[u] \in Held \/ Live(u), NEW i \in 1 .. JSize
          PROVE  /\ pjrn'[slot[u]][i].id = id[u] => pjrn'[slot[u]][i] = jrn'[slot[u]][i]
                 /\ Stamped(u, i)' => jrn'[slot[u]][i].addr \in Footprint[u]
      BY <1>1, <1>2, <2>2 DEF Tracked, Extent
    <2>3. pc[u] = "stamp" => jrn'[slot[u]][jcur[u] + 1].addr \in Footprint[u]
      BY <1>1, <1>3 DEF Tracked, Extent
    <2>4. ASSUME pc[u] = "free", Live(u), NEW i \in 1 .. JSize, Stamped(u, i)'
          PROVE  pjrn'[slot[u]][i] = jrn'[slot[u]][i] /\ \A k \in 1 .. i : Stamped(u, k)'
      BY <1>1, <1>2, <1>4, <2>4 DEF Tracked, Extent
    <2>5. QED  BY <1>0, <2>1, <2>2, <2>3, <2>4 DEF Extent
  <1>6. OldsBacked(u)'
    <2>1. SUFFICES ASSUME Live(u)', NEW i \in 1 .. JSize, FirstAt(slot[u], i)',
                          Stamped(u, i)' \/ (pc[u] = "stamp" /\ i = jcur[u] + 1)
                   PROVE  jrn'[slot[u]][i].old = store'[jrn'[slot[u]][i].addr]
      BY <1>0 DEF OldsBacked
    <2>2. Live(u) /\ (Stamped(u, i) \/ (pc[u] = "stamp" /\ i = jcur[u] + 1))  BY <1>2, <2>1
    <2>3. \A k \in 1 .. (i - 1) : k \in 1 .. JSize  BY <1>1
    <2>4. FirstAt(slot[u], i)  BY <2>1, <2>2, <2>3 DEF FirstAt
    <2>5. jrn[slot[u]][i].old = store[jrn[slot[u]][i].addr]
      BY <1>1, <2>2, <2>4 DEF Tracked, OldsBacked
    <2>6. jrn[slot[u]][i].addr \in Footprint[u]
      BY <1>1, <2>2 DEF Tracked, Extent
    <2>7. QED  BY <2>1, <2>2, <2>5, <2>6
  <1>7. LinesBacked(u)'
    <2>1. SUFFICES ASSUME Live(u)', NEW i \in 1 .. JSize, NEW a \in Addr,
                          Stamped(u, i)', jrn'[slot[u]][i].addr = a
                   PROVE  /\ pc[u] \in Running \cup {"unlock", "free"} =>
                               mem'[a] = IF ws[u][a] = None THEN store'[a] ELSE ws[u][a]
                          /\ pc[u] = "undo" /\ (\A k \in 1 .. todo[u] : jrn'[slot[u]][k].addr # a)
                             => mem'[a] = store'[a]
                          /\ pc[u] \in {"unlock", "free"} => pm'[a] = mem'[a]
      BY <1>0 DEF LinesBacked
    <2>2. Live(u) /\ Stamped(u, i) /\ jrn[slot[u]][i].addr = a  BY <1>2, <2>1
    <2>3. a \in Footprint[u]  BY <1>1, <2>2 DEF Tracked, Extent
    <2>4. \A k \in 1 .. todo[u] : k \in 1 .. JSize  BY <1>1
    <2>5. (\A k \in 1 .. todo[u] : jrn'[slot[u]][k].addr # a)
          => \A k \in 1 .. todo[u] : jrn[slot[u]][k].addr # a
      BY <2>2, <2>4
    <2>6. mem'[a] = mem[a] /\ store'[a] = store[a] /\ (pm'[a] = pm[a] \/ pm'[a] = mem[a])
      BY <2>1, <2>3
    <2>7. QED  BY <1>1, <2>2, <2>5, <2>6 DEF Tracked, LinesBacked
  <1>8. WritesBacked(u)'
    <2>1. SUFFICES ASSUME NEW a \in Addr, ws[u][a] # None
                   PROVE  \E i \in 1 .. JSize : Stamped(u, i)' /\ jrn'[slot[u]][i].addr = a
      BY DEF WritesBacked
    <2>2. Live(u)  BY <2>1, WritersHold
    <2>3. PICK i \in 1 .. JSize : Stamped(u, i) /\ jrn[slot[u]][i].addr = a
      BY <1>1, <2>1 DEF Tracked, WritesBacked
    <2>4. QED  BY <1>2, <2>2, <2>3
  <1>9. QED  BY <1>5, <1>6, <1>7, <1>8 DEF Tracked

\* Nothing is asked of a transaction without extent and writes.
LEMMA TrackedNone ==
  ASSUME NEW u \in Threads, pc'[u] \notin Held, ~Live(u)', \A a \in Addr : ws'[u][a] = None
  PROVE  Tracked(u)'
  <1>1. pc'[u] # "stamp"  BY DEF Held
  <1>2. QED  BY <1>1 DEF Tracked, Extent, OldsBacked, LinesBacked, WritesBacked

\* Lines stay settled if recovery would still undo at least what it would have.
LEMMA SettledFrame ==
  ASSUME DurableInv,
         \A s \in Slots, i \in 1 .. JSize, a \in Addr : Undoes(s, i, a) => Undoes(s, i, a)',
         \A a \in Addr : (\A s \in Slots, i \in 1 .. JSize : ~Undoes(s, i, a)) =>
           mem'[a] = mem[a] /\ store'[a] = store[a] /\ (pm'[a] = pm[a] \/ pm'[a] = mem[a])
  PROVE  Settled'
  <1>1. SUFFICES ASSUME NEW a \in Addr, \A s \in Slots, i \in 1 .. JSize : ~Undoes(s, i, a)'
                 PROVE  mem'[a] = store'[a] /\ pm'[a] = store'[a]
    BY DEF Settled
  <1>2. \A s \in Slots, i \in 1 .. JSize : ~Undoes(s, i, a)  BY <1>1
  <1>3. mem[a] = store[a] /\ pm[a] = store[a]  BY <1>2 DEF DurableInv, Settled
  <1>4. QED  BY <1>2, <1>3

-----------------------------------------------------------------------------
(***************************************************************************)
(* The step at which a transaction takes effect: its slot's header reaches *)
(* persistent memory after free_transaction cleared it, by its own flush,  *)
(* by a write-back, or with the header of the slot's next transaction.     *)
(***************************************************************************)
\* At most one transaction takes effect, all of it.
LEMMA PublishOne ==
  ASSUME JournalInv, DurableInv, NEW s \in Slots, PersistHdr(s), NEW u \in Freed(s)
  PROVE  /\ Freed(s) = {u} /\ store' = Overlay(store, ws[u])
         /\ ws' = [ws EXCEPT ![u] = NoWrites]
  <1>1. \A v \in Freed(s) : v = u  BY FreedIsLive, OneLive
  <1>2. Freed(s) = {u} /\ u \in Threads  BY <1>1, FreedIsLive
  <1>3. ws \in [Threads -> [Addr -> Val \cup {None}]]  BY DEF JournalInv, TypeOK
  <1>4. ws' = [ws EXCEPT ![u] = NoWrites]  BY <1>2, <1>3 DEF PersistHdr
  <1>5. ASSUME NEW a \in Addr PROVE store'[a] = Overlay(store, ws[u])[a]
    <2>1. CASE ws[u][a] # None
      <3>1. (CHOOSE t \in Freed(s) : ws[t][a] # None) = u  BY <1>2, <2>1
      <3>2. store'[a] = ws[u][a]  BY <1>2, <2>1, <3>1 DEF PersistHdr
      <3>3. QED  BY <2>1, <3>2 DEF Overlay
    <2>2. CASE ws[u][a] = None  BY <1>2, <2>2 DEF PersistHdr, Overlay
    <2>3. QED  BY <2>1, <2>2
  <1>6. store' = [a \in Addr |-> store'[a]]  BY DEF PersistHdr
  <1>7. Overlay(store, ws[u]) = [a \in Addr |-> Overlay(store, ws[u])[a]]  BY DEF Overlay
  <1>8. QED  BY <1>2, <1>4, <1>5, <1>6, <1>7

LEMMA PublishNone ==
  ASSUME JournalInv, NEW s \in Slots, PersistHdr(s), Freed(s) = {}
  PROVE  store' = store /\ ws' = ws
  <1>1. ws \in [Threads -> [Addr -> Val \cup {None}]] /\ store \in [Addr -> Val]
    BY DEF JournalInv, TypeOK
  <1>2. QED  BY <1>1 DEF PersistHdr

\* A slot's ACTIVE header belongs to the transaction that holds the slot; that
\* of a cleared transaction is gone.
LEMMA HolderOf ==
  ASSUME JournalInv, DurableInv, mode = "up", NEW s \in Slots, hdr[s].active
  PROVE  \E t \in Threads : pc[t] \in Held /\ slot[t] = s /\ hdr[s] = HeaderOf(t)
  BY DEF DurableInv, Holders, JournalInv, SlotsHeld

LEMMA ClearedHeader ==
  ASSUME JournalInv, DurableInv, mode = "up", NEW u \in Threads, pc[u] = "free"
  PROVE  hdr[slot[u]] # HeaderOf(u)
  <1>1. SUFFICES ASSUME hdr[slot[u]] = HeaderOf(u) PROVE FALSE  OBVIOUS
  <1>2. hdr[slot[u]].active /\ slot[u] \in Slots  BY <1>1, Shapes DEF HeaderOf
  <1>3. PICK t \in Threads : pc[t] \in Held /\ hdr[slot[u]] = HeaderOf(t)  BY <1>2, HolderOf
  <1>4. id[t] = id[u]  BY <1>1, <1>3 DEF HeaderOf
  <1>5. t = u  BY <1>3, <1>4 DEF DurableInv, IdsApart, Held
  <1>6. QED  BY <1>3, <1>5 DEF Held

LEMMA Publish ==
  ASSUME JournalInv, VisibleInv, DurableInv, Separate, mode = "up", NEW s \in Slots, PersistHdr(s),
         UNCHANGED <<data, hdr, cur_tx_id, journal, txLocals, owner, boot>>,
         \A u \in Threads : \/ pc'[u] = pc[u]
                            \/ pc[u] = "claimed" /\ pc'[u] = "run" /\ slot[u] = s
                            \/ pc[u] = "free" /\ pc'[u] = "out" /\ slot[u] = s
  PROVE  DurableInv'
  <1>1. phdr \in [Slots -> Hdr] /\ phdr'[s] = hdr[s] /\ \A r \in Slots : r # s => phdr'[r] = phdr[r]
    BY PersistHdrType DEF JournalInv, TypeOK
  <1>2. \A u \in Threads : slot[u] \in Slots /\ (HeaderOf(u)' = HeaderOf(u))
    BY Shapes DEF HeaderOf
  <1>3. ASSUME NEW u \in Threads, pc[u] \in Held, slot[u] = s PROVE phdr'[s] = HeaderOf(u)
    BY <1>1, <1>3 DEF JournalInv, SlotsHeld
  <1>4. ASSUME NEW u \in Threads, pc[u] = "free", slot[u] = s PROVE phdr'[s] # HeaderOf(u)
    BY <1>1, <1>4, ClearedHeader
  <1>5. IdsGrow'
    <2>1. phdr[s].id <= hdr[s].id  BY DEF DurableInv, IdsGrow
    <2>2. \A r \in Slots : phdr[r].id <= phdr'[r].id /\ phdr'[r].id \in Nat /\ phdr'[r].id <= hdr[r].id
      BY <1>1, <2>1, Shapes DEF DurableInv, IdsGrow
    <2>3. \A r \in Slots, i \in 1 .. JSize : jrn[r][i].id <= phdr'[r].id /\ pjrn[r][i].id <= phdr'[r].id
      BY <2>2, Shapes DEF DurableInv, IdsGrow
    <2>4. \A u \in Threads : (pc'[u] # "out" => pc[u] # "out") /\ (pc'[u] = "begin" => pc[u] = "begin")
      OBVIOUS
    <2>5. QED  BY <2>2, <2>3, <2>4 DEF DurableInv, IdsGrow
  <1>6. IdsApart'
    <2>1. \A u \in Threads : /\ pc'[u] # "out" => pc[u] # "out"
                             /\ pc'[u] \in {"begin", "claimed"} => pc[u] \in {"begin", "claimed"}
      OBVIOUS
    <2>2. QED  BY <2>1 DEF DurableInv, IdsApart
  <1>7. \A u \in Threads : pc[u] \in Held <=> pc'[u] \in Held  BY DEF Held
  <1>8. Holders'
    <2>1. ASSUME NEW r \in Slots, hdr[r].active PROVE \E t \in Threads : pc'[t] \in Held /\ slot[t] = r
      BY <1>7, <2>1 DEF DurableInv, Holders
    <2>2. ASSUME NEW r \in Slots, phdr'[r].active
          PROVE  \E t \in Threads : Live(t)' /\ slot[t] = r
      <3>1. CASE r = s
        <4>1. PICK t \in Threads : pc[t] \in Held /\ slot[t] = s  BY <1>1, <2>2, <3>1, HolderOf
        <4>2. QED  BY <1>2, <1>3, <1>7, <3>1, <4>1 DEF Live
      <3>2. CASE r # s
        <4>1. PICK t \in Threads : Live(t) /\ slot[t] = r
          BY <1>1, <2>2, <3>2 DEF DurableInv, Holders
        <4>2. QED  BY <1>1, <1>2, <3>2, <4>1 DEF Live
      <3>3. QED  BY <3>1, <3>2
    <2>3. ASSUME NEW u \in Threads, pc'[u] \in Held \ {"claimed"} PROVE Live(u)'
      <3>1. pc[u] \in Held  BY <1>7, <2>3
      <3>2. CASE slot[u] = s  BY <1>2, <1>3, <2>3, <3>1, <3>2 DEF Live
      <3>3. CASE slot[u] # s
        <4>1. pc'[u] = pc[u]  BY <3>3
        <4>2. Live(u)  BY <2>3, <4>1 DEF DurableInv, Holders
        <4>3. QED  BY <1>1, <1>2, <3>3, <4>1, <4>2 DEF Live
      <3>4. QED  BY <3>2, <3>3
    <2>4. ASSUME NEW u \in Threads, pc'[u] = "free", ws'[u] # NoWrites PROVE Live(u)'
      <3>1. pc[u] = "free"  BY <2>4
      <3>2. u \notin Freed(s) /\ ws[u] # NoWrites  BY <2>4 DEF PersistHdr
      <3>3. slot[u] # s  BY <3>1, <3>2 DEF Freed
      <3>4. Live(u)  BY <3>1, <3>2 DEF DurableInv, Holders
      <3>5. QED  BY <1>1, <1>2, <2>4, <3>1, <3>3, <3>4 DEF Live
    <2>5. QED  BY <2>1, <2>2, <2>3, <2>4 DEF Holders
  <1>9. ASSUME NEW u \in Threads PROVE Tracked(u)'
    <2>1. CASE u \in Freed(s)
      <3>1. pc[u] = "free" /\ slot[u] = s  BY <2>1, FreedIsLive
      <3>2. ~Live(u)'  BY <1>2, <1>4, <3>1 DEF Live
      <3>3. \A a \in Addr : ws'[u][a] = None  BY <2>1 DEF PersistHdr, NoWrites
      <3>4. pc'[u] \notin Held  BY <1>7, <3>1 DEF Held
      <3>5. QED  BY <3>2, <3>3, <3>4, TrackedNone
    <2>2. CASE u \notin Freed(s) /\ pc'[u] = "out"
      <3>1. \A a \in Addr : ws'[u][a] = None
        <4>1. ws'[u] = ws[u]  BY <2>2 DEF PersistHdr
        <4>2. CASE pc[u] = "free" /\ slot[u] = s  BY <2>2, <4>1, <4>2 DEF Freed, NoWrites
        <4>3. CASE pc[u] = "out"
          BY <4>1, <4>3, WritersHold DEF Running
        <4>4. QED  BY <2>2, <4>2, <4>3
      <3>2. pc'[u] \notin Held /\ ~Live(u)'  BY <2>2 DEF Held, Live
      <3>3. QED  BY <3>1, <3>2, TrackedNone
    <2>3. CASE u \notin Freed(s) /\ pc[u] = "claimed"
      <3>1. jcur[u] = 0 /\ pc[u] \in Held /\ pc'[u] \in {"claimed", "run"} /\ JSize \in Nat
        BY <2>3, Shapes DEF JournalInv, LocalsOK, Held
      <3>2. \A i \in 1 .. JSize : ~Stamped(u, i)
        BY <3>1 DEF DurableInv, Tracked, Extent
      <3>3. \A i \in 1 .. JSize : ~Stamped(u, i)'  BY <3>2 DEF Stamped
      <3>4. Extent(u)'
        <4>1. \A i \in 1 .. JSize : pjrn[slot[u]][i].id = id[u] => pjrn[slot[u]][i] = jrn[slot[u]][i]
          BY <3>1 DEF DurableInv, Tracked, Extent
        <4>2. QED  BY <3>1, <3>3, <4>1 DEF Extent
      <3>5. \A a \in Addr : ws'[u][a] = None
        BY <2>3, WritersHold DEF PersistHdr, Running
      <3>6. QED  BY <3>1, <3>3, <3>4, <3>5 DEF Tracked, OldsBacked, LinesBacked, WritesBacked
    <2>4. CASE u \notin Freed(s) /\ pc[u] # "claimed" /\ pc'[u] # "out"
      <3>1. pc'[u] = pc[u] /\ ws'[u] = ws[u]  BY <2>4 DEF PersistHdr
      <3>2. Live(u)' => Live(u)
        <4>1. CASE slot[u] # s  BY <1>1, <1>2, <3>1, <4>1 DEF Live
        <4>2. CASE slot[u] = s /\ pc[u] \in Held
          BY <2>4, <4>2 DEF DurableInv, Holders
        <4>3. CASE slot[u] = s /\ pc[u] \notin Held
          BY <1>2, <1>4, <3>1, <4>3 DEF Live
        <4>4. QED  BY <4>1, <4>2, <4>3
      <3>3. ASSUME Live(u)', NEW a \in Footprint[u] PROVE store'[a] = store[a]
        <4>1. a \in Addr /\ store \in [Addr -> Val]  BY ConstAssumption, Shapes
        <4>2. CASE Freed(s) = {}  BY <4>2, PublishNone
        <4>3. ASSUME NEW v \in Freed(s) PROVE store'[a] = store[a]
          <5>1. v \in Threads /\ Live(v) /\ v # u  BY <2>4, FreedIsLive
          <5>2. a \notin Footprint[v]  BY <3>2, <3>3, <5>1, LiveApart
          <5>3. ws[v][a] = None
            BY <4>1, <5>1, <5>2 DEF DurableInv, Tracked, WritesBacked, Extent
          <5>4. store' = Overlay(store, ws[v])  BY PublishOne
          <5>5. QED  BY <4>1, <5>3, <5>4 DEF Overlay
        <4>4. QED  BY <4>2, <4>3
      <3>4. QED  BY <3>1, <3>2, <3>3, TrackedFrame
    <2>5. QED  BY <2>1, <2>2, <2>3, <2>4
  <1>10. Settled'
    <2>1. SUFFICES ASSUME NEW a \in Addr, \A r \in Slots, i \in 1 .. JSize : ~Undoes(r, i, a)'
                   PROVE  mem[a] = store'[a] /\ pm[a] = store'[a]
      BY DEF Settled
    <2>2. CASE \A r \in Slots, i \in 1 .. JSize : ~Undoes(r, i, a)
      <3>1. mem[a] = store[a] /\ pm[a] = store[a]  BY <2>2 DEF DurableInv, Settled
      <3>2. ASSUME NEW v \in Freed(s) PROVE store'[a] = store[a]
        <4>1. v \in Threads /\ Live(v) /\ pc[v] = "free" /\ slot[v] = s  BY FreedIsLive
        <4>2. store' = Overlay(store, ws[v])  BY PublishOne
        <4>3. ASSUME ws[v][a] # None PROVE FALSE
          <5>1. PICK i \in 1 .. JSize : Stamped(v, i) /\ jrn[s][i].addr = a
            BY <4>1, <4>3 DEF DurableInv, Tracked, WritesBacked
          <5>2. \A k \in 1 .. i : k \in 1 .. JSize /\ Stamped(v, k)
            BY <4>1, <5>1, Shapes DEF DurableInv, Tracked, Extent
          <5>3. \A k \in 1 .. i : pjrn[s][k] = jrn[s][k]
            BY <4>1, <5>2 DEF DurableInv, Tracked, Extent
          <5>4. i \in 1 .. i  BY Shapes
          <5>5. phdr[s].id = id[v] /\ phdr[s].active  BY <4>1 DEF Live, HeaderOf
          <5>6. \A k \in 1 .. i : pjrn[s][k].id = phdr[s].id
            BY <4>1, <5>2, <5>3, <5>5 DEF Stamped
          <5>7. Undoes(s, i, a)  BY <5>1, <5>3, <5>4, <5>5, <5>6 DEF Undoes, ValidEntries
          <5>8. QED  BY <2>2, <5>7
        <4>4. QED  BY <4>2, <4>3 DEF Overlay
      <3>3. Freed(s) = {} => store' = store  BY PublishNone
      <3>4. QED  BY <3>1, <3>2, <3>3
    <2>3. ASSUME NEW r \in Slots, NEW i \in 1 .. JSize, Undoes(r, i, a)
          PROVE  mem[a] = store'[a] /\ pm[a] = store'[a]
      <3>1. r = s /\ phdr'[s] # phdr[s]
        <4>1. phdr'[r] # phdr[r]  BY <2>1, <2>3 DEF Undoes, ValidEntries
        <4>2. QED  BY <1>1, <4>1
      <3>2. PICK w \in Threads :
               /\ Live(w) /\ slot[w] = r
               /\ \A k \in 1 .. i : k \in 1 .. JSize /\ Stamped(w, k)
               /\ jrn[r][i].addr = a
        BY <2>3, UndoesStamped
      <3>3. i \in 1 .. i  BY Shapes
      <3>4. pc[w] = "free"
        <4>1. phdr[s] = HeaderOf(w)  BY <3>1, <3>2 DEF Live
        <4>2. pc[w] \notin Held  BY <1>3, <3>1, <3>2, <4>1
        <4>3. QED  BY <3>2, <4>2 DEF Live
      <3>5. pm[a] = mem[a] /\ mem[a] = IF ws[w][a] = None THEN store[a] ELSE ws[w][a]
        BY <3>2, <3>3, <3>4 DEF DurableInv, Tracked, LinesBacked
      <3>6. CASE w \in Freed(s)
        <4>1. store' = Overlay(store, ws[w])  BY <3>6, PublishOne
        <4>2. QED  BY <3>5, <4>1 DEF Overlay
      <3>7. CASE w \notin Freed(s)
        <4>1. ws[w] = NoWrites  BY <3>1, <3>2, <3>4, <3>7 DEF Freed
        <4>2. \A v \in Freed(s) : v = w  BY <3>1, <3>2, FreedIsLive, OneLive
        <4>3. store' = store  BY <3>7, <4>2, PublishNone
        <4>4. QED  BY <3>5, <4>1, <4>3 DEF NoWrites
      <3>8. QED  BY <3>6, <3>7
    <2>4. QED  BY <2>2, <2>3
  <1>11. OwnFootprint' /\ Restoring'  BY DEF DurableInv, OwnFootprint, Restoring
  <1>12. QED  BY <1>5, <1>6, <1>8, <1>9, <1>10, <1>11 DEF DurableInv

-----------------------------------------------------------------------------
(***************************************************************************)
(* DurableInv is inductive.                                                *)
(***************************************************************************)
\* Steps that leave tables, journal, memory and store alone.
LEMMA Quiet ==
  ASSUME JournalInv, VisibleInv, DurableInv,
         UNCHANGED <<data, phdr, journal, ws, store, jcur, todo>>
  PROVE  /\ Settled'
         /\ \A u \in Threads :
              pc'[u] = pc[u] /\ slot'[u] = slot[u] /\ id'[u] = id[u] => Tracked(u)'
  <1>1. \A s \in Slots, i \in 1 .. JSize, a \in Addr : Undoes(s, i, a)' <=> Undoes(s, i, a)
    BY DEF Undoes, ValidEntries
  <1>2. Settled'  BY <1>1, SettledFrame
  <1>3. ASSUME NEW u \in Threads, pc'[u] = pc[u] /\ slot'[u] = slot[u] /\ id'[u] = id[u]
        PROVE  Tracked(u)'
    <2>1. Live(u)' => Live(u)  BY <1>3 DEF Live, HeaderOf
    <2>2. QED  BY <1>3, <2>1, TrackedFrame
  <1>4. QED  BY <1>2, <1>3

LEMMA DurableBegin ==
  ASSUME JournalInv, VisibleInv, DurableInv, Separate, OrderedFlush, SerialBegin,
         NEW t \in Threads,
         \/ begin_id(t) \/ begin_flush(t) \/ begin_throw(t)
         \/ \E s \in Slots : begin_slot(t, s)
  PROVE  DurableInv'
  <1>1. \A u \in Threads : u # t => pc'[u] = pc[u]
    BY DEF begin_id, begin_slot, begin_flush, begin_throw, JournalInv, TypeOK
  <1>2. CASE begin_id(t)
    <2>1. /\ pc[t] = "out" /\ pc'[t] = "begin" /\ mode = "up"
          /\ \A u \in Threads : pc[u] \notin {"begin", "claimed"}
          /\ cur_tx_id' = cur_tx_id + 1 /\ id'[t] = cur_tx_id + 1
          /\ \A u \in Threads : u # t => id'[u] = id[u]
          /\ UNCHANGED <<data, hdr, phdr, journal, slot, jcur, todo, owner, boot, ws, store>>
      BY <1>2 DEF begin_id, JournalInv, TypeOK
    <2>2. IdsGrow'
      <3>1. \A s \in Slots : hdr[s].id <= cur_tx_id + 1 /\ hdr[s].id < cur_tx_id + 1
        BY <2>1, Shapes DEF DurableInv, IdsGrow
      <3>2. \A u \in Threads : pc'[u] # "out" => id'[u] <= cur_tx_id + 1
        BY <1>1, <2>1, Shapes DEF DurableInv, IdsGrow
      <3>3. \A u \in Threads : pc'[u] = "begin" => u = t  BY <1>1, <2>1
      <3>4. QED  BY <2>1, <3>1, <3>2, <3>3 DEF DurableInv, IdsGrow
    <2>3. IdsApart'
      <3>1. \A u \in Threads : u # t /\ pc[u] # "out" => id[u] # cur_tx_id + 1
        BY Shapes DEF DurableInv, IdsGrow
      <3>2. QED  BY <1>1, <2>1, <3>1 DEF DurableInv, IdsApart
    <2>4. \A u \in Threads : Live(u)' <=> Live(u)
      <3>1. ~Live(t) /\ ~Live(t)'  BY <2>1 DEF Live, Held
      <3>2. ASSUME NEW u \in Threads, u # t PROVE Live(u)' <=> Live(u)
        BY <1>1, <2>1, <3>2 DEF Live, HeaderOf
      <3>3. QED  BY <3>1, <3>2
    <2>5. Holders'
      <3>1. \A u \in Threads : /\ pc'[u] \in Held <=> pc[u] \in Held
                               /\ pc'[u] \in Held \ {"claimed"} => pc[u] \in Held \ {"claimed"}
                               /\ pc'[u] = "free" => pc[u] = "free"
        BY <1>1, <2>1 DEF Held
      <3>2. QED  BY <2>1, <2>4, <3>1 DEF DurableInv, Holders
    <2>6. Tracked(t)'
      <3>1. \A a \in Addr : ws[t][a] = None  BY <2>1, WritersHold DEF Running
      <3>2. QED  BY <2>1, <3>1, TrackedNone DEF Held, Live
    <2>7. Settled' /\ \A u \in Threads : Tracked(u)'  BY <1>1, <2>1, <2>6, Quiet
    <2>8. OwnFootprint' /\ Restoring'  BY <2>1 DEF DurableInv, OwnFootprint, Restoring
    <2>9. QED  BY <2>2, <2>3, <2>5, <2>7, <2>8 DEF DurableInv
  <1>3. ASSUME NEW s \in Slots, begin_slot(t, s) PROVE DurableInv'
    <2>1. /\ pc[t] = "begin" /\ pc'[t] = "claimed" /\ mode = "up" /\ ~hdr[s].active
          /\ hdr'[s] = [id |-> id[t], active |-> TRUE]
          /\ \A r \in Slots : r # s => hdr'[r] = hdr[r]
          /\ slot'[t] = s /\ \A u \in Threads : u # t => slot'[u] = slot[u]
          /\ UNCHANGED <<data, phdr, cur_tx_id, journal, id, jcur, todo, owner, boot, ws, store>>
      BY <1>3 DEF begin_slot, JournalInv, TypeOK
    <2>2. id[t] = cur_tx_id /\ hdr[s].id < id[t] /\ phdr[s].id < id[t]
      BY <2>1, Shapes DEF DurableInv, IdsGrow
    <2>3. \A u \in Threads : u # t => pc[u] \notin {"begin", "claimed"}
      BY <2>1 DEF DurableInv, IdsApart
    <2>4. IdsGrow'
      <3>1. hdr'[s].id = id[t]  BY <2>1
      <3>2. \A r \in Slots : phdr[r].id <= hdr'[r].id /\ hdr'[r].id <= cur_tx_id
        BY <2>1, <2>2, <3>1, Shapes DEF DurableInv, IdsGrow
      <3>3. \A u \in Threads : pc'[u] # "begin" /\ (pc'[u] # "out" => pc[u] # "out")
        BY <1>1, <2>1, <2>3
      <3>4. QED  BY <2>1, <3>2, <3>3 DEF DurableInv, IdsGrow
    <2>5. IdsApart'  BY <1>1, <2>1, <2>3 DEF DurableInv, IdsApart
    <2>6. \A u \in Threads : u # t => (Live(u)' <=> Live(u))
      BY <1>1, <2>1 DEF Live, HeaderOf
    <2>7. ~Live(t) /\ ~Live(t)'
      BY <2>1, <2>2, Shapes DEF Live, HeaderOf, Held
    <2>8. Holders'
      <3>1. \A u \in Threads : u # t => pc'[u] = pc[u]  BY <1>1
      <3>2. "claimed" \in Held /\ pc[t] \notin Held  BY <2>1 DEF Held
      <3>3. ASSUME NEW r \in Slots, hdr'[r].active
            PROVE  \E u \in Threads : pc'[u] \in Held /\ slot'[u] = r
        <4>1. CASE r = s  BY <2>1, <3>2, <4>1
        <4>2. CASE r # s
          <5>1. PICK u \in Threads : pc[u] \in Held /\ slot[u] = r
            BY <2>1, <3>3, <4>2 DEF DurableInv, Holders
          <5>2. QED  BY <2>1, <3>1, <3>2, <5>1
        <4>3. QED  BY <4>1, <4>2
      <3>4. ASSUME NEW r \in Slots, phdr[r].active PROVE \E u \in Threads : Live(u)' /\ slot'[u] = r
        <4>1. PICK u \in Threads : Live(u) /\ slot[u] = r  BY <2>1, <3>4 DEF DurableInv, Holders
        <4>2. u # t  BY <2>7, <4>1
        <4>3. QED  BY <2>1, <2>6, <4>1, <4>2
      <3>5. QED  BY <2>1, <2>6, <3>1, <3>3, <3>4 DEF DurableInv, Holders
    <2>9. Tracked(t)'
      <3>1. ASSUME NEW i \in 1 .. JSize PROVE ~Stamped(t, i)' /\ pjrn[s][i].id # id[t]
        <4>1. jrn[s][i].id <= phdr[s].id /\ pjrn[s][i].id <= phdr[s].id
          BY DEF DurableInv, IdsGrow
        <4>2. QED  BY <2>1, <2>2, <4>1, Shapes DEF Stamped
      <3>2. \A a \in Addr : ws[t][a] = None  BY <2>1, WritersHold DEF Running
      <3>3. QED
        BY <2>1, <2>7, <3>1, <3>2 DEF Tracked, Extent, OldsBacked, LinesBacked, WritesBacked
    <2>10. Settled' /\ \A u \in Threads : Tracked(u)'  BY <1>1, <2>1, <2>9, Quiet
    <2>11. OwnFootprint' /\ Restoring'  BY <2>1 DEF DurableInv, OwnFootprint, Restoring
    <2>12. QED  BY <2>4, <2>5, <2>8, <2>10, <2>11 DEF DurableInv
  <1>4. CASE begin_flush(t)
    <2>1. /\ mode = "up" /\ PersistHdr(slot[t]) /\ slot[t] \in Slots
          /\ pc[t] = "claimed" /\ pc'[t] = "run"
          /\ UNCHANGED <<data, hdr, cur_tx_id, journal, txLocals, owner, boot>>
      BY <1>4 DEF begin_flush, JournalInv, TypeOK
    <2>2. QED  BY <1>1, <2>1, Publish
  <1>5. CASE begin_throw(t)
    <2>1. /\ pc[t] = "begin" /\ pc'[t] = "out" /\ mode = "up"
          /\ UNCHANGED <<data, table, journal, txLocals, owner, boot, history>>
      BY <1>5 DEF begin_throw, JournalInv, TypeOK
    <2>2. \A u \in Threads : /\ pc'[u] \in Held <=> pc[u] \in Held
                             /\ pc'[u] \in Held \ {"claimed"} => pc[u] \in Held \ {"claimed"}
                             /\ pc'[u] = "free" => pc[u] = "free"
                             /\ pc'[u] # "out" => pc[u] # "out" /\ pc'[u] = pc[u]
      BY <1>1, <2>1 DEF Held
    <2>3. IdsGrow' /\ IdsApart'  BY <2>1, <2>2 DEF DurableInv, IdsGrow, IdsApart
    <2>4. \A u \in Threads : Live(u)' <=> Live(u)  BY <1>1, <2>1 DEF Live, HeaderOf, Held
    <2>5. Holders'  BY <2>1, <2>2, <2>4 DEF DurableInv, Holders
    <2>6. Tracked(t)'
      <3>1. \A a \in Addr : ws[t][a] = None  BY <2>1, WritersHold DEF Running
      <3>2. QED  BY <2>1, <3>1, TrackedNone DEF Held, Live
    <2>7. Settled' /\ \A u \in Threads : Tracked(u)'  BY <1>1, <2>1, <2>6, Quiet
    <2>8. OwnFootprint' /\ Restoring'  BY <2>1 DEF DurableInv, OwnFootprint, Restoring
    <2>9. QED  BY <2>3, <2>5, <2>7, <2>8 DEF DurableInv
  <1>6. QED  BY <1>2, <1>3, <1>4, <1>5

\* A step of a transaction between its first barrier and free_transaction.
LEMMA Onward ==
  ASSUME JournalInv, DurableInv, NEW t \in Threads, mode = "up", mode' = "up",
         pc[t] \in Held \ {"claimed"}, pc'[t] \in Held \ {"claimed"},
         \A u \in Threads : u # t => pc'[u] = pc[u] /\ ws'[u] = ws[u],
         UNCHANGED <<hdr, phdr, cur_tx_id, id, slot>>,
         \A s \in Slots, i \in 1 .. JSize : jrn'[s][i].id <= phdr[s].id /\ pjrn'[s][i].id <= phdr[s].id
  PROVE  IdsGrow' /\ IdsApart' /\ Holders' /\ Restoring' /\ \A u \in Threads : Live(u)' <=> Live(u)
  <1>1. \A u \in Threads :
          /\ pc'[u] \in Held <=> pc[u] \in Held
          /\ pc'[u] \in Held \ {"claimed"} <=> pc[u] \in Held \ {"claimed"}
          /\ pc'[u] = "free" => u # t /\ pc[u] = "free"
          /\ pc'[u] # "out" <=> pc[u] # "out"
          /\ pc'[u] \in {"begin", "claimed"} => u # t /\ pc'[u] = pc[u]
          /\ pc'[u] \in Held \cup {"free"} <=> pc[u] \in Held \cup {"free"}
    BY DEF Held
  <1>2. IdsGrow'
    <2>1. \A u \in Threads : pc'[u] = "begin" => pc[u] = "begin"  BY <1>1
    <2>2. QED  BY <1>1, <2>1 DEF DurableInv, IdsGrow
  <1>3. IdsApart'  BY <1>1 DEF DurableInv, IdsApart
  <1>4. \A u \in Threads : Live(u)' <=> Live(u)  BY <1>1 DEF Live, HeaderOf
  <1>5. Holders'  BY <1>1, <1>4 DEF DurableInv, Holders
  <1>6. QED  BY <1>2, <1>3, <1>4, <1>5 DEF Restoring

\* A line that a transaction has journalled is its own, and recovery would undo
\* it once log() has returned.
LEMMA OwnEntry ==
  ASSUME JournalInv, VisibleInv, DurableInv, NEW t \in Threads, NEW i \in 1 .. jcur[t],
         pc[t] \in {"run", "undo"}
  PROVE  /\ i \in 1 .. JSize /\ Stamped(t, i) /\ jrn[slot[t]][i].addr \in Addr
         /\ jrn[slot[t]][i].addr \in Footprint[t]
         /\ Undoes(slot[t], i, jrn[slot[t]][i].addr)
  <1>1. i \in 1 .. JSize /\ jcur[t] > 0 /\ jcur[t] \in Nat /\ JSize \in Nat  BY Shapes
  <1>2. /\ \A k \in 1 .. jcur[t] : jrn[slot[t]][k].id = id[t] /\ jrn[slot[t]][k].addr \in Addr
        /\ phdr[slot[t]] = HeaderOf(t)
        /\ \A k \in 1 .. jcur[t] : pjrn[slot[t]][k] = jrn[slot[t]][k]
    BY <1>1 DEF JournalInv, Journalled, JournalDurable, Held
  <1>3. phdr[slot[t]].id = id[t] /\ phdr[slot[t]].active  BY <1>2 DEF HeaderOf
  <1>4. \A k \in 1 .. i : k \in 1 .. jcur[t]  BY <1>1
  <1>5. \A k \in 1 .. i : pjrn[slot[t]][k].id = phdr[slot[t]].id  BY <1>2, <1>3, <1>4
  <1>6. Undoes(slot[t], i, jrn[slot[t]][i].addr)
    BY <1>1, <1>2, <1>3, <1>5 DEF Undoes, ValidEntries
  <1>7. jrn[slot[t]][i].addr \in Footprint[t]
    BY <1>1, <1>2 DEF DurableInv, Tracked, Extent, Stamped, Held
  <1>8. QED  BY <1>1, <1>2, <1>6, <1>7 DEF Stamped

LEMMA DurableRun ==
  ASSUME JournalInv, VisibleInv, DurableInv, Separate,
         NEW t \in Threads, NEW a \in Addr, NEW v \in Val,
         lock(t, a) \/ unlock(t, a) \/ write(t, a, v)
  PROVE  DurableInv'
  <1>1. /\ mode = "up" /\ mode' = "up" /\ pc' = pc /\ pc[t] \in Held \ {"claimed"}
        /\ UNCHANGED <<pm, table, journal, txLocals, store>>
        /\ \A u \in Threads : u # t => ws'[u] = ws[u]
    BY DEF lock, unlock, write, JournalInv, TypeOK, Held
  <1>2. /\ IdsGrow' /\ IdsApart' /\ Holders' /\ Restoring'
        /\ \A u \in Threads : Live(u)' <=> Live(u)
    BY <1>1, Onward DEF DurableInv, IdsGrow
  <1>3. CASE lock(t, a) \/ unlock(t, a)
    <2>1. UNCHANGED <<data, ws>>  BY <1>3 DEF lock, unlock
    <2>2. Settled' /\ \A u \in Threads : Tracked(u)'  BY <1>1, <2>1, Quiet
    <2>3. OwnFootprint'
      <3>1. \A b \in Addr : owner'[b] = owner[b] \/ owner'[b] = None \/ (owner'[b] = t /\ b \in Footprint[t])
        BY <1>3 DEF lock, unlock, JournalInv, TypeOK
      <3>2. None \notin Threads  BY ConstAssumption
      <3>3. QED  BY <3>1, <3>2 DEF DurableInv, OwnFootprint
    <2>4. QED  BY <1>2, <2>2, <2>3 DEF DurableInv
  <1>4. CASE write(t, a, v)
    <2>1. /\ pc[t] = "run" /\ a \in logged[t] /\ owner' = owner
          /\ mem'[a] = v /\ \A b \in Addr : b # a => mem'[b] = mem[b]
          /\ ws'[t][a] = v /\ \A b \in Addr : b # a => ws'[t][b] = ws[t][b]
      BY <1>4 DEF write, JournalInv, TypeOK
    <2>2. PICK i \in 1 .. jcur[t] : jrn[slot[t]][i].addr = a
      BY <2>1 DEF JournalInv, Journalled, Held
    <2>3. /\ i \in 1 .. JSize /\ Stamped(t, i) /\ a \in Footprint[t] /\ Undoes(slot[t], i, a)
      BY <2>1, <2>2, OwnEntry
    <2>4. Live(t) /\ Tracked(t) /\ slot[t] \in Slots /\ v # None
      BY <1>1, Shapes DEF DurableInv, Holders
    <2>5. \A s \in Slots, k \in 1 .. JSize, b \in Addr : Undoes(s, k, b)' <=> Undoes(s, k, b)
      BY <1>1 DEF Undoes, ValidEntries
    <2>6. Settled'  BY <1>1, <2>1, <2>3, <2>4, <2>5, SettledFrame
    <2>7. ASSUME NEW u \in Threads, u # t PROVE Tracked(u)'
      <3>1. Live(u) => a \notin Footprint[u]  BY <2>3, <2>4, <2>7, LiveApart
      <3>2. Footprint[u] \subseteq Addr  BY ConstAssumption
      <3>3. QED  BY <1>1, <1>2, <2>1, <2>7, <3>1, <3>2, TrackedFrame
    <2>8. Tracked(t)'
      <3>1. \A k \in 1 .. JSize : Stamped(t, k)' <=> Stamped(t, k)  BY <1>1 DEF Stamped
      <3>2. Extent(t)'  BY <1>1, <1>2, <2>1, <2>4, <3>1 DEF Tracked, Extent
      <3>3. OldsBacked(t)'
        BY <1>1, <1>2, <2>4, <3>1 DEF Tracked, OldsBacked, FirstAt
      <3>4. LinesBacked(t)'
        BY <1>1, <1>2, <2>1, <2>4, <3>1 DEF Tracked, LinesBacked, Running
      <3>5. WritesBacked(t)'
        BY <1>1, <2>1, <2>2, <2>3, <2>4, <3>1 DEF Tracked, WritesBacked
      <3>6. QED  BY <3>2, <3>3, <3>4, <3>5 DEF Tracked
    <2>9. OwnFootprint'  BY <2>1 DEF DurableInv, OwnFootprint
    <2>10. QED  BY <1>2, <2>6, <2>7, <2>8, <2>9 DEF DurableInv
  <1>5. QED  BY <1>3, <1>4

\* No other transaction looks at the extent of one that is running.
LEMMA OwnExtent ==
  ASSUME JournalInv, DurableInv, NEW t \in Threads, pc[t] \in Held \ {"claimed"},
         NEW u \in Threads, u # t, pc[u] \in Held \/ Live(u)
  PROVE  slot[u] # slot[t]
  <1>1. Live(t)  BY DEF DurableInv, Holders
  <1>2. CASE pc[u] \in Held  BY <1>2 DEF JournalInv, SlotsHeld
  <1>3. CASE Live(u)  BY <1>1, <1>3, OneLive
  <1>4. QED  BY <1>2, <1>3

\* A locked line without an entry is what the store says.
LEMMA LineSettled ==
  ASSUME JournalInv, VisibleInv, DurableInv, Separate, mode = "up",
         NEW t \in Threads, pc[t] \in Held \ {"claimed"}, NEW a \in Addr, owner[a] = t,
         \A k \in 1 .. jcur[t] : jrn[slot[t]][k].addr # a
  PROVE  mem[a] = store[a]
  <1>1. Live(t) /\ a \in Footprint[t]  BY DEF DurableInv, Holders, OwnFootprint
  <1>2. ASSUME NEW s \in Slots, NEW i \in 1 .. JSize, Undoes(s, i, a) PROVE FALSE
    <2>1. PICK u \in Threads :
             /\ Live(u) /\ slot[u] = s /\ \A k \in 1 .. i : Stamped(u, k)
             /\ jrn[s][i].addr = a /\ a \in Footprint[u]
      BY <1>2, UndoesStamped
    <2>2. u = t  BY <1>1, <2>1, LiveApart
    <2>3. i \in 1 .. i /\ jcur[t] \in Nat  BY Shapes
    <2>4. i <= jcur[t]  BY <2>1, <2>2, <2>3 DEF DurableInv, Tracked, Extent
    <2>5. i \in 1 .. jcur[t]  BY <2>3, <2>4
    <2>6. QED  BY <2>1, <2>2, <2>5
  <1>3. QED  BY <1>2 DEF DurableInv, Settled

\* Journal write-backs do not take away what recovery would undo.
LEMMA JournalKept ==
  ASSUME JournalInv, DurableInv, mode = "up", phdr' = phdr,
         \A s \in Slots, i \in 1 .. JSize : pjrn'[s][i] = pjrn[s][i] \/ pjrn'[s][i] = jrn[s][i]
  PROVE  \A s \in Slots, i \in 1 .. JSize, a \in Addr : Undoes(s, i, a) => Undoes(s, i, a)'
  <1>1. SUFFICES ASSUME NEW s \in Slots, NEW i \in 1 .. JSize, NEW a \in Addr, Undoes(s, i, a)
                 PROVE  Undoes(s, i, a)'
    OBVIOUS
  <1>2. \A k \in 1 .. i : k \in 1 .. JSize /\ pjrn[s][k] = jrn[s][k]  BY <1>1, UndoesStamped
  <1>3. \A k \in 1 .. i : pjrn'[s][k] = pjrn[s][k]  BY <1>2
  <1>4. i \in 1 .. i  BY Shapes
  <1>5. QED  BY <1>1, <1>3, <1>4 DEF Undoes, ValidEntries

LEMMA DurableLog ==
  ASSUME JournalInv, VisibleInv, DurableInv, Separate, NEW t \in Threads,
         \/ \E r \in Ranges : log_begin(t, r)
         \/ log_je_data(t) \/ log_je_stamp(t) \/ log_commit(t)
  PROVE  DurableInv'
  <1>1. /\ mode = "up" /\ mode' = "up" /\ pc[t] \in Running /\ pc'[t] \in Running
        /\ \A u \in Threads : u # t => pc'[u] = pc[u] /\ jcur'[u] = jcur[u]
        /\ UNCHANGED <<data, hdr, cur_tx_id, id, slot, todo, owner>>
    BY DEF log_begin, log_je_data, log_je_stamp, log_commit, JournalInv, TypeOK, Running
  <1>2. /\ pc[t] \in Held \ {"claimed"} /\ pc'[t] \in Held \ {"claimed"} /\ slot[t] \in Slots
        /\ Live(t) /\ Tracked(t)
    BY <1>1, Shapes DEF Held, Running, DurableInv, Holders
  <1>3. phdr' = phdr /\ store' = store /\ ws' = ws
    BY <1>2, PersistHdrIdle DEF log_begin, log_je_data, log_je_stamp, log_commit
  <1>4. OwnFootprint'  BY <1>1 DEF DurableInv, OwnFootprint
  <1>5. CASE (\E r \in Ranges : log_begin(t, r)) \/ log_commit(t)
    <2>1. /\ pc[t] \in {"run", "log"} /\ pc'[t] \in {"run", "log"} /\ jrn' = jrn /\ jcur' = jcur
          /\ \A s \in Slots, i \in 1 .. JSize : pjrn'[s][i] = pjrn[s][i] \/ pjrn'[s][i] = jrn[s][i]
      <3>1. /\ pc[t] \in {"run", "log"} /\ pc'[t] \in {"run", "log"} /\ jrn' = jrn /\ jcur' = jcur
        BY <1>5 DEF log_begin, log_commit, JournalInv, TypeOK
      <3>2. pjrn \in [Slots -> [1 .. JSize -> Entry]]  BY DEF JournalInv, TypeOK
      <3>3. CASE log_commit(t)
        BY <1>2, <3>1, <3>2, <3>3 DEF log_commit
      <3>4. CASE \E r \in Ranges : log_begin(t, r)  BY <3>1, <3>4 DEF log_begin
      <3>5. QED  BY <1>5, <3>3, <3>4
    <2>2. \A s \in Slots, i \in 1 .. JSize : jrn'[s][i].id <= phdr[s].id /\ pjrn'[s][i].id <= phdr[s].id
      BY <2>1 DEF DurableInv, IdsGrow
    <2>3. /\ IdsGrow' /\ IdsApart' /\ Holders' /\ Restoring'
          /\ \A u \in Threads : Live(u)' <=> Live(u)
      BY <1>1, <1>2, <1>3, <2>2, Onward
    <2>4. Settled'  BY <1>1, <1>3, <2>1, JournalKept, SettledFrame
    <2>5. ASSUME NEW u \in Threads PROVE Tracked(u)'
      <3>1. slot[u] \in Slots  BY Shapes
      <3>2. QED  BY <1>1, <1>3, <2>1, <2>3, <3>1, TrackedFrame
    <2>6. QED  BY <1>4, <2>3, <2>4, <2>5 DEF DurableInv
  <1>6. CASE log_je_data(t) \/ log_je_stamp(t)
    <2>1. PICK s \in Slots, n \in 1 .. JSize, a \in Addr :
             /\ s = slot[t] /\ n = jcur[t] + 1 /\ a = Head(range[t]) /\ jcur[t] \in Nat
             /\ \A k \in 1 .. jcur[t] : k \in 1 .. JSize /\ k # n
             /\ range[t] # <<>> /\ pc[t] \in {"log", "stamp"} /\ pjrn' = pjrn
      <3>1. range[t] # <<>> /\ pc[t] \in {"log", "stamp"} /\ pjrn' = pjrn
        BY <1>6 DEF log_je_data, log_je_stamp, JournalInv, LocalsOK
      <3>2. /\ slot[t] \in Slots /\ jcur[t] + 1 \in 1 .. JSize /\ Head(range[t]) \in Addr
            /\ jcur[t] \in 0 .. JSize /\ JSize \in Nat
        BY <3>1, NextLine, Shapes
      <3>3. \A k \in 1 .. jcur[t] : k \in 1 .. JSize /\ k # jcur[t] + 1  BY <3>2
      <3>4. QED  BY <3>1, <3>2, <3>3
    <2>2. owner[a] = t /\ a \in Footprint[t]
      <3>1. range[t] \in Seq(Addr)  BY DEF JournalInv, TypeOK
      <3>2. a = range[t][1] /\ 1 \in 1 .. Len(range[t])  BY <2>1, <3>1
      <3>3. owner[a] = t  BY <2>1, <3>2 DEF VisibleInv, View, OwnsLines
      <3>4. QED  BY <3>3 DEF DurableInv, OwnFootprint
    <2>3. \A r \in Slots, i \in 1 .. JSize : (r # s \/ i # n) => jrn'[r][i] = jrn[r][i]
      BY <1>6, <2>1, DataEffect, StampEffect
    <2>4. jrn'[s][n].id = jrn[s][n].id \/ jrn'[s][n].id = id[t]
      BY <1>6, <2>1, DataEffect, StampEffect
    <2>5. \A r \in Slots, i \in 1 .. JSize : jrn'[r][i].id <= phdr[r].id /\ pjrn'[r][i].id <= phdr[r].id
      <3>1. id[t] = phdr[s].id  BY <1>2, <2>1 DEF Live, HeaderOf
      <3>2. jrn'[s][n].id <= phdr[s].id
        BY <2>4, <3>1, Shapes DEF DurableInv, IdsGrow
      <3>3. QED  BY <2>1, <2>3, <3>2 DEF DurableInv, IdsGrow
    <2>6. /\ IdsGrow' /\ IdsApart' /\ Holders' /\ Restoring'
          /\ \A u \in Threads : Live(u)' <=> Live(u)
      BY <1>1, <1>2, <1>3, <2>5, Onward
    <2>7. \A r \in Slots, i \in 1 .. JSize, b \in Addr : Undoes(r, i, b)' <=> Undoes(r, i, b)
      BY <1>3, <2>1 DEF Undoes, ValidEntries
    <2>8. Settled'  BY <1>1, <1>3, <2>7, SettledFrame
    <2>9. ASSUME NEW u \in Threads, u # t PROVE Tracked(u)'
      <3>1. slot[u] \in Slots /\ (pc[u] \in Held \/ Live(u) => slot[u] # s)
        BY <1>2, <2>1, <2>9, OwnExtent, Shapes
      <3>2. pc[u] \in Held \/ Live(u) => \A i \in 1 .. JSize : jrn'[slot[u]][i] = jrn[slot[u]][i]
        BY <2>3, <3>1
      <3>3. QED  BY <1>1, <1>3, <2>1, <2>6, <2>9, <3>2, TrackedFrame
    <2>10. ~Stamped(t, n) /\ pjrn[s][n].id # id[t]
      <3>1. ~(n <= jcur[t])  BY <2>1
      <3>2. Extent(t) /\ pc[t] \in Held  BY <1>2 DEF Tracked
      <3>3. ~Stamped(t, n)  BY <3>1, <3>2 DEF Extent
      <3>4. QED  BY <2>1, <3>2, <3>3 DEF Extent, Stamped
    <2>11. \A i \in 1 .. JSize : Stamped(t, i) => i \in 1 .. jcur[t] /\ i # n
      BY <1>2, <2>1, <2>10 DEF Tracked, Extent
    <2>12. \A i \in 1 .. JSize : i # n => (Stamped(t, i)' <=> Stamped(t, i))
      BY <1>1, <2>1, <2>3 DEF Stamped
    <2>13. \A i \in 1 .. n : \A k \in 1 .. (i - 1) : k \in 1 .. jcur[t] /\ k # n /\ k \in 1 .. JSize
      BY <2>1
    <2>14. \A i \in 1 .. n : jrn'[s][i].addr = jrn[s][i].addr => (FirstAt(s, i)' <=> FirstAt(s, i))
      BY <2>3, <2>13 DEF FirstAt
    <2>15. (\A k \in 1 .. jcur[t] : jrn[s][k].addr # a) => mem[a] = store[a]
      BY <1>1, <1>2, <2>1, <2>2, LineSettled
    <2>16. \A i \in 1 .. JSize : i \in 1 .. jcur[t] => i \in 1 .. n  BY <2>1
    <2>17. CASE log_je_data(t)
      <3>1. /\ pc'[t] = "stamp" /\ jcur' = jcur
            /\ jrn'[s][n].id = jrn[s][n].id /\ jrn'[s][n].addr = a /\ jrn'[s][n].old = mem[a]
        <4>1. pc'[t] = "stamp" /\ jcur' = jcur  BY <2>17 DEF log_je_data, JournalInv, TypeOK
        <4>2. QED  BY <2>1, <2>17, <4>1, DataEffect
      <3>2. \A i \in 1 .. JSize : Stamped(t, i)' <=> Stamped(t, i)
        BY <1>1, <2>1, <2>12, <3>1 DEF Stamped
      <3>3. Extent(t)'
        <4>1. \A i \in 1 .. JSize : Stamped(t, i)' => i <= jcur[t] BY <2>1, <2>11, <3>2
        <4>2. ASSUME NEW i \in 1 .. JSize
              PROVE  /\ pjrn[s][i].id = id[t] => pjrn[s][i] = jrn'[s][i]
                     /\ Stamped(t, i)' => jrn'[s][i].addr \in Footprint[t]
          BY <1>2, <2>1, <2>3, <2>10, <2>11, <3>2 DEF Tracked, Extent
        <4>3. QED  BY <1>1, <2>1, <2>2, <3>1, <4>1, <4>2 DEF Extent
      <3>4. OldsBacked(t)'
        <4>1. SUFFICES ASSUME NEW i \in 1 .. JSize, Stamped(t, i)' \/ i = n, FirstAt(s, i)'
                       PROVE  jrn'[s][i].old = store[jrn'[s][i].addr]
          BY <1>1, <1>3, <2>1, <3>1 DEF OldsBacked
        <4>2. CASE i = n
          <5>1. \A k \in 1 .. jcur[t] : jrn[s][k].addr # a
            <6>1. \A k \in 1 .. jcur[t] : k \in 1 .. (n - 1)  BY <2>1
            <6>2. QED  BY <2>1, <2>3, <3>1, <4>1, <4>2, <6>1 DEF FirstAt
          <5>2. QED  BY <2>15, <3>1, <4>2, <5>1
        <4>3. CASE i # n
          <5>1. Stamped(t, i) /\ i \in 1 .. n  BY <2>11, <2>16, <3>2, <4>1, <4>3
          <5>2. jrn'[s][i] = jrn[s][i] /\ FirstAt(s, i)  BY <2>3, <2>14, <4>1, <4>3, <5>1
          <5>3. QED  BY <1>2, <2>1, <5>1, <5>2 DEF Tracked, OldsBacked
        <4>4. QED  BY <4>2, <4>3
      <3>5. LinesBacked(t)'
        BY <1>1, <1>2, <1>3, <2>1, <2>3, <2>11, <3>1, <3>2 DEF Tracked, LinesBacked, Running
      <3>6. WritesBacked(t)'
        BY <1>1, <1>2, <1>3, <2>1, <2>3, <2>11, <3>2 DEF Tracked, WritesBacked
      <3>7. Tracked(t)'  BY <3>3, <3>4, <3>5, <3>6 DEF Tracked
      <3>8. QED  BY <1>4, <2>6, <2>8, <2>9, <3>7 DEF DurableInv
    <2>18. CASE log_je_stamp(t)
      <3>1. /\ pc[t] = "stamp" /\ pc'[t] = "log" /\ jcur'[t] = n
            /\ jrn'[s][n].id = id[t] /\ jrn'[s][n].addr = jrn[s][n].addr
            /\ jrn'[s][n].old = jrn[s][n].old /\ jrn[s][n].addr = a
        <4>1. pc[t] = "stamp" /\ pc'[t] = "log" /\ jcur'[t] = n
          BY <2>1, <2>18 DEF log_je_stamp, JournalInv, TypeOK
        <4>2. jrn[s][n].addr = a  BY <1>2, <2>1, <4>1 DEF JournalInv, Journalled
        <4>3. QED  BY <2>1, <2>18, <4>1, <4>2, StampEffect
      <3>2. Extent(t)'
        <4>1. \A i \in 1 .. JSize : Stamped(t, i)' => i <= n
          BY <2>1, <2>11, <2>12
        <4>2. ASSUME NEW i \in 1 .. JSize
              PROVE  /\ pjrn[s][i].id = id[t] => pjrn[s][i] = jrn'[s][i]
                     /\ Stamped(t, i)' => jrn'[s][i].addr \in Footprint[t]
          BY <1>2, <2>1, <2>2, <2>3, <2>10, <2>12, <3>1 DEF Tracked, Extent
        <4>3. QED  BY <1>1, <2>1, <3>1, <4>1, <4>2 DEF Extent
      <3>3. OldsBacked(t)'
        <4>1. SUFFICES ASSUME NEW i \in 1 .. JSize, Stamped(t, i)', FirstAt(s, i)'
                       PROVE  jrn'[s][i].old = store[jrn'[s][i].addr]
          BY <1>1, <1>3, <2>1, <3>1 DEF OldsBacked
        <4>2. i \in 1 .. n /\ (Stamped(t, i) \/ i = n)
          BY <2>1, <2>11, <2>12, <2>16, <4>1
        <4>3. jrn'[s][i].addr = jrn[s][i].addr /\ jrn'[s][i].old = jrn[s][i].old
          BY <2>3, <3>1
        <4>4. FirstAt(s, i)  BY <2>14, <4>1, <4>2, <4>3
        <4>5. QED  BY <1>2, <2>1, <3>1, <4>2, <4>3, <4>4 DEF Tracked, OldsBacked
      <3>4. LinesBacked(t)'
        <4>1. SUFFICES ASSUME NEW i \in 1 .. JSize, NEW b \in Addr, Stamped(t, i)', jrn'[s][i].addr = b
                       PROVE  mem[b] = IF ws[t][b] = None THEN store[b] ELSE ws[t][b]
          BY <1>1, <1>3, <2>1, <3>1 DEF LinesBacked
        <4>2. \A k \in 1 .. JSize : Stamped(t, k) /\ jrn[s][k].addr = b =>
                 mem[b] = IF ws[t][b] = None THEN store[b] ELSE ws[t][b]
          BY <1>1, <1>2, <2>1 DEF Tracked, LinesBacked
        <4>3. CASE i # n  BY <2>3, <2>12, <4>1, <4>2, <4>3
        <4>4. CASE i = n /\ \E k \in 1 .. jcur[t] : jrn[s][k].addr = a
          <5>1. PICK k \in 1 .. jcur[t] : jrn[s][k].addr = a  BY <4>4
          <5>2. k \in 1 .. JSize /\ Stamped(t, k)
            BY <1>2, <2>1 DEF JournalInv, Journalled, Stamped
          <5>3. QED  BY <3>1, <4>1, <4>2, <4>4, <5>1, <5>2
        <4>5. CASE i = n /\ \A k \in 1 .. jcur[t] : jrn[s][k].addr # a
          <5>1. b = a /\ mem[a] = store[a]  BY <2>15, <3>1, <4>1, <4>5
          <5>2. ws[t][a] = None
            BY <2>1, <3>1, <4>5 DEF VisibleInv, View, WritesJournalled
          <5>3. QED  BY <5>1, <5>2
        <4>6. QED  BY <4>3, <4>4, <4>5
      <3>5. WritesBacked(t)'
        <4>1. SUFFICES ASSUME NEW b \in Addr, ws[t][b] # None
                       PROVE  \E i \in 1 .. JSize : Stamped(t, i)' /\ jrn'[s][i].addr = b
          BY <1>1, <1>3, <2>1 DEF WritesBacked
        <4>2. PICK i \in 1 .. JSize : Stamped(t, i) /\ jrn[s][i].addr = b
          BY <1>2, <2>1, <4>1 DEF Tracked, WritesBacked
        <4>3. QED  BY <2>3, <2>11, <2>12, <4>2
      <3>6. Tracked(t)'  BY <3>2, <3>3, <3>4, <3>5 DEF Tracked
      <3>7. QED  BY <1>4, <2>6, <2>8, <2>9, <3>6 DEF DurableInv
    <2>19. QED  BY <1>6, <2>17, <2>18
  <1>7. QED  BY <1>5, <1>6

LEMMA DurableEnd ==
  ASSUME JournalInv, VisibleInv, DurableInv, Separate, NEW t \in Threads,
         \/ commit(t) \/ abort(t) \/ undo(t) \/ undo_commit(t)
         \/ free_clear(t) \/ free_commit(t)
  PROVE  DurableInv'
  <1>1. /\ mode = "up" /\ mode' = "up" /\ slot[t] \in Slots /\ Tracked(t) /\ JSize \in Nat
        /\ jcur[t] \in 0 .. JSize /\ todo[t] \in 0 .. JSize
        /\ UNCHANGED <<cur_tx_id, id, slot, owner, journal>>
        /\ \A u \in Threads : u # t => pc'[u] = pc[u] /\ jcur'[u] = jcur[u] /\ todo'[u] = todo[u]
    BY Shapes
    DEF commit, abort, undo, undo_commit, free_clear, free_commit, JournalInv, TypeOK, DurableInv
  <1>2. OwnFootprint'  BY <1>1 DEF DurableInv, OwnFootprint
  <1>3. \A i \in 1 .. JSize : Stamped(t, i)' <=> Stamped(t, i)  BY <1>1 DEF Stamped
  <1>4. /\ \A s, i : FirstAt(s, i)' <=> FirstAt(s, i)
        /\ \A s \in Slots, i \in 1 .. JSize : jrn'[s][i].id <= phdr[s].id /\ pjrn'[s][i].id <= phdr[s].id
    BY <1>1 DEF FirstAt, DurableInv, IdsGrow
  <1>5. \A u \in Threads : Footprint[u] \subseteq Addr  BY ConstAssumption
  <1>6. CASE commit(t) \/ undo_commit(t)
    <2>1. /\ pc[t] \in {"run", "undo"} /\ pc'[t] = "unlock" /\ UNCHANGED <<mem, hdr, jcur, todo>>
          /\ PersistData(EntryAddrs(slot[t], jcur[t])) /\ PersistHdr(slot[t])
          /\ pc[t] = "undo" => todo[t] = 0
      BY <1>6 DEF commit, undo_commit, JournalInv, TypeOK
    <2>2. pc[t] \in Held \ {"claimed"} /\ pc'[t] \in Held \ {"claimed"}  BY <2>1 DEF Held
    <2>3. phdr' = phdr /\ store' = store /\ ws' = ws  BY <2>1, <2>2, PersistHdrIdle
    <2>4. /\ IdsGrow' /\ IdsApart' /\ Holders' /\ Restoring'
          /\ \A u \in Threads : Live(u)' <=> Live(u)
      BY <1>1, <1>4, <2>1, <2>2, <2>3, Onward
    <2>5. /\ \A a \in Addr : pm'[a] = pm[a] \/ pm'[a] = mem[a]
          /\ \A a \in Addr, i \in 1 .. jcur[t] : jrn[slot[t]][i].addr = a => pm'[a] = mem[a]
      BY <2>1 DEF PersistData, EntryAddrs
    <2>6. \A s \in Slots, i \in 1 .. JSize, a \in Addr : Undoes(s, i, a)' <=> Undoes(s, i, a)
      BY <1>1, <2>3 DEF Undoes, ValidEntries
    <2>7. Settled'  BY <2>1, <2>3, <2>5, <2>6, SettledFrame
    <2>8. ASSUME NEW u \in Threads, u # t PROVE Tracked(u)'
      BY <1>1, <1>5, <2>1, <2>3, <2>4, <2>5, <2>8, TrackedFrame
    <2>9. Tracked(t)'
      <3>1. \A i \in 1 .. JSize : Stamped(t, i) => i \in 1 .. jcur[t]
        BY <1>1, <2>2 DEF Tracked, Extent
      <3>2. Extent(t)'
        BY <1>1, <1>3, <2>1, <2>2, <2>4 DEF Tracked, Extent
      <3>3. OldsBacked(t)'
        BY <1>1, <1>3, <1>4, <2>1, <2>3, <2>4 DEF Tracked, OldsBacked
      <3>4. LinesBacked(t)'
        <4>1. SUFFICES ASSUME Live(t), NEW i \in 1 .. JSize, NEW a \in Addr,
                              Stamped(t, i), jrn[slot[t]][i].addr = a
                       PROVE  /\ mem[a] = IF ws[t][a] = None THEN store[a] ELSE ws[t][a]
                              /\ pm'[a] = mem[a]
          BY <1>1, <1>3, <2>1, <2>3, <2>4 DEF LinesBacked
        <4>2. pm'[a] = mem[a]  BY <2>5, <3>1, <4>1
        <4>3. CASE pc[t] = "run"
          BY <1>1, <4>1, <4>2, <4>3 DEF Tracked, LinesBacked, Running
        <4>4. CASE pc[t] = "undo"
          <5>1. ws[t][a] = None  BY <4>4, WritersHold DEF Running
          <5>2. \A k \in 1 .. todo[t] : FALSE  BY <2>1, <4>4
          <5>3. mem[a] = store[a]  BY <1>1, <4>1, <4>4, <5>2 DEF Tracked, LinesBacked
          <5>4. QED  BY <4>2, <5>1, <5>3
        <4>5. QED  BY <2>1, <4>3, <4>4
      <3>5. WritesBacked(t)'  BY <1>1, <1>3, <2>3 DEF Tracked, WritesBacked
      <3>6. QED  BY <3>2, <3>3, <3>4, <3>5 DEF Tracked
    <2>10. QED  BY <1>2, <2>4, <2>7, <2>8, <2>9 DEF DurableInv
  <1>7. CASE abort(t)
    <2>1. /\ pc[t] = "run" /\ pc'[t] = "undo" /\ UNCHANGED <<data, hdr, phdr, jcur, store>>
          /\ todo'[t] = jcur[t] /\ ws'[t] = NoWrites
          /\ \A u \in Threads : u # t => ws'[u] = ws[u]
      BY <1>7 DEF abort, JournalInv, TypeOK
    <2>2. pc[t] \in Held \ {"claimed"} /\ pc'[t] \in Held \ {"claimed"}  BY <2>1 DEF Held
    <2>3. /\ IdsGrow' /\ IdsApart' /\ Holders' /\ Restoring'
          /\ \A u \in Threads : Live(u)' <=> Live(u)
      BY <1>1, <1>4, <2>1, <2>2, Onward
    <2>4. \A s \in Slots, i \in 1 .. JSize, a \in Addr : Undoes(s, i, a)' <=> Undoes(s, i, a)
      BY <1>1, <2>1 DEF Undoes, ValidEntries
    <2>5. Settled'  BY <2>1, <2>4, SettledFrame
    <2>6. ASSUME NEW u \in Threads, u # t PROVE Tracked(u)'
      BY <1>1, <2>1, <2>3, <2>6, TrackedFrame
    <2>7. Tracked(t)'
      <3>1. \A i \in 1 .. JSize : Stamped(t, i) => i \in 1 .. jcur[t]
        BY <1>1, <2>2 DEF Tracked, Extent
      <3>2. Extent(t)'
        BY <1>1, <1>3, <2>1, <2>2, <2>3 DEF Tracked, Extent
      <3>3. OldsBacked(t)'
        BY <1>1, <1>3, <1>4, <2>1, <2>3 DEF Tracked, OldsBacked
      <3>4. LinesBacked(t)'
        BY <1>1, <1>3, <2>1, <3>1 DEF LinesBacked, Running
      <3>5. WritesBacked(t)'  BY <2>1 DEF WritesBacked, NoWrites
      <3>6. QED  BY <3>2, <3>3, <3>4, <3>5 DEF Tracked
    <2>8. QED  BY <1>2, <2>3, <2>5, <2>6, <2>7 DEF DurableInv
  <1>8. CASE undo(t)
    <2>1. PICK n \in 1 .. jcur[t], b \in Addr :
             n = todo[t] /\ b = jrn[slot[t]][n].addr /\ pc[t] = "undo"
      <3>1. todo[t] > 0 /\ pc[t] = "undo"  BY <1>8 DEF undo
      <3>2. todo[t] <= jcur[t]  BY <3>1 DEF VisibleInv, View, OwnsLines
      <3>3. todo[t] \in 1 .. jcur[t]  BY <1>1, <3>1, <3>2
      <3>4. jrn[slot[t]][todo[t]].addr \in Addr  BY <3>1, <3>3, OwnEntry
      <3>5. QED  BY <3>1, <3>3, <3>4
    <2>2. /\ n \in 1 .. JSize /\ Stamped(t, n) /\ b \in Addr /\ b \in Footprint[t]
          /\ Undoes(slot[t], n, b)
      BY <2>1, OwnEntry
    <2>3. /\ pc' = pc /\ UNCHANGED <<pm, hdr, phdr, jcur, ws, store>> /\ todo'[t] = n - 1
          /\ mem'[b] = jrn[slot[t]][n].old /\ \A a \in Addr : a # b => mem'[a] = mem[a]
      BY <1>8, <2>1, <2>2 DEF undo, JournalInv, TypeOK
    <2>4. pc[t] \in Held \ {"claimed"} /\ Live(t)  BY <2>1 DEF Held, DurableInv, Holders
    <2>5. /\ IdsGrow' /\ IdsApart' /\ Holders' /\ Restoring'
          /\ \A u \in Threads : Live(u)' <=> Live(u)
      BY <1>1, <1>4, <2>3, <2>4, Onward
    <2>6. \A s \in Slots, i \in 1 .. JSize, a \in Addr : Undoes(s, i, a)' <=> Undoes(s, i, a)
      BY <1>1, <2>3 DEF Undoes, ValidEntries
    <2>7. Settled'  BY <1>1, <2>2, <2>3, <2>6, SettledFrame
    <2>8. ASSUME NEW u \in Threads, u # t PROVE Tracked(u)'
      <3>1. Live(u) => b \notin Footprint[u]  BY <2>2, <2>4, <2>8, LiveApart
      <3>2. QED  BY <1>1, <1>5, <2>3, <2>5, <2>8, <3>1, TrackedFrame
    <2>9. Tracked(t)'
      <3>1. Extent(t)'
        BY <1>1, <1>3, <2>1, <2>3, <2>5 DEF Tracked, Extent
      <3>2. OldsBacked(t)'
        BY <1>1, <1>3, <1>4, <2>3, <2>5 DEF Tracked, OldsBacked
      <3>3. LinesBacked(t)'
        <4>1. SUFFICES ASSUME NEW i \in 1 .. JSize, NEW a \in Addr, Stamped(t, i),
                              jrn[slot[t]][i].addr = a,
                              \A k \in 1 .. (n - 1) : jrn[slot[t]][k].addr # a
                       PROVE  mem'[a] = store[a]
          BY <1>1, <1>3, <2>1, <2>3 DEF LinesBacked, Running
        <4>2. CASE a = b
          <5>1. FirstAt(slot[t], n)  BY <2>1, <4>1, <4>2 DEF FirstAt
          <5>2. jrn[slot[t]][n].old = store[b]
            BY <1>1, <2>1, <2>2, <2>4, <5>1 DEF Tracked, OldsBacked
          <5>3. QED  BY <2>3, <4>2, <5>2
        <4>3. CASE a # b
          <5>1. \A k \in 1 .. n : k \in 1 .. (n - 1) \/ k = n  BY <1>1
          <5>2. \A k \in 1 .. todo[t] : jrn[slot[t]][k].addr # a  BY <2>1, <4>1, <4>3, <5>1
          <5>3. mem[a] = store[a]  BY <1>1, <2>1, <2>4, <4>1, <5>2 DEF Tracked, LinesBacked
          <5>4. QED  BY <2>3, <4>3, <5>3
        <4>4. QED  BY <4>2, <4>3
      <3>4. WritesBacked(t)'  BY <1>1, <1>3, <2>3 DEF Tracked, WritesBacked
      <3>5. QED  BY <3>1, <3>2, <3>3, <3>4 DEF Tracked
    <2>10. QED  BY <1>2, <2>5, <2>7, <2>8, <2>9 DEF DurableInv
  <1>9. CASE free_clear(t)
    <2>1. /\ pc[t] = "unlock" /\ pc'[t] = "free" /\ UNCHANGED <<data, phdr, ws, store, todo>>
          /\ hdr'[slot[t]] = [hdr[slot[t]] EXCEPT !.active = FALSE]
          /\ \A r \in Slots : r # slot[t] => hdr'[r] = hdr[r]
      BY <1>1, <1>9 DEF free_clear, JournalInv, TypeOK
    <2>2. hdr'[slot[t]].id = hdr[slot[t]].id /\ ~hdr'[slot[t]].active
      BY <1>1, <2>1, HeaderFields DEF JournalInv, TypeOK
    <2>3. \A r \in Slots : hdr'[r].id = hdr[r].id  BY <2>1, <2>2
    <2>4. \A u \in Threads : /\ pc'[u] # "out" <=> pc[u] # "out"
                             /\ pc'[u] \in {"begin", "claimed"} => pc'[u] = pc[u]
                             /\ pc'[u] \in Held => u # t /\ pc'[u] = pc[u]
                             /\ pc'[u] \in Held \cup {"free"} <=> pc[u] \in Held \cup {"free"}
      BY <1>1, <2>1 DEF Held
    <2>5. IdsGrow'
      <3>1. \A u \in Threads : pc'[u] = "begin" => pc[u] = "begin"  BY <2>4
      <3>2. QED  BY <1>1, <1>4, <2>1, <2>3, <2>4, <3>1 DEF DurableInv, IdsGrow
    <2>6. IdsApart'  BY <1>1, <2>4 DEF DurableInv, IdsApart
    <2>7. \A u \in Threads : Live(u)' <=> Live(u)  BY <1>1, <2>1, <2>4 DEF Live, HeaderOf
    <2>8. Live(t) /\ pc[t] \in Held  BY <2>1 DEF DurableInv, Holders, Held
    <2>9. Holders'
      <3>1. ASSUME NEW r \in Slots, hdr'[r].active
            PROVE  \E u \in Threads : pc'[u] \in Held /\ slot[u] = r
        <4>1. r # slot[t] /\ hdr[r].active  BY <2>1, <2>2, <3>1
        <4>2. PICK u \in Threads : pc[u] \in Held /\ slot[u] = r
          BY <1>1, <4>1 DEF DurableInv, Holders
        <4>3. QED  BY <1>1, <4>1, <4>2
      <3>2. ASSUME NEW r \in Slots, phdr[r].active PROVE \E u \in Threads : Live(u)' /\ slot[u] = r
        BY <1>1, <2>7, <3>2 DEF DurableInv, Holders
      <3>3. ASSUME NEW u \in Threads, pc'[u] \in Held \ {"claimed"} \/ (pc'[u] = "free" /\ ws[u] # NoWrites)
            PROVE  Live(u)'
        BY <1>1, <2>4, <2>7, <2>8, <3>3 DEF DurableInv, Holders
      <3>4. QED  BY <1>1, <2>1, <3>1, <3>2, <3>3 DEF Holders
    <2>10. \A s \in Slots, i \in 1 .. JSize, a \in Addr : Undoes(s, i, a)' <=> Undoes(s, i, a)
      BY <1>1, <2>1 DEF Undoes, ValidEntries
    <2>11. Settled'  BY <2>1, <2>10, SettledFrame
    <2>12. ASSUME NEW u \in Threads, u # t PROVE Tracked(u)'
      BY <1>1, <2>1, <2>7, <2>12, TrackedFrame
    <2>13. Tracked(t)'
      <3>1. \A i \in 1 .. JSize : Stamped(t, i) => i \in 1 .. jcur[t] /\ jcur[t] > 0
        BY <1>1, <2>8 DEF Tracked, Extent
      <3>2. \A i \in 1 .. jcur[t] : Stamped(t, i)
        BY <2>8 DEF JournalInv, Journalled, Stamped
      <3>3. ASSUME NEW i \in 1 .. JSize, Stamped(t, i)
            PROVE  pjrn[slot[t]][i] = jrn[slot[t]][i] /\ \A k \in 1 .. i : Stamped(t, k)'
        <4>1. i \in 1 .. jcur[t] /\ jcur[t] > 0  BY <3>1, <3>3
        <4>2. \A k \in 1 .. i : k \in 1 .. jcur[t] /\ k \in 1 .. JSize  BY <1>1, <4>1
        <4>3. QED  BY <1>3, <2>1, <3>2, <4>1, <4>2 DEF JournalInv, JournalDurable
      <3>4. Extent(t)'
        <4>1. ASSUME NEW i \in 1 .. JSize
              PROVE  /\ pjrn[slot[t]][i].id = id[t] => pjrn[slot[t]][i] = jrn[slot[t]][i]
                     /\ Stamped(t, i) => jrn[slot[t]][i].addr \in Footprint[t]
          BY <1>1, <2>8 DEF Tracked, Extent
        <4>2. pc'[t] \notin Held /\ pc'[t] # "stamp"  BY <2>1 DEF Held
        <4>3. QED  BY <1>1, <1>3, <3>3, <4>1, <4>2 DEF Extent
      <3>5. OldsBacked(t)'
        BY <1>1, <1>3, <1>4, <2>1, <2>7 DEF Tracked, OldsBacked
      <3>6. LinesBacked(t)'
        BY <1>1, <1>3, <2>1, <2>7 DEF Tracked, LinesBacked
      <3>7. WritesBacked(t)'  BY <1>1, <1>3, <2>1 DEF Tracked, WritesBacked
      <3>8. QED  BY <3>4, <3>5, <3>6, <3>7 DEF Tracked
    <2>14. QED  BY <1>1, <1>2, <2>5, <2>6, <2>9, <2>11, <2>12, <2>13 DEF DurableInv, Restoring
  <1>10. CASE free_commit(t)
    <2>1. /\ pc[t] = "free" /\ pc'[t] = "out" /\ PersistHdr(slot[t])
          /\ UNCHANGED <<data, hdr, cur_tx_id, journal, txLocals, owner, boot>>
      BY <1>10 DEF free_commit, JournalInv, TypeOK
    <2>2. QED  BY <1>1, <2>1, Publish
  <1>11. QED  BY <1>6, <1>7, <1>8, <1>9, <1>10

\* Nothing runs while recover() does.
LEMMA NobodyRuns ==
  ASSUME \A u \in Threads : pc'[u] = "out" /\ \A a \in Addr : ws'[u][a] = None
  PROVE  IdsApart' /\ \A u \in Threads : Tracked(u)'
  <1>1. \A u \in Threads : pc'[u] \notin Held /\ ~Live(u)'  BY DEF Held, Live
  <1>2. QED  BY <1>1, TrackedNone DEF IdsApart

LEMMA RecoverIdle ==
  ASSUME JournalInv, VisibleInv, DurableInv, mode = "recover"
  PROVE  /\ \A u \in Threads : pc[u] = "out" /\ \A a \in Addr : ws[u][a] = None
         /\ \A s \in Slots : Freed(s) = {}
         /\ \A s \in Slots : hdr[s].id = phdr[s].id
  <1>1. \A u \in Threads : pc[u] = "out"  BY DEF JournalInv, LocalsOK
  <1>2. \A u \in Threads : \A a \in Addr : ws[u][a] = None  BY <1>1, WritersHold DEF Running
  <1>3. \A s \in Slots : Freed(s) = {}  BY <1>1 DEF Freed
  <1>4. ASSUME NEW s \in Slots PROVE hdr[s].id = phdr[s].id
    <2>1. hdr[s] = phdr[s] \/ hdr[s] = [id |-> phdr[s].id, active |-> FALSE]
      BY DEF DurableInv, Restoring
    <2>2. QED  BY <2>1
  <1>5. QED  BY <1>1, <1>2, <1>3, <1>4

LEMMA DurableWriteBack ==
  ASSUME JournalInv, VisibleInv, DurableInv, Separate, WriteBack
  PROVE  DurableInv'
  <1>1. ASSUME NEW a \in Addr, PersistData({a}),
               UNCHANGED <<mem, table, journal, pc, txLocals, owner, boot, history>>
        PROVE  DurableInv'
    <2>1. \A b \in Addr : pm'[b] = pm[b] \/ pm'[b] = mem[b]  BY <1>1 DEF PersistData
    <2>2. \A s \in Slots, i \in 1 .. JSize, b \in Addr : Undoes(s, i, b)' <=> Undoes(s, i, b)
      BY <1>1 DEF Undoes, ValidEntries
    <2>3. \A u \in Threads : Live(u)' <=> Live(u)  BY <1>1 DEF Live, HeaderOf
    <2>4. IdsGrow' /\ IdsApart' /\ OwnFootprint'
      BY <1>1 DEF DurableInv, IdsGrow, IdsApart, OwnFootprint
    <2>5. Holders'  BY <1>1, <2>3 DEF DurableInv, Holders
    <2>6. \A u \in Threads : Footprint[u] \subseteq Addr  BY ConstAssumption
    <2>7. ASSUME NEW u \in Threads PROVE Tracked(u)'
      BY <1>1, <2>1, <2>3, <2>6, TrackedFrame
    <2>8. Settled'  BY <1>1, <2>1, <2>2, SettledFrame
    <2>9. Restoring'
      <3>1. SUFFICES ASSUME mode = "recover" PROVE Restoring'  BY <1>1 DEF Restoring
      <3>2. \A s, i : FirstAt(s, i)' <=> FirstAt(s, i)  BY <1>1 DEF FirstAt
      <3>3. Restoring  BY DEF DurableInv
      <3>4. ASSUME NEW s \in Slots, NEW i \in 1 .. JSize, NEW b \in Addr, Undoes(s, i, b)
            PROVE  /\ FirstAt(s, i) => jrn[s][i].old = store[b]
                   /\ s < at => mem[b] = store[b] /\ pm'[b] = store[b]
                   /\ s = at /\ left # None /\ (\A k \in 1 .. left : jrn[s][k].addr # b)
                      => mem[b] = store[b]
        BY <2>1, <3>1, <3>3, <3>4 DEF Restoring
      <3>5. QED  BY <1>1, <2>2, <3>1, <3>2, <3>3, <3>4 DEF Restoring
    <2>10. QED  BY <2>4, <2>5, <2>7, <2>8, <2>9 DEF DurableInv
  <1>2. ASSUME NEW s \in Slots, phdr[s] # hdr[s], PersistHdr(s),
               UNCHANGED <<data, hdr, cur_tx_id, journal, pc, txLocals, owner, boot, vstore>>
        PROVE  DurableInv'
    <2>1. CASE mode = "up"  BY <1>2, <2>1, Publish
    <2>2. CASE mode = "recover"
      <3>1. /\ s < at /\ hdr[s] = [id |-> phdr[s].id, active |-> FALSE] /\ ~hdr[s].active
        BY <1>2, <2>2 DEF DurableInv, Restoring
      <3>2. phdr'[s] = hdr[s] /\ \A r \in Slots : r # s => phdr'[r] = phdr[r]
        BY <1>2, PersistHdrType DEF JournalInv
      <3>3. store' = store /\ ws' = ws  BY <1>2, <2>2, PublishNone, RecoverIdle
      <3>4. \A r \in Slots : phdr'[r].id = phdr[r].id  BY <3>1, <3>2
      <3>5. IdsGrow'  BY <1>2, <3>4 DEF DurableInv, IdsGrow
      <3>6. IdsApart' /\ \A u \in Threads : Tracked(u)'
        BY <1>2, <2>2, <3>3, RecoverIdle, NobodyRuns
      <3>7. Holders'  BY <1>2, <2>2, RecoverIdle DEF Holders, Held
      <3>8. OwnFootprint'  BY <1>2 DEF DurableInv, OwnFootprint
      <3>9. \A r \in Slots, i \in 1 .. JSize, a \in Addr :
               Undoes(r, i, a)' <=> (r # s /\ Undoes(r, i, a))
        BY <1>2, <3>1, <3>2 DEF Undoes, ValidEntries
      <3>10. Settled'
        <4>1. SUFFICES ASSUME NEW a \in Addr, \A r \in Slots, i \in 1 .. JSize : ~Undoes(r, i, a)'
                       PROVE  mem[a] = store[a] /\ pm[a] = store[a]
          BY <1>2, <3>3 DEF Settled
        <4>2. ASSUME NEW r \in Slots, NEW i \in 1 .. JSize, Undoes(r, i, a)
              PROVE  mem[a] = store[a] /\ pm[a] = store[a]
          BY <2>2, <3>1, <3>9, <4>1, <4>2 DEF DurableInv, Restoring
        <4>3. QED  BY <4>2 DEF DurableInv, Settled
      <3>11. Restoring'
        <4>1. \A r, i : FirstAt(r, i)' <=> FirstAt(r, i)  BY <1>2 DEF FirstAt
        <4>2. \A r \in Slots : IF r < at THEN hdr[r] = [id |-> phdr'[r].id, active |-> FALSE]
                               ELSE hdr[r] = phdr'[r]
          BY <2>2, <3>1, <3>2, <3>4 DEF DurableInv, Restoring
        <4>3. QED  BY <1>2, <2>2, <3>3, <3>9, <4>1, <4>2 DEF DurableInv, Restoring
      <3>12. QED  BY <3>5, <3>6, <3>7, <3>8, <3>10, <3>11 DEF DurableInv
    <2>3. QED  BY <2>1, <2>2 DEF JournalInv, TypeOK
  <1>3. ASSUME NEW s \in Slots, NEW i \in 1 .. JSize, pjrn[s][i] # jrn[s][i],
               pjrn' = [pjrn EXCEPT ![s][i] = jrn[s][i]],
               UNCHANGED <<data, table, jrn, pc, txLocals, owner, boot, history>>
        PROVE  DurableInv'
    <2>1. mode = "up"
      BY <1>3 DEF JournalInv, TypeOK, DurableInv, Restoring
    <2>2. \A r \in Slots, k \in 1 .. JSize : pjrn'[r][k] = pjrn[r][k] \/ pjrn'[r][k] = jrn[r][k]
      BY <1>3 DEF JournalInv, TypeOK
    <2>3. \A r \in Slots, k \in 1 .. JSize : pjrn'[r][k].id <= phdr[r].id
      BY <2>2 DEF DurableInv, IdsGrow
    <2>4. \A u \in Threads : Live(u)' <=> Live(u)  BY <1>3 DEF Live, HeaderOf
    <2>5. IdsGrow' /\ IdsApart' /\ OwnFootprint'
      BY <1>3, <2>3 DEF DurableInv, IdsGrow, IdsApart, OwnFootprint
    <2>6. Holders'  BY <1>3, <2>4 DEF DurableInv, Holders
    <2>7. ASSUME NEW u \in Threads PROVE Tracked(u)'
      <3>1. slot[u] \in Slots  BY Shapes
      <3>2. QED  BY <1>3, <2>2, <2>4, <3>1, TrackedFrame
    <2>8. Settled'  BY <1>3, <2>1, <2>2, JournalKept, SettledFrame
    <2>9. Restoring'  BY <1>3, <2>1 DEF Restoring
    <2>10. QED  BY <2>5, <2>6, <2>7, <2>8, <2>9 DEF DurableInv
  <1>4. QED  BY <1>1, <1>2, <1>3 DEF WriteBack

LEMMA DurableCrash ==
  ASSUME JournalInv, VisibleInv, DurableInv, Separate, Crash
  PROVE  DurableInv'
  <1>1. /\ mem' = pm /\ hdr' = phdr /\ jrn' = pjrn /\ mode' = "recover" /\ at' = 0 /\ left' = None
        /\ UNCHANGED <<pm, phdr, pjrn>>
        /\ \A u \in Threads : pc'[u] = "out" /\ \A a \in Addr : ws'[u][a] = None
        /\ \A a \in Addr : owner'[a] = None
    BY DEF Crash, NoWrites
  <1>2. store' = store  BY DurableHolds DEF Crash, DurableStore
  <1>3. \A s \in Slots : s \in Nat /\ phdr[s].id \in Nat /\ ~(s < 0)  BY Shapes
  <1>4. \A s \in Slots, i \in 1 .. JSize, a \in Addr : Undoes(s, i, a)' <=> Undoes(s, i, a)
    BY <1>1 DEF Undoes, ValidEntries
  <1>5. IdsGrow'
    <2>1. \A s \in Slots : phdr[s].id <= phdr[s].id  BY <1>3
    <2>2. \A s \in Slots, i \in 1 .. JSize : pjrn[s][i].id <= phdr[s].id  BY DEF DurableInv, IdsGrow
    <2>3. QED  BY <1>1, <1>3, <2>1, <2>2 DEF IdsGrow
  <1>6. IdsApart' /\ \A u \in Threads : Tracked(u)'  BY <1>1, NobodyRuns
  <1>7. Holders'  BY <1>1 DEF Holders, Held
  <1>8. OwnFootprint'  BY <1>1, ConstAssumption DEF OwnFootprint
  <1>9. Settled'  BY <1>1, <1>2, <1>4 DEF DurableInv, Settled
  <1>10. Restoring'
    <2>1. ASSUME NEW s \in Slots, NEW i \in 1 .. JSize, NEW a \in Addr, Undoes(s, i, a), FirstAt(s, i)'
          PROVE  pjrn[s][i].old = store[a]
      <3>1. \A k \in 1 .. (i - 1) : pjrn[s][k].addr # a
        BY <1>1, <2>1 DEF FirstAt, Undoes
      <3>2. QED  BY <2>1, <3>1, UndoesStore
    <2>2. \A s, r \in Slots, i, k \in 1 .. JSize, a \in Addr :
             Undoes(s, i, a) /\ Undoes(r, k, a) => s = r
      BY UndoesApart
    <2>3. QED  BY <1>1, <1>2, <1>3, <1>4, <2>1, <2>2 DEF Restoring
  <1>11. QED  BY <1>5, <1>6, <1>7, <1>8, <1>9, <1>10 DEF DurableInv

\* The loop of recover() undoes what a failure in the middle of it would have
\* to undo again, and leaves the rest.
LEMMA DurableLoop ==
  ASSUME JournalInv, VisibleInv, DurableInv,
         recover_scan \/ recover_undo \/ recover_clear \/ recover_skip
  PROVE  DurableInv'
  <1>1. /\ mode = "recover" /\ mode' = "recover" /\ at \in Slots
        /\ UNCHANGED <<phdr, cur_tx_id, journal, pc, txLocals, owner, history>>
    <2>1. left = 0 => left # None  BY ConstAssumption
    <2>2. at \in Slots
      BY <2>1 DEF recover_scan, recover_undo, recover_clear, recover_skip, JournalInv, LocalsOK
    <2>3. QED  BY <2>2 DEF recover_scan, recover_undo, recover_clear, recover_skip
  <1>2. /\ JSize \in Nat /\ Slots \subseteq Nat /\ at \in Nat /\ mem \in [Addr -> Val]
        /\ None \notin Nat /\ Restoring /\ jrn = pjrn
        /\ hdr[at] = phdr[at] /\ hdr \in [Slots -> Hdr] /\ hdr[at] \in Hdr
    <2>1. JSize \in Nat /\ Slots \subseteq Nat /\ at \in Nat /\ mem \in [Addr -> Val]  BY Shapes
    <2>2. None \notin Nat /\ Restoring /\ hdr \in [Slots -> Hdr]
      BY ConstAssumption DEF DurableInv, JournalInv, TypeOK
    <2>3. ~(at < at)  BY <2>1
    <2>4. QED  BY <1>1, <2>1, <2>2, <2>3 DEF Restoring
  <1>3. \A s \in Slots, i \in 1 .. JSize, a \in Addr : Undoes(s, i, a)' <=> Undoes(s, i, a)
    BY <1>1 DEF Undoes, ValidEntries
  <1>4. \A s, i : FirstAt(s, i)' <=> FirstAt(s, i)  BY <1>1 DEF FirstAt
  <1>5. IdsApart' /\ \A u \in Threads : Tracked(u)'  BY <1>1, RecoverIdle, NobodyRuns
  <1>6. Holders' /\ OwnFootprint'
    BY <1>1, RecoverIdle DEF DurableInv, Holders, OwnFootprint, Held
  <1>7. ASSUME UNCHANGED <<hdr, at, max_tx_id>> PROVE IdsGrow'
    BY <1>1, <1>7 DEF DurableInv, IdsGrow
  <1>8. ASSUME at' = at + 1, max_tx_id' = MaxOf(hdr[at].id, max_tx_id),
               \A s \in Slots : hdr'[s].id = hdr[s].id
        PROVE  IdsGrow'
    <2>1. /\ hdr[at].id \in Nat /\ max_tx_id \in Nat  BY <1>1, Shapes
    <2>2. max_tx_id' >= hdr[at].id /\ max_tx_id' >= max_tx_id /\ max_tx_id' \in Nat
      BY <1>8, <2>1 DEF MaxOf
    <2>3. ASSUME NEW s \in Slots, s < at' PROVE hdr'[s].id <= max_tx_id'
      <3>1. s \in Nat /\ hdr[s].id \in Nat  BY Shapes
      <3>2. CASE s = at  BY <1>8, <2>2, <3>2
      <3>3. CASE s < at
        <4>1. hdr[s].id <= max_tx_id  BY <1>1, <3>3 DEF DurableInv, IdsGrow
        <4>2. QED  BY <1>8, <2>1, <2>2, <3>1, <4>1
      <3>4. QED  BY <1>2, <1>8, <2>3, <3>1, <3>2, <3>3
    <2>4. QED  BY <1>1, <1>8, <2>3 DEF DurableInv, IdsGrow
  <1>9. ASSUME at' = at + 1, left' = None, mem' = mem,
               hdr'[at] = [id |-> hdr[at].id, active |-> FALSE],
               \A s \in Slots : s # at => hdr'[s] = hdr[s],
               \A a \in Addr : pm'[a] = pm[a] \/ pm'[a] = mem[a],
               \A i \in 1 .. JSize, a \in Addr : Undoes(at, i, a) =>
                 mem[a] = store[a] /\ pm'[a] = store[a]
        PROVE  Settled' /\ Restoring'
    <2>1. Settled'  BY <1>1, <1>3, <1>9, SettledFrame
    <2>2. \A s \in Slots : s < at' <=> (s = at \/ s < at)  BY <1>2, <1>9
    <2>3. \A s \in Slots : IF s < at' THEN hdr'[s] = [id |-> phdr[s].id, active |-> FALSE]
                           ELSE hdr'[s] = phdr[s]
      BY <1>1, <1>2, <1>9, <2>2 DEF Restoring
    <2>4. ASSUME NEW s \in Slots, NEW i \in 1 .. JSize, NEW a \in Addr, Undoes(s, i, a), s < at'
          PROVE  mem[a] = store[a] /\ pm'[a] = store[a]
      <3>1. CASE s = at  BY <1>9, <2>4, <3>1
      <3>2. CASE s < at  BY <1>1, <1>2, <1>9, <2>4, <3>2 DEF Restoring
      <3>3. QED  BY <2>2, <2>4, <3>1, <3>2
    <2>5. QED  BY <1>1, <1>2, <1>3, <1>4, <1>9, <2>1, <2>3, <2>4 DEF Restoring
  <1>10. CASE recover_scan
    <2>1. PICK n \in 0 .. JSize : /\ ValidEntries(hdr[at], jrn[at]) = 1 .. n
                                  /\ Cardinality(ValidEntries(hdr[at], jrn[at])) = n
      BY ValidSegment
    <2>2. /\ left' = n /\ UNCHANGED <<data, hdr, at, max_tx_id>>
      BY <1>10, <2>1 DEF recover_scan
    <2>3. Settled'  BY <1>1, <1>3, <2>2, SettledFrame
    <2>4. ASSUME NEW i \in 1 .. JSize, NEW a \in Addr, Undoes(at, i, a)
          PROVE  \E k \in 1 .. n : jrn[at][k].addr = a
      BY <1>2, <2>1, <2>4 DEF Undoes
    <2>5. Restoring'  BY <1>1, <1>2, <1>3, <1>4, <2>2, <2>4 DEF Restoring
    <2>6. QED  BY <1>5, <1>6, <1>7, <2>2, <2>3, <2>5 DEF DurableInv
  <1>11. CASE recover_undo
    <2>1. /\ left \in 1 .. JSize /\ left' = left - 1 /\ UNCHANGED <<pm, hdr, at, max_tx_id>>
          /\ mem' = [mem EXCEPT ![jrn[at][left].addr] = jrn[at][left].old]
      BY <1>11, ConstAssumption DEF recover_undo, JournalInv, TypeOK
    <2>2. PICK q \in Slots, n \in 1 .. JSize, b \in Addr \cup {None} :
             q = at /\ n = left /\ b = jrn[q][n].addr
      <3>1. at \in Slots  BY <1>1, <2>1
      <3>2. \A r \in Slots, k \in 1 .. JSize : jrn[r][k] \in Entry  BY DEF JournalInv, TypeOK
      <3>3. jrn[at][left].addr \in Addr \cup {None}  BY <2>1, <3>1, <3>2 DEF Entry
      <3>4. QED  BY <2>1, <3>1, <3>3
    <2>3. /\ b \in Addr => mem'[b] = jrn[q][n].old
          /\ \A a \in Addr : a # b => mem'[a] = mem[a]
      BY <1>2, <2>1, <2>2
    <2>4. Undoes(q, n, b)
      <3>1. hdr[q].active /\ 1 .. n \subseteq ValidEntries(hdr[q], jrn[q])
        BY <1>1, <1>2, <2>1, <2>2 DEF VisibleInv, Recovering
      <3>2. n \in 1 .. n  BY <1>2
      <3>3. QED  BY <1>2, <2>2, <3>1, <3>2 DEF Undoes
    <2>5. Settled'  BY <1>1, <1>3, <2>1, <2>3, <2>4, SettledFrame
    <2>6. ASSUME NEW s \in Slots, NEW i \in 1 .. JSize, Undoes(s, i, b), b \in Addr PROVE s = q
      BY <1>1, <1>2, <2>4, <2>6 DEF Restoring
    <2>7. ASSUME NEW i \in 1 .. JSize, NEW a \in Addr, Undoes(q, i, a),
                 \A k \in 1 .. (n - 1) : jrn[q][k].addr # a
          PROVE  mem'[a] = store[a]
      <3>1. CASE a = b
        <4>1. FirstAt(q, n)  BY <2>2, <2>7, <3>1 DEF FirstAt
        <4>2. jrn[q][n].old = store[a]  BY <1>1, <1>2, <2>4, <3>1, <4>1 DEF Restoring
        <4>3. QED  BY <2>3, <3>1, <4>2
      <3>2. CASE a # b
        <4>1. \A k \in 1 .. n : k \in 1 .. (n - 1) \/ k = n  BY <1>2
        <4>2. \A k \in 1 .. n : jrn[q][k].addr # a  BY <2>2, <2>7, <3>2, <4>1
        <4>3. left # None  BY <1>2, <2>1
        <4>4. mem[a] = store[a]  BY <1>1, <1>2, <2>2, <2>7, <4>2, <4>3 DEF Restoring
        <4>5. QED  BY <2>3, <3>2, <4>4
      <3>3. QED  BY <3>1, <3>2
    <2>8. ASSUME NEW s \in Slots, NEW i \in 1 .. JSize, NEW a \in Addr, Undoes(s, i, a), s < at
          PROVE  mem'[a] = store[a] /\ pm[a] = store[a]
      <3>1. s # q  BY <1>2, <2>2, <2>8
      <3>2. a # b  BY <2>6, <2>8, <3>1
      <3>3. QED  BY <1>1, <1>2, <2>3, <2>8, <3>2 DEF Restoring
    <2>9. Restoring'
      BY <1>1, <1>2, <1>3, <1>4, <2>1, <2>2, <2>7, <2>8 DEF Restoring
    <2>10. QED  BY <1>5, <1>6, <1>7, <2>1, <2>5, <2>9 DEF DurableInv
  <1>12. CASE recover_clear
    <2>1. /\ left = 0 /\ left' = None /\ at' = at + 1 /\ mem' = mem
          /\ max_tx_id' = MaxOf(hdr[at].id, max_tx_id)
          /\ hdr' = [hdr EXCEPT ![at].active = FALSE]
          /\ PersistData({jrn[at][i].addr : i \in ValidEntries(hdr[at], jrn[at])})
      BY <1>12 DEF recover_clear
    <2>2. /\ hdr'[at] = [hdr[at] EXCEPT !.active = FALSE]
          /\ \A s \in Slots : s # at => hdr'[s] = hdr[s]
      BY <1>1, <1>2, <2>1
    <2>3. hdr'[at] = [id |-> hdr[at].id, active |-> FALSE]  BY <1>2, <2>2, HeaderFields
    <2>4. \A s \in Slots : hdr'[s].id = hdr[s].id  BY <2>2, <2>3
    <2>5. \A a \in Addr : pm'[a] = pm[a] \/ pm'[a] = mem[a]  BY <2>1 DEF PersistData
    <2>6. ASSUME NEW i \in 1 .. JSize, NEW a \in Addr, Undoes(at, i, a)
          PROVE  mem[a] = store[a] /\ pm'[a] = store[a]
      <3>1. i \in ValidEntries(hdr[at], jrn[at]) /\ jrn[at][i].addr = a
        BY <1>2, <2>6 DEF Undoes
      <3>2. \A k \in 1 .. left : FALSE  BY <2>1
      <3>3. left # None  BY <1>2, <2>1
      <3>4. mem[a] = store[a]  BY <1>1, <1>2, <2>6, <3>2, <3>3 DEF Restoring
      <3>5. pm'[a] = mem[a]  BY <2>1, <3>1 DEF PersistData
      <3>6. QED  BY <3>4, <3>5
    <2>7. Settled' /\ Restoring'  BY <1>9, <2>1, <2>2, <2>3, <2>5, <2>6
    <2>8. QED  BY <1>5, <1>6, <1>8, <2>1, <2>4, <2>7 DEF DurableInv
  <1>13. CASE recover_skip
    <2>1. /\ left' = None /\ at' = at + 1 /\ UNCHANGED <<data, hdr>> /\ ~hdr[at].active
          /\ max_tx_id' = MaxOf(hdr[at].id, max_tx_id)
      BY <1>13 DEF recover_skip
    <2>2. hdr[at].active = FALSE  BY <1>2, <2>1, HeaderFields
    <2>3. hdr'[at] = [id |-> hdr[at].id, active |-> FALSE]  BY <1>2, <2>1, <2>2, HeaderFields
    <2>4. \A i \in 1 .. JSize, a \in Addr : ~Undoes(at, i, a)  BY <1>2, <2>1 DEF Undoes
    <2>5. Settled' /\ Restoring'  BY <1>9, <2>1, <2>3, <2>4
    <2>6. QED  BY <1>5, <1>6, <1>8, <2>1, <2>5 DEF DurableInv
  <1>14. QED  BY <1>10, <1>11, <1>12, <1>13

LEMMA DurableDone ==
  ASSUME JournalInv, VisibleInv, DurableInv, recover_done
  PROVE  DurableInv'
  <1>1. /\ mode = "recover" /\ mode' = "up" /\ at \notin Slots /\ phdr' = hdr /\ cur_tx_id' = max_tx_id
        /\ UNCHANGED <<data, hdr, journal, pc, txLocals, owner, ws, store>>
    BY DEF recover_done
  <1>2. ASSUME NEW s \in Slots PROVE s < at
    <2>1. s \in Nat /\ at \in Nat /\ 0 .. s \subseteq Slots
      BY SlotsAssumption DEF JournalInv, TypeOK
    <2>2. QED  BY <1>1, <2>1
  <1>3. \A s \in Slots : hdr[s] = [id |-> phdr[s].id, active |-> FALSE]
    BY <1>1, <1>2 DEF DurableInv, Restoring
  <1>4. ASSUME NEW s \in Slots PROVE ~hdr[s].active /\ hdr[s].id = phdr[s].id
    <2>1. hdr[s] = [id |-> phdr[s].id, active |-> FALSE]  BY <1>3
    <2>2. QED  BY <2>1
  <1>5. \A u \in Threads : pc[u] = "out" /\ \A a \in Addr : ws[u][a] = None  BY <1>1, RecoverIdle
  <1>6. IdsGrow'
    <2>1. \A s \in Slots : hdr[s].id <= max_tx_id /\ hdr[s].id <= hdr[s].id
      BY <1>1, <1>2, Shapes DEF DurableInv, IdsGrow
    <2>2. \A s \in Slots, i \in 1 .. JSize : jrn[s][i].id <= hdr[s].id /\ pjrn[s][i].id <= hdr[s].id
      BY <1>4 DEF DurableInv, IdsGrow
    <2>3. QED  BY <1>1, <1>5, <2>1, <2>2 DEF IdsGrow
  <1>7. IdsApart' /\ \A u \in Threads : Tracked(u)'  BY <1>1, <1>5, NobodyRuns
  <1>8. Holders'  BY <1>1, <1>4, <1>5 DEF Holders, Held
  <1>9. ASSUME NEW a \in Addr PROVE mem[a] = store[a] /\ pm[a] = store[a]
    <2>1. CASE \A s \in Slots, i \in 1 .. JSize : ~Undoes(s, i, a)
      BY <2>1 DEF DurableInv, Settled
    <2>2. ASSUME NEW s \in Slots, NEW i \in 1 .. JSize, Undoes(s, i, a)
          PROVE  mem[a] = store[a] /\ pm[a] = store[a]
      BY <1>1, <1>2, <2>2 DEF DurableInv, Restoring
    <2>3. QED  BY <2>1, <2>2
  <1>10. Settled' /\ OwnFootprint' /\ Restoring'
    BY <1>1, <1>9 DEF DurableInv, Settled, OwnFootprint, Restoring
  <1>11. QED  BY <1>6, <1>7, <1>8, <1>10 DEF DurableInv

LEMMA DurableInit == Init => DurableInv
  <1> SUFFICES ASSUME Init PROVE DurableInv  OBVIOUS
  <1>1. /\ \A s \in Slots : /\ hdr[s] = [id |-> 0, active |-> FALSE] /\ phdr[s] = hdr[s]
                            /\ hdr[s].id = 0 /\ ~hdr[s].active
        /\ \A s \in Slots, i \in 1 .. JSize : jrn[s][i].id = 0 /\ pjrn[s][i].id = 0
        /\ \A t \in Threads : pc[t] = "out" /\ \A a \in Addr : ws[t][a] = None
        /\ mode = "up" /\ cur_tx_id = 0 /\ mem = store /\ pm = store
        /\ \A a \in Addr : owner[a] = None
    BY DEF Init, NoWrites
  <1>2. IdsGrow /\ IdsApart  BY <1>1 DEF IdsGrow, IdsApart
  <1>3. Holders  BY <1>1 DEF Holders, Held
  <1>4. ASSUME NEW t \in Threads PROVE Tracked(t)
    <2>1. pc[t] \notin Held /\ ~Live(t) /\ pc[t] # "stamp"  BY <1>1 DEF Held, Live
    <2>2. QED  BY <1>1, <2>1 DEF Tracked, Extent, OldsBacked, LinesBacked, WritesBacked
  <1>5. OwnFootprint  BY <1>1, ConstAssumption DEF OwnFootprint
  <1>6. Settled /\ Restoring  BY <1>1 DEF Settled, Restoring
  <1>7. QED  BY <1>2, <1>3, <1>4, <1>5, <1>6 DEF DurableInv

LEMMA DurableNext ==
  ASSUME OrderedFlush, SerialBegin, Separate
  PROVE  JournalInv /\ VisibleInv /\ DurableInv /\ [Next]_vars => DurableInv'
  <1> SUFFICES ASSUME JournalInv, VisibleInv, DurableInv, [Next]_vars PROVE DurableInv'  OBVIOUS
  <1>1. ASSUME NEW t \in Threads, TxStep(t) PROVE DurableInv'
    BY <1>1, DurableBegin, DurableLog, DurableRun, DurableEnd, ConstAssumption DEF TxStep
  <1>2. CASE UNCHANGED vars
    <2>1. UNCHANGED <<data, table, journal, pc, txLocals, owner, boot, history>>  BY <1>2 DEF vars
    <2>2. \A s \in Slots, i \in 1 .. JSize, a \in Addr : Undoes(s, i, a)' <=> Undoes(s, i, a)
      BY <2>1 DEF Undoes, ValidEntries
    <2>3. \A s, i : FirstAt(s, i)' <=> FirstAt(s, i)  BY <2>1 DEF FirstAt
    <2>4. \A u \in Threads : Live(u)' <=> Live(u)  BY <2>1 DEF Live, HeaderOf
    <2>5. IdsGrow' /\ IdsApart' /\ OwnFootprint'
      BY <2>1 DEF DurableInv, IdsGrow, IdsApart, OwnFootprint
    <2>6. Holders'  BY <2>1, <2>4 DEF DurableInv, Holders
    <2>7. Settled' /\ \A u \in Threads : Tracked(u)'  BY <2>1, Quiet
    <2>8. Restoring'  BY <2>1, <2>2, <2>3 DEF DurableInv, Restoring
    <2>9. QED  BY <2>5, <2>6, <2>7, <2>8 DEF DurableInv
  <1>3. CASE Recover  BY <1>3, DurableLoop, DurableDone DEF Recover
  <1>4. QED  BY <1>1, <1>2, <1>3, DurableWriteBack, DurableCrash DEF Next

\* A failure at any moment, recovery included, and whatever the caches have
\* written back, leaves exactly the transactions that have completed: all the
\* writes of every transaction whose destructor has returned after commit(),
\* and nothing of one that runs, has been rolled back or was interrupted.
THEOREM Durability ==
  ASSUME OrderedFlush, SerialBegin, Separate
  PROVE  Spec => []DurableStore
  <1>1. Init => JournalInv /\ VisibleInv /\ DurableInv  BY JournalInit, VisibleInit, DurableInit
  <1>2. JournalInv /\ VisibleInv /\ DurableInv /\ [Next]_vars
        => (JournalInv /\ VisibleInv /\ DurableInv)'
    BY JournalNext, VisibleNext, DurableNext
  <1>3. JournalInv /\ VisibleInv /\ DurableInv => DurableStore  BY DurableHolds
  <1>4. QED  BY <1>1, <1>2, <1>3, PTL DEF Spec

-----------------------------------------------------------------------------
(***************************************************************************)
(* The journal implements the atomic store.  The store is what a failure   *)
(* would leave; write, abort and commit are Put, Abort and Vote, and a     *)
(* transaction commits when its cleared header becomes durable.            *)
(***************************************************************************)
Committing == {t \in Voted : ws[t] # NoWrites}

\* The atomic store does nothing when the variables it is mapped to stay.
LEMMA StoreStutters ==
  ASSUME Recovered' = Recovered, ws' = ws, Committing' = Committing, mode' = mode
  PROVE  UNCHANGED Atomic!asVars
  BY DEF Atomic!asVars, Committing

LEMMA StoreInit ==
  ASSUME Init
  PROVE  Atomic!ASInit
  <1>1. JournalInv /\ DurableInv  BY JournalInit, DurableInit
  <1>2. Recovered = store /\ store \in [Addr -> Val]
    BY <1>1, DurableHolds, Shapes DEF DurableStore
  <1>3. Voted = {}  BY DEF Init, Voted
  <1>4. QED  BY <1>2, <1>3 DEF Init, Atomic!ASInit, Atomic!Nothing, NoWrites

\* The header of a cleared transaction becomes durable: it commits, alone.
LEMMA StorePublish ==
  ASSUME JournalInv, VisibleInv, DurableInv, mode = "up", mode' = mode,
         Recovered = store, Recovered' = store', NEW s \in Slots, PersistHdr(s),
         \A u \in Threads : \/ pc'[u] = pc[u]
                            \/ pc[u] = "claimed" /\ pc'[u] = "run"
                            \/ pc[u] = "free" /\ pc'[u] = "out" /\ slot[u] = s
  PROVE  Atomic!ASNext \/ UNCHANGED Atomic!asVars
  <1>1. ASSUME NEW u \in Freed(s) PROVE Atomic!Commit(u) /\ u \in Threads
    <2>1. /\ u \in Threads /\ pc[u] = "free" /\ ws[u] # NoWrites
          /\ Freed(s) = {u} /\ store' = Overlay(store, ws[u]) /\ ws' = [ws EXCEPT ![u] = NoWrites]
      BY FreedIsLive, PublishOne
    <2>2. ws \in [Threads -> [Addr -> Val \cup {None}]]  BY DEF JournalInv, TypeOK
    <2>3. ws'[u] = NoWrites /\ \A v \in Threads : v # u => ws'[v] = ws[v]  BY <2>1, <2>2
    <2>4. ASSUME NEW v \in Threads, v # u, v \in Committing PROVE v \in Committing'
      <3>1. pc[v] \in {"unlock", "free"} /\ ws[v] # NoWrites  BY <2>4 DEF Committing, Voted
      <3>2. v \notin Freed(s)  BY <2>1, <2>4
      <3>3. pc'[v] = pc[v]  BY <3>1, <3>2 DEF Freed
      <3>4. QED  BY <2>3, <2>4, <3>1, <3>3 DEF Committing, Voted
    <2>5. ASSUME NEW v \in Threads, v \in Committing' PROVE v # u /\ v \in Committing
      BY <2>3, <2>5 DEF Committing, Voted
    <2>6. u \in Committing  BY <2>1 DEF Committing, Voted
    <2>7. Committing \subseteq Threads /\ Committing' \subseteq Threads  BY DEF Committing, Voted
    <2>8. Committing' = Committing \ {u}  BY <2>4, <2>5, <2>7
    <2>9. Recovered' = Atomic!Merge(Recovered, ws[u])
      BY <2>1 DEF Overlay, Atomic!Merge
    <2>10. QED
      BY <2>1, <2>6, <2>8, <2>9 DEF Atomic!Commit, Atomic!Nothing, NoWrites, Committing
  <1>2. CASE Freed(s) = {}
    <2>1. store' = store /\ ws' = ws  BY <1>2, PublishNone
    <2>2. ASSUME NEW v \in Threads PROVE v \in Committing' <=> v \in Committing
      <3>1. CASE pc'[v] = pc[v]  BY <2>1, <3>1 DEF Committing, Voted
      <3>2. CASE pc[v] = "claimed" /\ pc'[v] = "run"  BY <3>2 DEF Committing, Voted
      <3>3. CASE pc[v] = "free" /\ pc'[v] = "out" /\ slot[v] = s
        BY <1>2, <3>3 DEF Committing, Voted, Freed
      <3>4. QED  BY <3>1, <3>2, <3>3
    <2>3. Committing' = Committing  BY <2>2 DEF Committing, Voted
    <2>4. QED  BY <2>1, <2>3, StoreStutters
  <1>3. QED  BY <1>1, <1>2 DEF Atomic!ASNext

\* A transaction without writes has none at any line.
LEMMA NoWritesIs ==
  ASSUME JournalInv, NEW u \in Threads, \A a \in Addr : ws[u][a] = None
  PROVE  ws[u] = NoWrites
  <1>1. ws[u] \in [Addr -> Val \cup {None}]  BY Shapes
  <1>2. QED  BY <1>1 DEF NoWrites

LEMMA StoreQuiet ==
  ASSUME Recovered = store, Recovered' = store', UNCHANGED <<store, ws, mode>>,
         \A v \in Threads : ws[v] # NoWrites =>
           (pc'[v] \in {"unlock", "free"} <=> pc[v] \in {"unlock", "free"})
  PROVE  UNCHANGED Atomic!asVars
  <1>1. Committing' = Committing  BY DEF Committing, Voted
  <1>2. QED  BY <1>1, StoreStutters

LEMMA StoreTx ==
  ASSUME OrderedFlush, JournalInv, VisibleInv, DurableInv,
         Recovered = store, Recovered' = store', NEW t \in Threads, TxStep(t)
  PROVE  Atomic!ASNext \/ UNCHANGED Atomic!asVars
  <1>1. /\ slot[t] \in Slots /\ pc \in [Threads -> {"out", "begin", "claimed", "run", "log",
                                                  "stamp", "undo", "unlock", "free"}]
        /\ ws \in [Threads -> [Addr -> Val \cup {None}]]
    BY DEF JournalInv, TypeOK
  <1>2. CASE begin_id(t) \/ begin_throw(t) \/ (\E s \in Slots : begin_slot(t, s))
    <2>1. UNCHANGED <<store, ws, mode>> /\ \A v \in Threads :
             pc'[v] \in {"unlock", "free"} <=> pc[v] \in {"unlock", "free"}
      BY <1>1, <1>2 DEF begin_id, begin_throw, begin_slot
    <2>2. QED  BY <2>1, StoreQuiet
  <1>3. CASE begin_flush(t)
    <2>1. /\ mode = "up" /\ mode' = mode /\ PersistHdr(slot[t])
          /\ \A u \in Threads : pc'[u] = pc[u] \/ (pc[u] = "claimed" /\ pc'[u] = "run")
      BY <1>1, <1>3 DEF begin_flush
    <2>2. QED  BY <1>1, <2>1, StorePublish
  <1>4. ASSUME NEW a \in Addr, lock(t, a) \/ unlock(t, a) PROVE UNCHANGED Atomic!asVars
    <2>1. UNCHANGED <<store, ws, mode>> /\ \A v \in Threads : pc'[v] = pc[v]
      BY <1>1, <1>4 DEF lock, unlock
    <2>2. QED  BY <2>1, StoreQuiet
  <1>5. ASSUME NEW a \in Addr, NEW v \in Val, write(t, a, v) PROVE Atomic!Put(t, a, v)
    <2>1. /\ mode = "up" /\ mode' = mode /\ store' = store /\ pc[t] = "run" /\ pc'[t] = "run"
          /\ ws' = [ws EXCEPT ![t][a] = v] /\ \A u \in Threads : u # t => pc'[u] = pc[u]
      BY <1>1, <1>5 DEF write
    <2>2. \A u \in Threads : u # t => ws'[u] = ws[u]  BY <1>1, <2>1
    <2>3. t \notin Committing /\ Committing' = Committing
      BY <2>1, <2>2 DEF Committing, Voted
    <2>4. QED  BY <2>1, <2>3 DEF Atomic!Put, Committing
  <1>6. CASE (\E r \in Ranges : log_begin(t, r)) \/ log_je_data(t) \/ log_je_stamp(t) \/ log_commit(t)
    <2>1. /\ pc[t] \in Held \ {"claimed"} /\ mode' = mode
          /\ \A v \in Threads : pc'[v] \in {"unlock", "free"} <=> pc[v] \in {"unlock", "free"}
      BY <1>1, <1>6 DEF log_begin, log_je_data, log_je_stamp, log_commit, Held
    <2>2. store' = store /\ ws' = ws
      BY <1>6, <2>1, PersistHdrIdle DEF log_begin, log_je_data, log_je_stamp, log_commit
    <2>3. QED  BY <2>1, <2>2, StoreQuiet
  <1>7. CASE commit(t)
    <2>1. /\ pc[t] = "run" /\ pc'[t] = "unlock" /\ mode = "up" /\ mode' = mode /\ PersistHdr(slot[t])
          /\ \A u \in Threads : u # t => pc'[u] = pc[u]
      BY <1>1, <1>7 DEF commit
    <2>2. store' = store /\ ws' = ws  BY <2>1, PersistHdrIdle DEF Held
    <2>3. CASE ws[t] = NoWrites  BY <2>1, <2>2, <2>3, StoreQuiet
    <2>4. CASE ws[t] # NoWrites
      <3>1. t \notin Committing /\ Committing' = Committing \cup {t}
        BY <2>1, <2>2, <2>4 DEF Committing, Voted
      <3>2. Atomic!Vote(t)  BY <2>1, <2>2, <3>1 DEF Atomic!Vote, Committing
      <3>3. QED  BY <3>2 DEF Atomic!ASNext
    <2>5. QED  BY <2>3, <2>4
  <1>8. CASE abort(t)
    <2>1. /\ pc[t] = "run" /\ pc'[t] = "undo" /\ mode = "up" /\ mode' = mode /\ store' = store
          /\ ws' = [ws EXCEPT ![t] = NoWrites] /\ \A u \in Threads : u # t => pc'[u] = pc[u]
      BY <1>1, <1>8 DEF abort
    <2>2. \A u \in Threads : u # t => ws'[u] = ws[u]  BY <1>1, <2>1
    <2>3. t \notin Committing /\ Committing' = Committing
      BY <2>1, <2>2 DEF Committing, Voted
    <2>4. Atomic!Abort(t)
      BY <2>1, <2>3 DEF Atomic!Abort, Atomic!Nothing, NoWrites, Committing
    <2>5. QED  BY <2>4 DEF Atomic!ASNext
  <1>9. CASE undo(t) \/ undo_commit(t)
    <2>1. /\ pc[t] = "undo" /\ mode' = mode /\ \A u \in Threads : u # t => pc'[u] = pc[u]
      BY <1>1, <1>9 DEF undo, undo_commit
    <2>2. store' = store /\ ws' = ws
      BY <1>9, <2>1, PersistHdrIdle DEF undo, undo_commit, Held
    <2>3. ws[t] = NoWrites  BY <2>1, WritersHold, NoWritesIs DEF Running
    <2>4. QED  BY <2>1, <2>2, <2>3, StoreQuiet
  <1>10. CASE free_clear(t)
    <2>1. UNCHANGED <<store, ws, mode>> /\ \A v \in Threads :
             pc'[v] \in {"unlock", "free"} <=> pc[v] \in {"unlock", "free"}
      BY <1>1, <1>10 DEF free_clear
    <2>2. QED  BY <2>1, StoreQuiet
  <1>11. CASE free_commit(t)
    <2>1. /\ mode = "up" /\ mode' = mode /\ PersistHdr(slot[t])
          /\ \A u \in Threads : pc'[u] = pc[u] \/ (pc[u] = "free" /\ pc'[u] = "out" /\ slot[u] = slot[t])
      BY <1>1, <1>11 DEF free_commit
    <2>2. QED  BY <1>1, <2>1, StorePublish
  <1>12. QED
    BY <1>2, <1>3, <1>4, <1>5, <1>6, <1>7, <1>8, <1>9, <1>10, <1>11 DEF TxStep, Atomic!ASNext

LEMMA StoreNext ==
  ASSUME OrderedFlush, JournalInv, VisibleInv, DurableInv,
         Recovered = store, Recovered' = store', [Next]_vars
  PROVE  [Atomic!ASNext]_Atomic!asVars
  <1>1. CASE UNCHANGED vars
    <2>1. UNCHANGED <<store, ws, mode, pc>>  BY <1>1 DEF vars
    <2>2. QED  BY <2>1, StoreQuiet
  <1>2. ASSUME NEW t \in Threads, TxStep(t) PROVE [Atomic!ASNext]_Atomic!asVars
    BY <1>2, StoreTx
  <1>3. CASE WriteBack
    <2>1. ASSUME NEW s \in Slots, PersistHdr(s), UNCHANGED <<mode, pc>>
          PROVE  [Atomic!ASNext]_Atomic!asVars
      <3>1. CASE mode = "up"  BY <2>1, <3>1, StorePublish
      <3>2. CASE mode = "recover"
        <4>1. store' = store /\ ws' = ws  BY <2>1, <3>2, RecoverIdle, PublishNone
        <4>2. QED  BY <2>1, <4>1, StoreQuiet
      <3>3. QED  BY <3>1, <3>2 DEF JournalInv, TypeOK
    <2>2. CASE UNCHANGED <<store, ws, mode, pc>>  BY <2>2, StoreQuiet
    <2>3. QED  BY <1>3, <2>1, <2>2 DEF WriteBack
  <1>4. CASE Crash
    <2>1. /\ mode' = "recover" /\ store' = store /\ ws' = [t \in Threads |-> NoWrites]
          /\ \A u \in Threads : pc'[u] = "out"
      BY <1>4 DEF Crash
    <2>2. Committing' = {}  BY <2>1 DEF Committing, Voted
    <2>3. CASE mode = "up"
      <3>1. Atomic!Fail
        BY <2>1, <2>2, <2>3 DEF Atomic!Fail, Atomic!Nothing, NoWrites, Committing
      <3>2. QED  BY <3>1 DEF Atomic!ASNext
    <2>4. CASE mode = "recover"
      <3>1. \A u \in Threads : pc[u] = "out" /\ ws[u] = NoWrites  BY <2>4, RecoverIdle, NoWritesIs
      <3>2. ws \in [Threads -> [Addr -> Val \cup {None}]]  BY DEF JournalInv, TypeOK
      <3>3. ws' = ws  BY <2>1, <3>1, <3>2
      <3>4. QED  BY <2>1, <2>4, <3>1, <3>3, StoreQuiet
    <2>5. QED  BY <2>3, <2>4 DEF JournalInv, TypeOK
  <1>5. CASE recover_done
    <2>1. mode = "recover" /\ mode' = "up" /\ UNCHANGED <<store, ws, pc>>
      BY <1>5 DEF recover_done
    <2>2. Committing' = Committing  BY <2>1 DEF Committing, Voted
    <2>3. Atomic!Restart  BY <2>1, <2>2 DEF Atomic!Restart, Committing
    <2>4. QED  BY <2>3 DEF Atomic!ASNext
  <1>6. CASE recover_scan \/ recover_undo \/ recover_clear \/ recover_skip
    <2>1. UNCHANGED <<store, ws, mode, pc>>
      BY <1>6 DEF recover_scan, recover_undo, recover_clear, recover_skip
    <2>2. QED  BY <2>1, StoreQuiet
  <1>7. QED  BY <1>1, <1>2, <1>3, <1>4, <1>5, <1>6 DEF Next, Recover

\* The journal implements the atomic store: seen through what a failure would
\* leave, every step of a transaction, write-back, failure or recovery is a
\* step of AtomicStore or leaves it alone, so that each transaction takes
\* effect at one moment, between commit() and the end of its destructor, in
\* full.
THEOREM JournalImplementsAtomicStore ==
  ASSUME OrderedFlush, SerialBegin, Separate
  PROVE  Spec => ImplementsAtomicStore
  <1>1. Init => JournalInv /\ VisibleInv /\ DurableInv  BY JournalInit, VisibleInit, DurableInit
  <1>2. JournalInv /\ VisibleInv /\ DurableInv /\ [Next]_vars
        => (JournalInv /\ VisibleInv /\ DurableInv)'
    BY JournalNext, VisibleNext, DurableNext
  <1>3. JournalInv /\ VisibleInv /\ DurableInv => Recovered = store
    BY DurableHolds DEF DurableStore
  <1>4. /\ JournalInv /\ VisibleInv /\ DurableInv /\ Recovered = store
        /\ (Recovered = store)' /\ [Next]_vars
        => [Atomic!ASNext]_Atomic!asVars
    BY StoreNext
  <1>5. Init => Atomic!ASInit  BY StoreInit
  <1>6. QED  BY <1>1, <1>2, <1>3, <1>4, <1>5, PTL DEF Spec, ImplementsAtomicStore, Atomic!ASSpec
=============================================================================
