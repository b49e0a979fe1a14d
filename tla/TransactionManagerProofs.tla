---------------------- MODULE TransactionManagerProofs ----------------------
(***************************************************************************)
(* The transaction table for any number of threads, slots, ids and power   *)
(* failures: a slot has one owner, no slot is lost, the id counter         *)
(* dominates the table, and nobody is turned away without need.            *)
(***************************************************************************)
EXTENDS TransactionManager, FiniteSetTheorems, TLAPS

\* What the threads know of the table in the middle of alloc_transaction and
\* free_transaction, and that nobody is there unless the graph is up.
LocalsOK ==
  /\ mode # "up" => \A t \in Threads : Idle(t)
  /\ \A t \in Threads : pc[t] = "claim" => ~seen[t].active /\ index[t] \in Slots
  /\ \A t \in Threads : pc[t] \in {"in", "flush"} => index[t] \in Slots

\* An id that has been drawn and not yet put into the table.
DrawnIds ==
  \A t \in Threads : pc[t] \in {"scan", "claim"} => id[t] <= cur_tx_id

\* The part of the table that the loop of recover() has passed.
RecoverLoop ==
  mode = "recover" => \A s \in Slots : s < at =>
    ~tx_table[s].active /\ tx_table[s].id <= max_tx_id

\* The inductive invariant.
IInv ==
  /\ TypeOK /\ LocalsOK /\ DrawnIds /\ RecoverLoop
  /\ SlotExclusive /\ NoSlotLeaks /\ CurIdDominates

\* A header is an id and a flag; clearing the flag keeps the id.
LEMMA Header ==
  /\ \A i \in Ids, b \in BOOLEAN : [id |-> i, active |-> b] \in Hdr
  /\ \A h \in Hdr : /\ h.id \in Ids /\ h.active \in BOOLEAN
                    /\ [h EXCEPT !.active = FALSE].id = h.id
                    /\ ~[h EXCEPT !.active = FALSE].active
  <1>1. \A i \in Ids, b \in BOOLEAN : [id |-> i, active |-> b] \in Hdr
    BY DEF Hdr
  <1>2. \A h \in Hdr : h.id \in Ids /\ h.active \in BOOLEAN
    BY DEF Hdr
  <1>3. \A h \in Hdr : [h EXCEPT !.active = FALSE].id = h.id
    BY DEF Hdr
  <1>4. \A h \in Hdr : ~[h EXCEPT !.active = FALSE].active
    BY DEF Hdr
  <1>5. QED  BY <1>1, <1>2, <1>3, <1>4

\* The table as reset_table leaves it.
LEMMA InitIInv == Init => IInv
  <1> SUFFICES ASSUME Init PROVE IInv  OBVIOUS
  <1>1. TypeOK
    <2>1. 0 \in Ids /\ 0 \in 0 .. MaxTransactions /\ 0 \in 0 .. MaxCrashes
      BY TableAssumption, BoundAssumption DEF Ids
    <2>2. [id |-> 0, active |-> FALSE] \in Hdr
      BY <2>1, Header
    <2>3. QED  BY <2>1, <2>2 DEF Init, TypeOK
  <1>2. LocalsOK /\ DrawnIds /\ RecoverLoop
    BY DEF Init, LocalsOK, DrawnIds, RecoverLoop, Idle
  <1>3. SlotExclusive /\ NoSlotLeaks
    BY DEF Init, SlotExclusive, NoSlotLeaks, Owns
  <1>4. CurIdDominates
    BY DEF Init, CurIdDominates
  <1>5. QED  BY <1>1, <1>2, <1>3, <1>4 DEF IInv

\* Types: every step, whatever the mode.
LEMMA TypeStep ==
  ASSUME TypeOK, LocalsOK, [Next]_vars
  PROVE  TypeOK'
  <1> USE TableAssumption, BoundAssumption
  <1>1. ASSUME NEW t \in Threads, alloc_read_only(t)  PROVE TypeOK'
    BY <1>1 DEF TypeOK, alloc_read_only, boot
  <1>2. ASSUME NEW t \in Threads, alloc_id(t)  PROVE TypeOK'
    BY <1>2 DEF TypeOK, alloc_id, boot, Ids
  <1>3. ASSUME NEW t \in Threads, alloc_load(t)  PROVE TypeOK'
    <2>1. index[t] \in Slots /\ index[t] + 1 \in 0 .. MaxTransactions
      BY <1>3 DEF TypeOK, alloc_load, Slots
    <2>2. tx_table[index[t]] \in Hdr
      BY <2>1 DEF TypeOK
    <2>3. /\ pc' \in [Threads -> {"out", "reader", "scan", "claim", "in", "flush"}]
          /\ index' \in [Threads -> 0 .. MaxTransactions]
          /\ seen' \in [Threads -> Hdr]
      BY <1>3, <2>1, <2>2 DEF TypeOK, alloc_load
    <2>4. QED  BY <1>3, <2>3 DEF TypeOK, alloc_load, boot
  <1>4. ASSUME NEW t \in Threads, alloc_throw(t)  PROVE TypeOK'
    BY <1>4 DEF TypeOK, alloc_throw, boot
  <1>5. ASSUME NEW t \in Threads, alloc_cmpxchg(t)  PROVE TypeOK'
    <2>1. index[t] \in Slots /\ index[t] + 1 \in 0 .. MaxTransactions
      BY <1>5 DEF TypeOK, LocalsOK, alloc_cmpxchg, Slots
    <2>2. [id |-> id[t], active |-> TRUE] \in Hdr
      BY Header DEF TypeOK
    <2>3. tx_table' \in [Slots -> Hdr]
      BY <1>5, <2>1, <2>2 DEF TypeOK, alloc_cmpxchg
    <2>4. /\ pc' \in [Threads -> {"out", "reader", "scan", "claim", "in", "flush"}]
          /\ index' \in [Threads -> 0 .. MaxTransactions]
          /\ met' \in [Threads -> SUBSET Threads]
      BY <1>5, <2>1 DEF TypeOK, alloc_cmpxchg, Meet
    <2>5. QED  BY <1>5, <2>3, <2>4 DEF TypeOK, alloc_cmpxchg, boot
  <1>6. ASSUME NEW t \in Threads, free_clear(t)  PROVE TypeOK'
    BY <1>6 DEF TypeOK, LocalsOK, free_clear, boot, Hdr
  <1>7. ASSUME NEW t \in Threads, free_commit(t)  PROVE TypeOK'
    BY <1>7 DEF TypeOK, LocalsOK, free_commit, boot
  <1>8. ASSUME NEW s \in Slots, WriteBack(s)  PROVE TypeOK'
    BY <1>8 DEF TypeOK, WriteBack, boot, locals
  <1>9. CASE Crash
    BY <1>9 DEF TypeOK, Crash
  <1>10. ASSUME NEW ro \in BOOLEAN, Open(ro)  PROVE TypeOK'
    BY <1>10 DEF TypeOK, Open, locals, Ids
  <1>11. CASE recover_slot
    <2>1. at \in Slots /\ at + 1 \in 0 .. MaxTransactions
      BY <1>11 DEF TypeOK, recover_slot, Slots
    <2>2. tx_table[at] \in Hdr
      BY <2>1 DEF TypeOK
    <2>3. tx_table' \in [Slots -> Hdr]
      BY <1>11, <2>1, <2>2 DEF TypeOK, recover_slot, Hdr
    <2>4. max_tx_id' \in Ids
      BY <1>11, <2>2, Header DEF TypeOK, recover_slot
    <2>5. QED  BY <1>11, <2>1, <2>3, <2>4 DEF TypeOK, recover_slot, locals
  <1>12. CASE recover_refuse
    BY <1>12 DEF TypeOK, recover_refuse, locals
  <1>13. CASE recover_done
    BY <1>13 DEF TypeOK, recover_done, locals
  <1>14. CASE UNCHANGED vars
    BY <1>14 DEF TypeOK, vars, locals, boot
  <1>15. QED
    BY <1>1, <1>2, <1>3, <1>4, <1>5, <1>6, <1>7, <1>8, <1>9, <1>10, <1>11, <1>12,
       <1>13, <1>14 DEF Next, Alloc, Free, Recover

\* The steps of alloc_transaction that leave the table and its owners alone:
\* start the call, look at a header, give up.
LEMMA QuietStep ==
  ASSUME IInv, NEW t \in Threads,
         alloc_read_only(t) \/ alloc_id(t) \/ alloc_load(t) \/ alloc_throw(t)
  PROVE  LocalsOK' /\ DrawnIds' /\ RecoverLoop' /\ SlotExclusive' /\ NoSlotLeaks'
         /\ CurIdDominates'
  <1> USE DEF IInv
  <1>1. /\ tx_table' = tx_table /\ pm_table' = pm_table /\ mode' = mode
        /\ at' = at /\ max_tx_id' = max_tx_id
    BY DEF alloc_read_only, alloc_id, alloc_load, alloc_throw, boot
  <1>2. cur_tx_id' >= cur_tx_id /\ cur_tx_id' \in Nat
    BY DEF alloc_read_only, alloc_id, alloc_load, alloc_throw, TypeOK, Ids
  <1>3. /\ pc[t] \notin {"in", "flush"} /\ pc'[t] \notin {"in", "flush"}
        /\ mode = "up" \/ ~Idle(t)
    BY DEF alloc_read_only, alloc_id, alloc_load, alloc_throw, TypeOK, Idle
  <1>4. mode = "up"
    BY <1>3 DEF LocalsOK
  <1>5. \A u \in Threads \ {t} :
          pc'[u] = pc[u] /\ index'[u] = index[u] /\ id'[u] = id[u] /\ seen'[u] = seen[u]
    BY DEF alloc_read_only, alloc_id, alloc_load, alloc_throw, TypeOK
  <1>6. \A u \in Threads : Owns(u)' <=> Owns(u)
    BY <1>3, <1>5 DEF Owns
  <1>7. SlotExclusive'
    <2>1. \A u \in Threads : Owns(u) => index'[u] = index[u] /\ id'[u] = id[u]
      BY <1>3, <1>5 DEF Owns
    <2>2. QED  BY <1>1, <1>6, <2>1 DEF SlotExclusive
  <1>8. NoSlotLeaks'
    BY <1>1, <1>3, <1>5, <1>6 DEF NoSlotLeaks, Owns
  <1>9. CurIdDominates'
    BY <1>1, <1>2, <1>4, Header DEF CurIdDominates, TypeOK, Ids
  <1>10. RecoverLoop'
    BY <1>1, <1>4 DEF RecoverLoop
  <1>11. DrawnIds'
    BY <1>2, <1>5 DEF DrawnIds, alloc_read_only, alloc_id, alloc_load, alloc_throw, TypeOK, Ids
  <1>12. ASSUME pc'[t] = "claim"  PROVE ~seen'[t].active /\ index'[t] \in Slots
    <2>1. alloc_load(t)
      BY <1>12 DEF alloc_read_only, alloc_id, alloc_throw, TypeOK
    <2>2. ~tx_table[index[t]].active
      BY <1>12, <2>1 DEF alloc_load, TypeOK
    <2>3. seen'[t] = tx_table[index[t]] /\ index'[t] = index[t]
      BY <2>1, <2>2 DEF alloc_load, TypeOK
    <2>4. index[t] \in Slots
      BY <2>1, TableAssumption DEF alloc_load, TypeOK, Slots
    <2>5. QED  BY <2>2, <2>3, <2>4
  <1>13. LocalsOK'
    BY <1>1, <1>3, <1>4, <1>5, <1>12 DEF LocalsOK
  <1>14. QED  BY <1>7, <1>8, <1>9, <1>10, <1>11, <1>13

\* cmpxchg: the header was not ACTIVE when it was loaded and is the same now, so
\* nobody owns the slot; the loser changes nothing but its place in the scan.
LEMMA CmpxchgStep ==
  ASSUME IInv, NEW t \in Threads, alloc_cmpxchg(t)
  PROVE  LocalsOK' /\ DrawnIds' /\ RecoverLoop' /\ SlotExclusive' /\ NoSlotLeaks'
         /\ CurIdDominates'
  <1> USE DEF IInv
  <1>1. pc[t] = "claim" /\ mode = "up" /\ index[t] \in Slots /\ ~seen[t].active
    BY DEF alloc_cmpxchg, LocalsOK, Idle
  <1>2. /\ pm_table' = pm_table /\ mode' = mode /\ cur_tx_id' = cur_tx_id
        /\ id' = id /\ seen' = seen
    BY DEF alloc_cmpxchg, boot
  <1>3. \A u \in Threads \ {t} : pc'[u] = pc[u] /\ index'[u] = index[u]
    BY DEF alloc_cmpxchg, TypeOK
  <1>4. pc'[t] \in {"in", "scan"}
    BY DEF alloc_cmpxchg, TypeOK
  <1>5. RecoverLoop'
    BY <1>1, <1>2 DEF RecoverLoop
  <1>6. DrawnIds'
    BY <1>1, <1>2, <1>3, <1>4 DEF DrawnIds
  <1>7. pc'[t] = "in" => index'[t] = index[t]
    BY DEF alloc_cmpxchg, TypeOK
  <1>8. LocalsOK'
    BY <1>1, <1>2, <1>3, <1>4, <1>7 DEF LocalsOK
  <1>9. CASE tx_table[index[t]] = seen[t]
    <2>1. /\ tx_table' = [tx_table EXCEPT ![index[t]] = [id |-> id[t], active |-> TRUE]]
          /\ pc'[t] = "in" /\ index' = index
      BY <1>9 DEF alloc_cmpxchg, TypeOK
    <2>2. ASSUME NEW u \in Threads, Owns(u)  PROVE index[u] # index[t]
      <3>1. tx_table[index[u]].active
        <4>1. tx_table[index[u]] = [id |-> id[u], active |-> TRUE]
          BY <2>2 DEF SlotExclusive
        <4>2. [id |-> id[u], active |-> TRUE].active
          OBVIOUS
        <4>3. QED  BY <4>1, <4>2
      <3>2. ~tx_table[index[t]].active
        BY <1>1, <1>9
      <3>3. QED  BY <3>1, <3>2
    <2>3. \A u \in Threads : Owns(u)' <=> Owns(u) \/ u = t
      BY <1>3, <2>1 DEF Owns
    <2>4. tx_table'[index[t]] = [id |-> id[t], active |-> TRUE]
      BY <1>1, <2>1 DEF TypeOK
    <2>5. \A s \in Slots : s # index[t] => tx_table'[s] = tx_table[s]
      BY <2>1 DEF TypeOK
    <2>6. SlotExclusive'
      BY <1>1, <1>2, <2>1, <2>2, <2>3, <2>4, <2>5 DEF SlotExclusive
    <2>7. NoSlotLeaks'
      BY <1>1, <1>2, <2>1, <2>3, <2>5 DEF NoSlotLeaks
    <2>8. tx_table'[index[t]].id <= cur_tx_id
      BY <1>1, <2>4 DEF DrawnIds
    <2>9. CurIdDominates'
      BY <1>1, <1>2, <2>5, <2>8 DEF CurIdDominates
    <2>10. QED  BY <1>5, <1>6, <1>8, <2>6, <2>7, <2>9
  <1>10. CASE tx_table[index[t]] # seen[t]
    <2>1. tx_table' = tx_table /\ pc'[t] = "scan"
      BY <1>10 DEF alloc_cmpxchg, TypeOK
    <2>2. \A u \in Threads : Owns(u)' <=> Owns(u)
      BY <1>1, <1>3, <2>1 DEF Owns
    <2>3. \A u \in Threads : Owns(u) => index'[u] = index[u]
      BY <1>1, <1>3 DEF Owns
    <2>4. SlotExclusive'
      BY <1>2, <2>1, <2>2, <2>3 DEF SlotExclusive
    <2>5. NoSlotLeaks'
      BY <1>2, <2>1, <2>2, <2>3 DEF NoSlotLeaks
    <2>6. CurIdDominates'
      BY <1>2, <2>1 DEF CurIdDominates
    <2>7. QED  BY <1>5, <1>6, <1>8, <2>4, <2>5, <2>6
  <1>11. QED  BY <1>9, <1>10

\* free_transaction clears the flag of its own slot and no other.
LEMMA ClearStep ==
  ASSUME IInv, NEW t \in Threads, free_clear(t)
  PROVE  LocalsOK' /\ DrawnIds' /\ RecoverLoop' /\ SlotExclusive' /\ NoSlotLeaks'
         /\ CurIdDominates'
  <1> USE DEF IInv
  <1>1. Owns(t) /\ mode = "up" /\ index[t] \in Slots
    BY DEF free_clear, LocalsOK, Idle, Owns
  <1>2. /\ pm_table' = pm_table /\ mode' = mode /\ cur_tx_id' = cur_tx_id
        /\ id' = id /\ seen' = seen /\ index' = index
    BY DEF free_clear, boot
  <1>3. pc'[t] = "flush" /\ \A u \in Threads \ {t} : pc'[u] = pc[u]
    BY DEF free_clear, TypeOK
  <1>4. RecoverLoop' /\ DrawnIds' /\ LocalsOK'
    BY <1>1, <1>2, <1>3 DEF RecoverLoop, DrawnIds, LocalsOK
  <1>5. tx_table'[index[t]] = [tx_table[index[t]] EXCEPT !.active = FALSE]
    BY <1>1 DEF free_clear, TypeOK
  <1>6. \A s \in Slots : s # index[t] => tx_table'[s] = tx_table[s]
    BY DEF free_clear, TypeOK
  <1>7. tx_table[index[t]] \in Hdr
    BY <1>1 DEF TypeOK
  <1>8. tx_table'[index[t]].id = tx_table[index[t]].id /\ ~tx_table'[index[t]].active
    BY <1>5, <1>7, Header
  <1>9. \A u \in Threads : Owns(u)' <=> Owns(u) /\ u # t
    BY <1>3 DEF Owns
  <1>10. \A u \in Threads : Owns(u)' => index[u] # index[t]
    BY <1>1, <1>9 DEF SlotExclusive
  <1>11. SlotExclusive'
    BY <1>2, <1>6, <1>9, <1>10 DEF SlotExclusive
  <1>12. NoSlotLeaks'
    BY <1>1, <1>2, <1>6, <1>8, <1>9 DEF NoSlotLeaks
  <1>13. CurIdDominates'
    BY <1>1, <1>2, <1>6, <1>8 DEF CurIdDominates
  <1>14. QED  BY <1>4, <1>11, <1>12, <1>13

\* What reaches persistent memory is what the threads saw.
LEMMA PersistStep ==
  ASSUME IInv,
         (\E t \in Threads : free_commit(t)) \/ (\E s \in Slots : WriteBack(s))
  PROVE  LocalsOK' /\ DrawnIds' /\ RecoverLoop' /\ SlotExclusive' /\ NoSlotLeaks'
         /\ CurIdDominates'
  <1> USE DEF IInv
  <1>1. /\ tx_table' = tx_table /\ cur_tx_id' = cur_tx_id /\ mode' = mode
        /\ id' = id /\ index' = index /\ seen' = seen
        /\ at' = at /\ max_tx_id' = max_tx_id
    BY DEF free_commit, WriteBack, boot, locals
  <1>2. \A s \in Slots : pm_table'[s] \in {pm_table[s], tx_table[s]}
    BY DEF free_commit, WriteBack, TypeOK, LocalsOK
  <1>3. \A u \in Threads : pc'[u] = pc[u] \/ (pc[u] = "flush" /\ pc'[u] = "out")
    BY DEF free_commit, WriteBack, TypeOK, locals
  <1>4. \A u \in Threads : Owns(u)' <=> Owns(u)
    BY <1>3 DEF Owns
  <1>5. LocalsOK'
    BY <1>1, <1>3 DEF LocalsOK, Idle
  <1>6. DrawnIds' /\ RecoverLoop'
    BY <1>1, <1>3 DEF DrawnIds, RecoverLoop
  <1>7. SlotExclusive' /\ NoSlotLeaks'
    BY <1>1, <1>4 DEF SlotExclusive, NoSlotLeaks
  <1>8. CurIdDominates'
    BY <1>1, <1>2 DEF CurIdDominates
  <1>9. QED  BY <1>5, <1>6, <1>7, <1>8

\* A power failure ends every call; opening and refusing to open change no header.
LEMMA DownStep ==
  ASSUME IInv,
         Crash \/ (\E ro \in BOOLEAN : Open(ro)) \/ recover_refuse
  PROVE  LocalsOK' /\ DrawnIds' /\ RecoverLoop' /\ SlotExclusive' /\ NoSlotLeaks'
         /\ CurIdDominates'
  <1> USE DEF IInv
  <1>1. mode' # "up" /\ (mode' = "recover" => at' = 0)
    BY DEF Crash, Open, recover_refuse
  <1>2. \A t \in Threads : Idle(t)'
    BY DEF Crash, Open, recover_refuse, locals, LocalsOK, Idle
  <1>3. LocalsOK' /\ DrawnIds' /\ SlotExclusive'
    BY <1>2 DEF LocalsOK, DrawnIds, SlotExclusive, Idle, Owns
  <1>4. RecoverLoop'
    BY <1>1, TableAssumption DEF RecoverLoop, Slots
  <1>5. NoSlotLeaks' /\ CurIdDominates'
    BY <1>1 DEF NoSlotLeaks, CurIdDominates
  <1>6. QED  BY <1>3, <1>4, <1>5

\* recover() clears one header after another and keeps the highest id; at its
\* end no header is ACTIVE and the counter dominates the table.
LEMMA RecoverStep ==
  ASSUME IInv, recover_slot \/ recover_done
  PROVE  LocalsOK' /\ DrawnIds' /\ RecoverLoop' /\ SlotExclusive' /\ NoSlotLeaks'
         /\ CurIdDominates'
  <1> USE DEF IInv
  <1>1. mode = "recover" /\ pc' = pc
    BY DEF recover_slot, recover_done, locals
  <1>2. \A t \in Threads : Idle(t) /\ Idle(t)'
    BY <1>1 DEF LocalsOK, Idle
  <1>3. LocalsOK' /\ DrawnIds' /\ SlotExclusive'
    BY <1>2 DEF LocalsOK, DrawnIds, SlotExclusive, Idle, Owns
  <1>4. CASE recover_slot
    <2>1. mode' = "recover" /\ at \in Slots /\ at' = at + 1 /\ at \in Nat
      BY <1>1, <1>4, TableAssumption DEF recover_slot, TypeOK, Slots
    <2>2. tx_table[at] \in Hdr
      BY <2>1 DEF TypeOK
    <2>3. tx_table'[at] = [tx_table[at] EXCEPT !.active = FALSE]
      BY <1>4, <2>1 DEF recover_slot, TypeOK
    <2>4. \A s \in Slots : s # at => tx_table'[s] = tx_table[s]
      BY <1>4 DEF recover_slot, TypeOK
    <2>5. ~tx_table'[at].active /\ tx_table'[at].id = tx_table[at].id
      BY <2>2, <2>3, Header
    <2>6. tx_table[at].id \in Nat /\ max_tx_id \in Nat
      BY <2>2, Header, BoundAssumption DEF TypeOK, Ids
    <2>7. /\ max_tx_id' \in Nat /\ max_tx_id <= max_tx_id'
          /\ tx_table[at].id <= max_tx_id'
      BY <1>4, <2>6 DEF recover_slot
    <2>8. \A s \in Slots : s < at' /\ s # at => s < at
      BY <2>1, TableAssumption DEF Slots
    <2>9. \A s \in Slots : tx_table[s].id \in Nat
      BY Header, BoundAssumption DEF TypeOK, Ids
    <2>10. ASSUME NEW s \in Slots, s < at'
           PROVE  ~tx_table'[s].active /\ tx_table'[s].id <= max_tx_id'
      <3>1. CASE s = at
        BY <3>1, <2>5, <2>7
      <3>2. CASE s # at
        <4>1. ~tx_table[s].active /\ tx_table[s].id <= max_tx_id
          BY <3>2, <2>8, <2>10, <1>1 DEF RecoverLoop
        <4>2. tx_table[s].id <= max_tx_id'
          BY <4>1, <2>6, <2>7, <2>9
        <4>3. QED  BY <3>2, <2>4, <4>1, <4>2
      <3>3. QED  BY <3>1, <3>2
    <2>11. RecoverLoop'
      BY <2>10 DEF RecoverLoop, Slots
    <2>12. NoSlotLeaks' /\ CurIdDominates'
      BY <2>1 DEF NoSlotLeaks, CurIdDominates
    <2>13. QED  BY <1>3, <2>11, <2>12
  <1>5. CASE recover_done
    <2>1. /\ mode' = "up" /\ tx_table' = tx_table /\ pm_table' = tx_table
          /\ cur_tx_id' = max_tx_id
      BY <1>5 DEF recover_done
    <2>2. \A s \in Slots : s < at
      BY <1>5, TableAssumption DEF recover_done, Slots
    <2>3. \A s \in Slots : ~tx_table[s].active /\ tx_table[s].id <= max_tx_id
      BY <1>1, <2>2 DEF RecoverLoop
    <2>4. NoSlotLeaks' /\ CurIdDominates' /\ RecoverLoop'
      BY <2>1, <2>3 DEF NoSlotLeaks, CurIdDominates, RecoverLoop
    <2>5. QED  BY <1>3, <2>4
  <1>6. QED  BY <1>4, <1>5

\* Every step of alloc_transaction, free_transaction, recover(), the cache and
\* the power keeps the inductive invariant.
LEMMA StepIInv == IInv /\ [Next]_vars => IInv'
  <1> SUFFICES ASSUME IInv, [Next]_vars PROVE IInv'  OBVIOUS
  <1>1. TypeOK'
    BY TypeStep DEF IInv
  <1>2. ASSUME NEW t \in Threads,
               alloc_read_only(t) \/ alloc_id(t) \/ alloc_load(t) \/ alloc_throw(t)
        PROVE  IInv'
    BY <1>1, <1>2, QuietStep DEF IInv
  <1>3. ASSUME NEW t \in Threads, alloc_cmpxchg(t)  PROVE IInv'
    BY <1>1, <1>3, CmpxchgStep DEF IInv
  <1>4. ASSUME NEW t \in Threads, free_clear(t)  PROVE IInv'
    BY <1>1, <1>4, ClearStep DEF IInv
  <1>5. ASSUME NEW t \in Threads, free_commit(t)  PROVE IInv'
    BY <1>1, <1>5, PersistStep DEF IInv
  <1>6. ASSUME NEW s \in Slots, WriteBack(s)  PROVE IInv'
    BY <1>1, <1>6, PersistStep DEF IInv
  <1>7. CASE Crash \/ (\E ro \in BOOLEAN : Open(ro)) \/ recover_refuse
    BY <1>1, <1>7, DownStep DEF IInv
  <1>8. CASE recover_slot \/ recover_done
    BY <1>1, <1>8, RecoverStep DEF IInv
  <1>9. CASE UNCHANGED vars
    BY <1>1, <1>9 DEF IInv, vars, locals, boot, LocalsOK, DrawnIds, RecoverLoop,
       SlotExclusive, NoSlotLeaks, CurIdDominates, Idle, Owns
  <1>10. QED
    BY <1>2, <1>3, <1>4, <1>5, <1>6, <1>7, <1>8, <1>9 DEF Next, Alloc, Free, Recover

\* The inductive invariant of the transaction table.
THEOREM Invariance == Spec => []IInv
  BY InitIInv, StepIInv, PTL DEF Spec

\* Type correctness of the transaction table.
THEOREM TypeCorrect == Spec => []TypeOK
  <1>1. IInv => TypeOK  BY DEF IInv
  <1>2. QED  BY Invariance, <1>1, PTL

\* alloc_transaction never hands a slot, and its journal extent, to two
\* transactions, and the header names its owner: for any number of threads and
\* slots, and across power failures.
THEOREM SlotsExclusive == Spec => []SlotExclusive
  <1>1. IInv => SlotExclusive  BY DEF IInv
  <1>2. QED  BY Invariance, <1>1, PTL

\* While the graph is up every ACTIVE header has a live owner.
THEOREM NoLeaks == Spec => []NoSlotLeaks
  <1>1. IInv => NoSlotLeaks  BY DEF IInv
  <1>2. QED  BY Invariance, <1>1, PTL

\* While the graph is up _cur_tx_id is at least every id in the table, in the
\* cache and in persistent memory.
THEOREM IdsDominated == Spec => []CurIdDominates
  <1>1. IInv => CurIdDominates  BY DEF IInv
  <1>2. QED  BY Invariance, <1>1, PTL

-----------------------------------------------------------------------------
(***************************************************************************)
(* Who is turned away.  A thread that scans counts one thread it has met   *)
(* for every slot behind it; a thread it has met may since have freed its  *)
(* slot and taken another one, so the count for the slots before j leaves  *)
(* out those who sit at j or further on.                                   *)
(***************************************************************************)
Scanning(t) == pc[t] \in {"scan", "claim"}

\* The slots t is done with: the one it is about to lose is among them.
Passed(t) ==
  IF pc[t] = "claim" /\ tx_table[index[t]] # seen[t] THEN index[t] + 1 ELSE index[t]

\* Threads that t has met and that do not own slot j or one behind it.
Before(t, j) == {u \in met[t] : ~(Owns(u) /\ index[u] >= j)}

\* A scanning thread has met every owner, and a thread it has met that scans
\* again began after it and has met no one else.
MetOrdered ==
  \A t \in Threads : Scanning(t) =>
    /\ t \notin met[t]
    /\ \A u \in Threads : Owns(u) => u \in met[t]
    /\ \A u \in Threads : Scanning(u) /\ u \in met[t] => met[u] \subseteq met[t]

MetCounted ==
  \A t \in Threads : Scanning(t) =>
    \A j \in 0 .. Passed(t) : Cardinality(Before(t, j)) >= j

MetInv == MetOrdered /\ MetCounted

\* Sets of threads are finite; a larger one has at least as many members.
LEMMA Sizes ==
  \A S, T \in SUBSET Threads :
    /\ Cardinality(S) \in Nat
    /\ S \subseteq T => Cardinality(S) <= Cardinality(T)
    /\ \A x \in T \ S : S \subseteq T => Cardinality(T) >= Cardinality(S) + 1
  <1> TAKE S, T \in SUBSET Threads
  <1>1. IsFiniteSet(S) /\ IsFiniteSet(T)
    BY ThreadsAssumption, FS_Subset
  <1>2. Cardinality(S) \in Nat /\ Cardinality(T) \in Nat
    BY <1>1, FS_CardinalityType
  <1>3. ASSUME S \subseteq T  PROVE Cardinality(S) <= Cardinality(T)
    BY <1>1, <1>3, FS_Subset
  <1>4. ASSUME NEW x \in T \ S, S \subseteq T
        PROVE  Cardinality(T) >= Cardinality(S) + 1
    <2>1. Cardinality(S \cup {x}) = Cardinality(S) + 1
      BY <1>1, <1>4, FS_AddElement
    <2>2. Cardinality(S \cup {x}) <= Cardinality(T)
      BY <1>1, <1>4, FS_Subset
    <2>3. QED  BY <1>2, <2>1, <2>2
  <1>5. QED  BY <1>2, <1>3, <1>4

\* What the counts are made of.
LEMMA MetTyped ==
  ASSUME TypeOK, NEW t \in Threads
  PROVE  /\ Passed(t) \in Nat /\ index[t] \in Nat
         /\ Passed(t) \in {index[t], index[t] + 1}
         /\ met[t] \in SUBSET Threads
         /\ \A j \in Nat : Before(t, j) \in SUBSET Threads
  BY TableAssumption DEF TypeOK, Passed, Before

\* A thread that has met no fewer and has passed no more keeps its count.
LEMMA CountKept ==
  ASSUME TypeOK, TypeOK', MetCounted, NEW t \in Threads, Scanning(t),
         Passed(t)' <= Passed(t),
         \A j \in Nat : Before(t, j) \subseteq Before(t, j)'
  PROVE  \A j \in 0 .. Passed(t)' : Cardinality(Before(t, j)') >= j
  <1> TAKE j \in 0 .. Passed(t)'
  <1>1. Passed(t) \in Nat /\ Passed(t)' \in Nat
    BY MetTyped DEF TypeOK, Passed
  <1>2. j \in 0 .. Passed(t) /\ j \in Nat
    BY <1>1
  <1>3. Cardinality(Before(t, j)) >= j
    BY <1>2 DEF MetCounted
  <1>4. Before(t, j) \in SUBSET Threads /\ Before(t, j)' \in SUBSET Threads
    BY DEF TypeOK, Before
  <1>5. Cardinality(Before(t, j)) <= Cardinality(Before(t, j)')
    BY <1>2, <1>4, Sizes
  <1>6. QED  BY <1>2, <1>3, <1>4, <1>5, Sizes

\* Steps in which no thread starts, ends or advances a scan and nobody becomes
\* an owner.
LEMMA MetQuiet ==
  ASSUME TypeOK, TypeOK', MetInv, NEW t \in Threads, UNCHANGED <<met, index, seen>>,
         \/ alloc_read_only(t) \/ free_commit(t)
         \/ \E s \in Slots : WriteBack(s)
         \/ UNCHANGED vars
  PROVE  MetInv'
  <1>1. tx_table' = tx_table
    BY DEF alloc_read_only, free_commit, WriteBack, vars
  <1>2. \A u \in Threads : /\ Owns(u)' = Owns(u)
                           /\ Scanning(u)' = Scanning(u)
                           /\ (pc[u] = "claim")' = (pc[u] = "claim")
    BY DEF TypeOK, alloc_read_only, free_commit, WriteBack, vars, locals, Owns, Scanning
  <1>3. MetOrdered'
    BY <1>2 DEF MetInv, MetOrdered
  <1>4. ASSUME NEW u \in Threads, Scanning(u)'
        PROVE  \A j \in 0 .. Passed(u)' : Cardinality(Before(u, j)') >= j
    <2>1. Passed(u)' = Passed(u)
      BY <1>1, <1>2 DEF Passed
    <2>2. \A j \in Nat : Before(u, j) \subseteq Before(u, j)'
      BY <1>2 DEF Before, TypeOK
    <2>3. QED  BY <1>2, <1>4, <2>1, <2>2, CountKept, MetTyped DEF MetInv
  <1>5. QED  BY <1>3, <1>4 DEF MetInv, MetCounted

\* A scan begins: nobody has been passed, and the others that scan have met all
\* that this one has.
LEMMA MetBegin ==
  ASSUME TypeOK, TypeOK', MetInv, NEW t \in Threads, alloc_id(t)
  PROVE  MetInv'
  <1>1. /\ \A u \in Threads : Owns(u)' = Owns(u)
        /\ \A u \in Threads \ {t} : Scanning(u)' = Scanning(u) /\ met'[u] = met[u]
        /\ Scanning(t)' /\ met'[t] = {u \in Threads : Owns(u)}
        /\ ~Owns(t) /\ ~Scanning(t)
    BY DEF TypeOK, alloc_id, Owns, Scanning
  <1>2. \A u \in Threads : ~(Owns(u) /\ Scanning(u))
    BY DEF Owns, Scanning
  <1>3. MetOrdered'
    BY <1>1, <1>2 DEF MetInv, MetOrdered
  <1>4. ASSUME NEW u \in Threads, Scanning(u)'
        PROVE  \A j \in 0 .. Passed(u)' : Cardinality(Before(u, j)') >= j
    <2>1. CASE u = t
      <3>1. Passed(u)' = 0
        BY <2>1 DEF alloc_id, Passed, TypeOK
      <3>2. Before(u, 0)' \in SUBSET Threads
        BY DEF TypeOK, Before
      <3>3. QED  BY <3>1, <3>2, Sizes
    <2>2. CASE u # t
      <3>1. Passed(u)' = Passed(u)
        BY <2>2 DEF alloc_id, Passed, TypeOK
      <3>2. \A j \in Nat : Before(u, j) \subseteq Before(u, j)'
        BY <1>1, <2>2 DEF Before, TypeOK, alloc_id, Owns
      <3>3. QED  BY <1>1, <1>4, <2>2, <3>1, <3>2, CountKept, MetTyped DEF MetInv
    <2>3. QED  BY <2>1, <2>2
  <1>5. QED  BY <1>3, <1>4 DEF MetInv, MetCounted

\* A turn of the scan: the owner of an ACTIVE header has been met, and did not
\* count for the slots before this one.
LEMMA MetLoad ==
  ASSUME TypeOK, TypeOK', LocalsOK, NoSlotLeaks, MetInv, NEW t \in Threads, alloc_load(t)
  PROVE  MetInv'
  <1>1. /\ \A u \in Threads : Owns(u)' = Owns(u) /\ Scanning(u)' = Scanning(u)
        /\ met' = met /\ tx_table' = tx_table
        /\ \A u \in Threads \ {t} : /\ pc'[u] = pc[u] /\ index'[u] = index[u]
                                    /\ seen'[u] = seen[u]
        /\ \A u \in Threads : Owns(u) => index'[u] = index[u]
        /\ Scanning(t) /\ Passed(t) = index[t] /\ index[t] \in Slots
    <2>1. \A u \in Threads : Owns(u)' = Owns(u) /\ Scanning(u)' = Scanning(u)
      BY DEF TypeOK, alloc_load, Owns, Scanning
    <2>2. met' = met /\ tx_table' = tx_table
      BY DEF alloc_load
    <2>3. \A u \in Threads \ {t} : /\ pc'[u] = pc[u] /\ index'[u] = index[u]
                                   /\ seen'[u] = seen[u]
      BY DEF TypeOK, alloc_load
    <2>4. ~Owns(t) /\ Scanning(t) /\ Passed(t) = index[t]
      BY DEF alloc_load, Owns, Scanning, Passed
    <2>5. index[t] \in Slots
      BY TableAssumption DEF TypeOK, alloc_load, Slots
    <2>6. QED  BY <2>1, <2>2, <2>3, <2>4, <2>5
  <1>2. MetOrdered'
    BY <1>1 DEF MetInv, MetOrdered
  <1>3. \A u \in Threads, j \in Nat : Before(u, j)' = Before(u, j)
    BY <1>1 DEF Before, TypeOK
  <1>4. ASSUME NEW u \in Threads, Scanning(u)'
        PROVE  \A j \in 0 .. Passed(u)' : Cardinality(Before(u, j)') >= j
    <2>1. CASE u # t \/ ~tx_table[index[t]].active
      <3>1. Passed(u)' = Passed(u)
        BY <1>1, <2>1 DEF Passed, alloc_load, TypeOK
      <3>2. QED  BY <1>1, <1>3, <1>4, <3>1, CountKept, MetTyped DEF MetInv
    <2>2. CASE u = t /\ tx_table[index[t]].active
      <3> DEFINE i == index[t]
      <3>1. Passed(t)' = i + 1 /\ i \in Nat
        BY <1>1, <2>2, MetTyped DEF Passed, alloc_load, TypeOK
      <3>2. PICK v \in Threads : Owns(v) /\ index[v] = i
        <4>1. mode = "up"
          BY DEF LocalsOK, Idle, alloc_load
        <4>2. QED  BY <1>1, <2>2, <4>1 DEF NoSlotLeaks
      <3>3. v \in met[t]
        BY <1>1, <3>2 DEF MetInv, MetOrdered
      <3>4. Before(t, i) \subseteq Before(t, i + 1) /\ v \in Before(t, i + 1) \ Before(t, i)
        BY <3>1, <3>2, <3>3 DEF Before, TypeOK
      <3>5. Cardinality(Before(t, i)) >= i
        BY <1>1, <3>1 DEF MetInv, MetCounted
      <3>6. Before(t, i) \in SUBSET Threads /\ Before(t, i + 1) \in SUBSET Threads
        BY <3>1, MetTyped
      <3>7. Cardinality(Before(t, i + 1)) >= i + 1
        BY <3>1, <3>4, <3>5, <3>6, Sizes
      <3>8. \A j \in 0 .. i : Cardinality(Before(t, j)) >= j
        BY <1>1 DEF MetInv, MetCounted
      <3>9. QED  BY <1>3, <2>2, <3>1, <3>7, <3>8
    <2>3. QED  BY <2>1, <2>2
  <1>5. QED  BY <1>2, <1>4 DEF MetInv, MetCounted

\* A thread gives up, or frees its slot: the others keep what they have met, and
\* what they have counted too, as an owner less only adds to it.
LEMMA MetLeave ==
  ASSUME TypeOK, TypeOK', LocalsOK, SlotExclusive, MetInv, NEW t \in Threads,
         alloc_throw(t) \/ free_clear(t)
  PROVE  MetInv'
  <1>1. /\ ~Scanning(t)' /\ ~Owns(t)' /\ index' = index /\ seen' = seen
        /\ \A u \in Threads \ {t} : pc'[u] = pc[u] /\ met'[u] = met[u]
        /\ \A u \in Threads \ {t} : Owns(u)' = Owns(u) /\ Scanning(u)' = Scanning(u)
    BY DEF TypeOK, alloc_throw, free_clear, Owns, Scanning
  <1>2. MetOrdered'
    BY <1>1 DEF MetInv, MetOrdered
  <1>3. ASSUME NEW u \in Threads, Scanning(u)'
        PROVE  \A j \in 0 .. Passed(u)' : Cardinality(Before(u, j)') >= j
    <2>1. u # t /\ Scanning(u)
      BY <1>1, <1>3
    <2>2. Passed(u)' <= Passed(u)
      <3>1. CASE alloc_throw(t)
        <4>1. Passed(u)' = Passed(u)
          BY <1>1, <2>1, <3>1 DEF Passed, alloc_throw
        <4>2. QED  BY <4>1, MetTyped
      <3>2. CASE free_clear(t)
        <4>1. index[t] \in Slots /\ tx_table[index[t]].active
          <5>1. Owns(t)
            BY <3>2 DEF free_clear, Owns
          <5>2. index[t] \in Slots /\ tx_table[index[t]] = [id |-> id[t], active |-> TRUE]
            BY <5>1 DEF SlotExclusive
          <5>3. [id |-> id[t], active |-> TRUE].active = TRUE
            OBVIOUS
          <5>4. QED  BY <5>2, <5>3
        <4>2. \A s \in Slots : s # index[t] => tx_table'[s] = tx_table[s]
          BY <3>2 DEF free_clear, TypeOK
        <4>3. pc[u] = "claim" => index[u] \in Slots /\ ~seen[u].active
          BY DEF LocalsOK
        <4>4. (pc[u] = "claim" /\ tx_table'[index[u]] # seen[u])
                => tx_table[index[u]] # seen[u]
          BY <4>1, <4>2, <4>3
        <4>5. index[u] \in Nat
          BY MetTyped
        <4>6. QED  BY <1>1, <2>1, <4>4, <4>5 DEF Passed
      <3>3. QED  BY <3>1, <3>2
    <2>3. \A j \in Nat : Before(u, j) \subseteq Before(u, j)'
      BY <1>1, <2>1 DEF Before, TypeOK
    <2>4. QED  BY <2>1, <2>2, <2>3, CountKept DEF MetInv
  <1>4. QED  BY <1>2, <1>3 DEF MetInv, MetCounted

\* A claim that succeeds: whoever scans meets t.  If it had met t before, then t
\* has scanned since, and what t has met stands in for t itself.
LEMMA MetWin ==
  ASSUME TypeOK, TypeOK', LocalsOK, MetInv, NEW t \in Threads,
         alloc_cmpxchg(t), tx_table[index[t]] = seen[t]
  PROVE  MetInv'
  <1> DEFINE i == index[t]
  <1>1. /\ i \in Nat /\ i \in Slots /\ Scanning(t) /\ ~Owns(t) /\ i <= Passed(t)
        /\ t \notin met[t]
    <2>1. i \in Slots /\ Scanning(t) /\ ~Owns(t)
      BY DEF alloc_cmpxchg, LocalsOK, Scanning, Owns
    <2>2. QED  BY <2>1, MetTyped DEF MetInv, MetOrdered
  <1>2. /\ index' = index /\ seen' = seen
        /\ Owns(t)' /\ ~Scanning(t)'
        /\ \A u \in Threads \ {t} : /\ pc'[u] = pc[u] /\ Owns(u)' = Owns(u)
                                    /\ Scanning(u)' = Scanning(u)
        /\ \A u \in Threads \ {t} : Scanning(u) => met'[u] = met[u] \cup {t}
    BY DEF TypeOK, alloc_cmpxchg, Meet, Owns, Scanning
  <1>3. MetOrdered'
    BY <1>1, <1>2 DEF MetInv, MetOrdered
  <1>4. ASSUME NEW u \in Threads, Scanning(u)', NEW j \in 0 .. Passed(u)'
        PROVE  Cardinality(Before(u, j)') >= j
    <2>1. u # t /\ Scanning(u) /\ met'[u] = met[u] \cup {t}
      BY <1>2, <1>4
    <2>2. /\ Passed(u) \in Nat /\ Passed(u)' \in Nat /\ j \in Nat
          /\ Passed(u)' <= Passed(u) \/ (Passed(u) = i /\ Passed(u)' = i + 1)
      <3>1. Passed(u) \in {index[u], index[u] + 1} /\ index[u] \in Nat
        BY MetTyped
      <3>2. Passed(u)' \in {index[u], index[u] + 1}
        BY <1>2 DEF Passed
      <3>3. index[u] # i => Passed(u)' = Passed(u)
        BY <1>2, <2>1 DEF Passed, alloc_cmpxchg, TypeOK, LocalsOK
      <3>4. QED  BY <3>1, <3>2, <3>3
    <2>3. /\ Before(u, j)' \in SUBSET Threads
          /\ \A k \in Nat : Before(u, k) \in SUBSET Threads
          /\ \A k \in Nat : Before(t, k) \in SUBSET Threads
      BY MetTyped DEF TypeOK, Before
    \* A set without t that is large enough for every slot up to i.
    <2>4. PICK B \in SUBSET Threads :
            /\ t \notin B /\ Cardinality(B) >= (IF j <= i THEN j ELSE i)
            /\ B \subseteq met[u]
            /\ \A v \in B : ~(Owns(v) /\ index[v] >= (IF j <= i THEN j ELSE i))
      <3> DEFINE k == IF j <= i THEN j ELSE i
      <3>1. k \in Nat /\ k <= i
        BY <1>1, <2>2
      <3>2. CASE t \notin met[u]
        <4>1. k \in 0 .. Passed(u)
          BY <1>1, <2>2, <3>1
        <4>2. Cardinality(Before(u, k)) >= k
          BY <2>1, <4>1 DEF MetInv, MetCounted
        <4>3. /\ Before(u, k) \in SUBSET Threads /\ t \notin Before(u, k)
              /\ Before(u, k) \subseteq met[u]
              /\ \A v \in Before(u, k) : ~(Owns(v) /\ index[v] >= k)
          BY <2>3, <3>1, <3>2 DEF Before
        <4>4. QED  BY <4>2, <4>3
      <3>3. CASE t \in met[u]
        <4>1. k \in 0 .. Passed(t) /\ met[t] \subseteq met[u]
          BY <1>1, <2>1, <3>1, <3>3, MetTyped DEF MetInv, MetOrdered
        <4>2. Cardinality(Before(t, k)) >= k
          BY <1>1, <4>1 DEF MetInv, MetCounted
        <4>3. /\ Before(t, k) \in SUBSET Threads /\ t \notin Before(t, k)
              /\ Before(t, k) \subseteq met[u]
              /\ \A v \in Before(t, k) : ~(Owns(v) /\ index[v] >= k)
          BY <1>1, <2>3, <3>1, <4>1 DEF Before
        <4>4. QED  BY <4>2, <4>3
      <3>4. QED  BY <3>2, <3>3
    <2>5. CASE j <= i
      <3>1. B \subseteq Before(u, j)'
        BY <1>2, <2>1, <2>4, <2>5 DEF Before
      <3>2. Cardinality(B) <= Cardinality(Before(u, j)')
        BY <2>3, <3>1, Sizes
      <3>3. Cardinality(B) \in Nat /\ Cardinality(Before(u, j)') \in Nat
        BY <2>3, Sizes
      <3>4. QED  BY <2>2, <2>4, <2>5, <3>2, <3>3
    <2>6. CASE j > i /\ j <= Passed(u)
      <3>1. Before(u, j) \subseteq Before(u, j)'
        BY <1>1, <1>2, <2>1, <2>2, <2>6 DEF Before, TypeOK
      <3>2. Cardinality(Before(u, j)) >= j
        BY <2>1, <2>2, <2>6 DEF MetInv, MetCounted
      <3>3. Cardinality(Before(u, j)) <= Cardinality(Before(u, j)')
        BY <2>2, <2>3, <3>1, Sizes
      <3>4. Cardinality(Before(u, j)) \in Nat /\ Cardinality(Before(u, j)') \in Nat
        BY <2>2, <2>3, Sizes
      <3>5. QED  BY <2>2, <3>2, <3>3, <3>4
    <2>7. CASE j > i /\ j > Passed(u)
      <3>1. j = i + 1
        BY <1>1, <2>2, <2>7
      <3>2. B \subseteq Before(u, j)' /\ t \in Before(u, j)' \ B
        <4>1. i >= i /\ ~(i >= j)
          BY <1>1, <3>1
        <4>2. \A v \in B : Owns(v) => ~(index[v] >= j)
          BY <1>1, <2>4, <3>1, MetTyped DEF TypeOK
        <4>3. B \subseteq Before(u, j)'
          BY <1>2, <2>1, <2>4, <4>2 DEF Before
        <4>4. t \in Before(u, j)'
          BY <1>2, <2>1, <4>1 DEF Before
        <4>5. QED  BY <2>4, <4>3, <4>4
      <3>3. Cardinality(Before(u, j)') >= Cardinality(B) + 1
        BY <2>3, <3>2, Sizes
      <3>4. Cardinality(B) \in Nat /\ Cardinality(Before(u, j)') \in Nat
        BY <2>3, Sizes
      <3>5. Cardinality(B) >= i
        BY <1>1, <2>4, <3>1
      <3>6. QED  BY <1>1, <3>1, <3>3, <3>4, <3>5
    <2>8. QED  BY <1>1, <2>2, <2>5, <2>6, <2>7
  <1>5. QED  BY <1>3, <1>4 DEF MetInv, MetCounted

\* A claim that fails: the slot counted as passed already.
LEMMA MetLose ==
  ASSUME TypeOK, TypeOK', LocalsOK, MetInv, NEW t \in Threads,
         alloc_cmpxchg(t), tx_table[index[t]] # seen[t]
  PROVE  MetInv'
  <1>1. /\ met' = met /\ tx_table' = tx_table /\ seen' = seen
        /\ pc[t] = "claim" /\ pc' = [pc EXCEPT ![t] = "scan"]
        /\ index' = [index EXCEPT ![t] = @ + 1]
    BY DEF alloc_cmpxchg
  <1>2. /\ \A u \in Threads : Owns(u)' = Owns(u) /\ Scanning(u)' = Scanning(u)
        /\ \A u \in Threads : Owns(u) => index'[u] = index[u]
    BY <1>1 DEF TypeOK, Owns, Scanning
  <1>3. MetOrdered'
    BY <1>1, <1>2 DEF MetInv, MetOrdered
  <1>4. ASSUME NEW u \in Threads, Scanning(u)'
        PROVE  \A j \in 0 .. Passed(u)' : Cardinality(Before(u, j)') >= j
    <2>1. Passed(u)' = Passed(u)
      BY <1>1 DEF Passed, TypeOK
    <2>2. \A j \in Nat : Before(u, j) \subseteq Before(u, j)'
      BY <1>1, <1>2 DEF Before, TypeOK
    <2>3. QED  BY <1>2, <1>4, <2>1, <2>2, CountKept, MetTyped DEF MetInv
  <1>5. QED  BY <1>3, <1>4 DEF MetInv, MetCounted

\* Nobody scans while the graph is down or recovers.
LEMMA MetDown ==
  ASSUME LocalsOK, Crash \/ (\E ro \in BOOLEAN : Open(ro)) \/ Recover
  PROVE  MetInv'
  <1>1. \A u \in Threads : ~Scanning(u)'
    BY DEF LocalsOK, Idle, Scanning, Crash, Open, Recover, recover_slot,
           recover_refuse, recover_done, locals
  <1>2. QED  BY <1>1 DEF MetInv, MetOrdered, MetCounted

\* Every step keeps the counts of the threads that scan.
LEMMA StepMet == IInv /\ IInv' /\ MetInv /\ [Next]_vars => MetInv'
  <1> SUFFICES ASSUME IInv, IInv', MetInv, [Next]_vars PROVE MetInv'  OBVIOUS
  <1> USE DEF IInv
  <1>1. ASSUME NEW t \in Threads, alloc_read_only(t) \/ free_commit(t)
        PROVE  MetInv'
    BY <1>1, MetQuiet DEF alloc_read_only, free_commit
  <1>2. ASSUME NEW t \in Threads, alloc_id(t)  PROVE MetInv'
    BY <1>2, MetBegin
  <1>3. ASSUME NEW t \in Threads, alloc_load(t)  PROVE MetInv'
    BY <1>3, MetLoad
  <1>4. ASSUME NEW t \in Threads, alloc_throw(t) \/ free_clear(t)  PROVE MetInv'
    BY <1>4, MetLeave
  <1>5. ASSUME NEW t \in Threads, alloc_cmpxchg(t)  PROVE MetInv'
    BY <1>5, MetWin, MetLose
  <1>6. CASE (\E s \in Slots : WriteBack(s)) \/ UNCHANGED vars
    <2>1. UNCHANGED <<tx_table, pc, index, seen, met>>
      BY <1>6 DEF WriteBack, locals, vars
    <2>2. ASSUME NEW u \in Threads, Scanning(u)'
          PROVE  \A j \in 0 .. Passed(u)' : Cardinality(Before(u, j)') >= j
      BY <2>1, <2>2 DEF MetInv, MetCounted, Scanning, Passed, Before, Owns
    <2>3. MetOrdered'
      BY <2>1 DEF MetInv, MetOrdered, Scanning, Owns
    <2>4. QED  BY <2>2, <2>3 DEF MetInv, MetCounted
  <1>7. CASE Crash \/ (\E ro \in BOOLEAN : Open(ro)) \/ Recover
    BY <1>7, MetDown
  <1>8. QED
    BY <1>1, <1>2, <1>3, <1>4, <1>5, <1>6, <1>7 DEF Next, Alloc, Free

\* alloc_transaction throws OutOfTransactions only when the thread has met as
\* many other transactions as there are slots since it began, for any number of
\* threads and slots: slots freed behind the scan and lost races included.
THEOREM TurnedAwayOnlyWhenFull == Spec => []OutOfTransactionsOnlyWhenFull
  <1>1. Init => MetInv
    BY DEF Init, MetInv, MetOrdered, MetCounted, Scanning
  <1>2. IInv /\ MetInv => OutOfTransactionsOnlyWhenFull
    <2> SUFFICES ASSUME IInv, MetInv, NEW t \in Threads,
                        pc[t] = "scan", index[t] = MaxTransactions
                 PROVE  Cardinality(met[t] \ {t}) >= MaxTransactions
      BY DEF OutOfTransactionsOnlyWhenFull
    <2> DEFINE n == MaxTransactions
    <2>1. Scanning(t) /\ Passed(t) = n /\ n \in Nat
      BY TableAssumption DEF Scanning, Passed
    <2>2. Cardinality(Before(t, n)) >= n
      BY <2>1 DEF MetInv, MetCounted
    <2>3. Before(t, n) \in SUBSET Threads /\ met[t] \ {t} \in SUBSET Threads
      BY <2>1, MetTyped DEF IInv
    <2>4. Before(t, n) \subseteq met[t] \ {t}
      BY <2>1 DEF Before, MetInv, MetOrdered
    <2>5. Cardinality(Before(t, n)) <= Cardinality(met[t] \ {t})
      BY <2>3, <2>4, Sizes
    <2>6. Cardinality(Before(t, n)) \in Nat /\ Cardinality(met[t] \ {t}) \in Nat
      BY <2>3, Sizes
    <2>7. QED  BY <2>1, <2>2, <2>5, <2>6
  <1>3. QED  BY InitIInv, Invariance, StepMet, <1>1, <1>2, PTL DEF Spec
=============================================================================
