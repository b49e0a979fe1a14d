------------------------- MODULE TransactionManager -------------------------
(***************************************************************************)
(* The transaction table of src/src/TransactionManager.{h,cc}: threads     *)
(* draw an id, scan the table for a slot and claim it with cmpxchg, give   *)
(* it back, and a restart after a crash finds out what was in flight.      *)
(*                                                                         *)
(* A step is one access to shared memory.  The table lives in persistent   *)
(* memory behind the CPU cache: tx_table is what threads see, pm_table     *)
(* what a power failure leaves.  A line may be written back at any moment  *)
(* (WriteBack) and has been written back once a flush was followed by a    *)
(* barrier; a flush alone promises nothing.  The data and the journal are  *)
(* the subject of module Transaction.                                      *)
(***************************************************************************)
EXTENDS Naturals, FiniteSets

CONSTANTS
  Threads,
  MaxTransactions,   \* _max_transactions, the number of slots
  MaxId,             \* bound on ids drawn
  MaxCrashes         \* bound on crashes

ASSUME ThreadsAssumption == IsFiniteSet(Threads)
ASSUME TableAssumption == MaxTransactions \in Nat \ {0}
ASSUME BoundAssumption == MaxId \in Nat /\ MaxCrashes \in Nat

VARIABLES
  tx_table,    \* the headers as the CPUs see them
  pm_table,    \* the headers in persistent memory
  cur_tx_id,   \* _cur_tx_id, in DRAM
  pc, id, index, seen,   \* per thread: location and locals of the calls
  mode,        \* "up", "down", or "recover" while recover() runs
  at,          \* loop variable of recover()
  max_tx_id,   \* local of recover()
  read_only,   \* how the graph was opened
  crashes,     \* number of crashes so far
  met          \* history: who has owned a slot since a thread began its scan

locals == <<pc, id, index, seen>>
boot == <<mode, at, max_tx_id, read_only, crashes>>
vars == <<tx_table, pm_table, cur_tx_id, locals, boot, met>>

Slots == 0 .. (MaxTransactions - 1)
Ids == 0 .. MaxId
\* A TransactionHdr's tx_id word: the id and the ACTIVE bit.
Hdr == [id : Ids, active : BOOLEAN]

Idle(t) == pc[t] \in {"out", "reader"}
\* The transaction of t exists: from a successful cmpxchg to free_transaction.
Owns(t) == pc[t] = "in"

\* reset_table, when the graph is created.
Init ==
  /\ tx_table = [s \in Slots |-> [id |-> 0, active |-> FALSE]]
  /\ pm_table = tx_table
  /\ cur_tx_id = 0
  /\ pc = [t \in Threads |-> "out"]
  /\ id = [t \in Threads |-> 0]
  /\ index = [t \in Threads |-> 0]
  /\ seen = [t \in Threads |-> [id |-> 0, active |-> FALSE]]
  /\ mode = "up" /\ at = 0 /\ max_tx_id = 0 /\ read_only = FALSE
  /\ crashes = 0
  /\ met = [t \in Threads |-> {}]

(***************************************************************************)
(* alloc_transaction                                                       *)
(***************************************************************************)
\* A read-only transaction takes neither an id nor a slot; its end does nothing.
alloc_read_only(t) ==
  /\ mode = "up"
  /\ \/ pc[t] = "out" /\ pc' = [pc EXCEPT ![t] = "reader"]
     \/ pc[t] = "reader" /\ pc' = [pc EXCEPT ![t] = "out"]
  /\ UNCHANGED <<tx_table, pm_table, cur_tx_id, id, index, seen, boot, met>>

\* Slip: the scan starts at the second slot.
alloc_id_skip(t) ==
  /\ mode = "up" /\ ~read_only
  /\ pc[t] = "out" /\ cur_tx_id < MaxId
  /\ cur_tx_id' = cur_tx_id + 1
  /\ id' = [id EXCEPT ![t] = cur_tx_id + 1]
  /\ index' = [index EXCEPT ![t] = 1]
  /\ pc' = [pc EXCEPT ![t] = "scan"]
  /\ met' = [met EXCEPT ![t] = {u \in Threads : Owns(u)}]
  /\ UNCHANGED <<tx_table, pm_table, seen, boot>>

\* atomic_inc(_cur_tx_id) + 1.  The Transaction constructor has refused a
\* read-write transaction on a graph opened read-only before.
alloc_id(t) ==
  /\ mode = "up" /\ ~read_only
  /\ pc[t] = "out" /\ cur_tx_id < MaxId
  /\ cur_tx_id' = cur_tx_id + 1
  /\ id' = [id EXCEPT ![t] = cur_tx_id + 1]
  /\ index' = [index EXCEPT ![t] = 0]
  /\ pc' = [pc EXCEPT ![t] = "scan"]
  /\ met' = [met EXCEPT ![t] = {u \in Threads : Owns(u)}]
  /\ UNCHANGED <<tx_table, pm_table, seen, boot>>

\* One turn of the scan: load the header, or run out of slots and throw.
alloc_load(t) ==
  /\ pc[t] = "scan" /\ index[t] < MaxTransactions
  /\ IF tx_table[index[t]].active
     THEN index' = [index EXCEPT ![t] = @ + 1] /\ UNCHANGED <<pc, seen>>
     ELSE /\ seen' = [seen EXCEPT ![t] = tx_table[index[t]]]
          /\ pc' = [pc EXCEPT ![t] = "claim"]
          /\ UNCHANGED index
  /\ UNCHANGED <<tx_table, pm_table, cur_tx_id, id, boot, met>>

alloc_throw(t) ==
  /\ pc[t] = "scan" /\ index[t] = MaxTransactions
  /\ pc' = [pc EXCEPT ![t] = "out"]
  /\ met' = [met EXCEPT ![t] = {}]
  /\ UNCHANGED <<tx_table, pm_table, cur_tx_id, id, index, seen, boot>>

\* t owns a slot from here on, and the threads that scan now have met it.
Meet(t) ==
  met' = [u \in Threads |-> IF u = t THEN {}
                            ELSE IF pc[u] \in {"scan", "claim"} THEN met[u] \cup {t}
                            ELSE met[u]]

\* Slip: a plain store instead of cmpxchg.
alloc_store(t) ==
  /\ pc[t] = "claim"
  /\ tx_table' = [tx_table EXCEPT ![index[t]] = [id |-> id[t], active |-> TRUE]]
  /\ pc' = [pc EXCEPT ![t] = "in"] /\ Meet(t)
  /\ UNCHANGED <<index, pm_table, cur_tx_id, id, seen, boot>>

\* cmpxchg of the header; whoever loses goes on to the next slot.
alloc_cmpxchg(t) ==
  /\ pc[t] = "claim"
  /\ IF tx_table[index[t]] = seen[t]
     THEN /\ tx_table' = [tx_table EXCEPT ![index[t]] = [id |-> id[t], active |-> TRUE]]
          /\ pc' = [pc EXCEPT ![t] = "in"] /\ Meet(t)
          /\ UNCHANGED index
     ELSE /\ index' = [index EXCEPT ![t] = @ + 1]
          /\ pc' = [pc EXCEPT ![t] = "scan"]
          /\ UNCHANGED <<tx_table, met>>
  /\ UNCHANGED <<pm_table, cur_tx_id, id, seen, boot>>

(***************************************************************************)
(* free_transaction: clear ACTIVE, then flush and wait for the flush.      *)
(***************************************************************************)
\* Slip: the flag is left as it was.
free_nothing(t) ==
  /\ pc[t] = "in"
  /\ pc' = [pc EXCEPT ![t] = "flush"]
  /\ UNCHANGED <<tx_table, pm_table, cur_tx_id, id, index, seen, boot, met>>

free_clear(t) ==
  /\ pc[t] = "in"
  /\ tx_table' = [tx_table EXCEPT ![index[t]].active = FALSE]
  /\ pc' = [pc EXCEPT ![t] = "flush"]
  /\ UNCHANGED <<pm_table, cur_tx_id, id, index, seen, boot, met>>

free_commit(t) ==
  /\ pc[t] = "flush"
  /\ pm_table' = [pm_table EXCEPT ![index[t]] = tx_table[index[t]]]
  /\ pc' = [pc EXCEPT ![t] = "out"]
  /\ UNCHANGED <<tx_table, cur_tx_id, id, index, seen, boot, met>>

(***************************************************************************)
(* Persistence, power failure and recover().                               *)
(***************************************************************************)
WriteBack(s) ==
  /\ pm_table[s] # tx_table[s]
  /\ pm_table' = [pm_table EXCEPT ![s] = tx_table[s]]
  /\ UNCHANGED <<tx_table, cur_tx_id, locals, boot, met>>

\* What the cache held and what the threads were doing is lost.
Crash ==
  /\ mode # "down" /\ crashes < MaxCrashes
  /\ crashes' = crashes + 1
  /\ mode' = "down"
  /\ tx_table' = pm_table
  /\ pc' = [t \in Threads |-> "out"]
  /\ met' = [t \in Threads |-> {}]
  /\ UNCHANGED <<pm_table, cur_tx_id, id, index, seen, at, max_tx_id, read_only>>

Open(ro) ==
  /\ mode = "down"
  /\ mode' = "recover" /\ at' = 0 /\ max_tx_id' = 0 /\ read_only' = ro
  /\ UNCHANGED <<tx_table, pm_table, cur_tx_id, locals, crashes, met>>

\* Slip: the maximum misses the transactions that were rolled back.
recover_slot_skip ==
  /\ mode = "recover" /\ at < MaxTransactions
  /\ read_only => ~tx_table[at].active
  /\ tx_table' = [tx_table EXCEPT ![at].active = FALSE]
  /\ max_tx_id' = IF ~tx_table[at].active /\ tx_table[at].id > max_tx_id
                  THEN tx_table[at].id ELSE max_tx_id
  /\ at' = at + 1
  /\ UNCHANGED <<pm_table, cur_tx_id, locals, mode, read_only, crashes, met>>

\* One turn of the loop of recover(): roll the slot's transaction back (module
\* Transaction), clear and flush the header, and remember the highest id.
recover_slot ==
  /\ mode = "recover" /\ at < MaxTransactions
  /\ read_only => ~tx_table[at].active
  /\ tx_table' = [tx_table EXCEPT ![at].active = FALSE]
  /\ max_tx_id' = IF tx_table[at].id > max_tx_id THEN tx_table[at].id ELSE max_tx_id
  /\ at' = at + 1
  /\ UNCHANGED <<pm_table, cur_tx_id, locals, mode, read_only, crashes, met>>

\* A graph that needs recovery cannot be opened read-only: throw ReadOnly.
recover_refuse ==
  /\ mode = "recover" /\ at < MaxTransactions
  /\ read_only /\ tx_table[at].active
  /\ mode' = "down"
  /\ UNCHANGED <<tx_table, pm_table, cur_tx_id, locals, at, max_tx_id, read_only,
                 crashes, met>>

\* The GraphImpl constructor ends with a barrier, which completes the flushes.
recover_done ==
  /\ mode = "recover" /\ at = MaxTransactions
  /\ cur_tx_id' = max_tx_id
  /\ pm_table' = tx_table
  /\ mode' = "up"
  /\ UNCHANGED <<tx_table, locals, at, max_tx_id, read_only, crashes, met>>

Alloc(t) == alloc_id(t) \/ alloc_load(t) \/ alloc_throw(t) \/ alloc_cmpxchg(t)
Free(t) == free_clear(t) \/ free_commit(t)
Recover == recover_slot \/ recover_refuse \/ recover_done

Next ==
  \/ \E t \in Threads : alloc_read_only(t) \/ Alloc(t) \/ Free(t)
  \/ \E s \in Slots : WriteBack(s)
  \/ Crash
  \/ \E ro \in BOOLEAN : Open(ro)
  \/ Recover

Spec == Init /\ [][Next]_vars

-----------------------------------------------------------------------------
TypeOK ==
  /\ tx_table \in [Slots -> Hdr] /\ pm_table \in [Slots -> Hdr]
  /\ cur_tx_id \in Ids /\ max_tx_id \in Ids
  /\ pc \in [Threads -> {"out", "reader", "scan", "claim", "in", "flush"}]
  /\ id \in [Threads -> Ids]
  /\ index \in [Threads -> 0 .. MaxTransactions]
  /\ seen \in [Threads -> Hdr]
  /\ mode \in {"up", "down", "recover"}
  /\ at \in 0 .. MaxTransactions
  /\ read_only \in BOOLEAN
  /\ crashes \in 0 .. MaxCrashes
  /\ met \in [Threads -> SUBSET Threads]

\* alloc_transaction hands out a slot, and with it a journal extent, to one
\* transaction at a time, although the scan loads the header long before it
\* claims it; the header names its owner until the owner clears it.
SlotExclusive ==
  /\ \A t \in Threads : Owns(t) =>
       index[t] \in Slots /\ tx_table[index[t]] = [id |-> id[t], active |-> TRUE]
  /\ \A t, u \in Threads : Owns(t) /\ Owns(u) /\ index[t] = index[u] => t = u

\* While the graph is up an ACTIVE header belongs to a live transaction: no
\* slot is lost by threads that give up, by crashes or by recovery.
NoSlotLeaks ==
  mode = "up" => \A s \in Slots : tx_table[s].active =>
                   \E t \in Threads : Owns(t) /\ index[t] = s

\* What recover() leaves in _cur_tx_id is at least every id in the table, in
\* the cache and in persistent memory, although transactions may claim slots in
\* another order than they drew their ids and the last flushes of a crashed run
\* are lost: the next id drawn differs from that of every header.
CurIdDominates ==
  mode = "up" => \A s \in Slots : tx_table[s].id <= cur_tx_id /\ pm_table[s].id <= cur_tx_id

\* A thread that is about to throw OutOfTransactions has met as many other
\* transactions as there are slots since its scan began: slots that become free
\* behind the scan, and lost races, do not turn a transaction away without need.
OutOfTransactionsOnlyWhenFull ==
  \A t \in Threads : pc[t] = "scan" /\ index[t] = MaxTransactions =>
    Cardinality(met[t] \ {t}) >= MaxTransactions
=============================================================================
