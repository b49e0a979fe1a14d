---------------------------- MODULE Transaction ----------------------------
(***************************************************************************)
(* The undo journal of src/src/transaction.cc and TransactionImpl.h on top *)
(* of the transaction table: log the old contents, overwrite in place,     *)
(* make everything durable at commit or put it back at abort, release the  *)
(* locks, free the slot; and the recovery that follows a power failure at  *)
(* any point, recovery included.                                           *)
(*                                                                         *)
(* An address is one cache line of graph data.  The PM build is modelled:  *)
(* mem, hdr and jrn are what the CPUs see, pm, phdr and pjrn what survives *)
(* a failure.  Any line may be written back at any moment (WriteBack); a   *)
(* flush guarantees it only once the thread has passed a barrier, so a     *)
(* flush and the barrier that completes it are one step.  The exception is *)
(* the header that alloc_transaction flushes: if the build uses clflush    *)
(* (OrderedFlush), later stores cannot become durable before it; with clwb *)
(* or clflushopt, which src/Makeconf prefers, they can.                    *)
(*                                                                         *)
(* Slot allocation (module TransactionManager) is two steps here, drawing  *)
(* the id and claiming any free slot.  Locks (modules RWLock and TxLocks)  *)
(* are exclusive owners: owner[a] is the transaction that holds the write  *)
(* lock of the object on line a.                                           *)
(*                                                                         *)
(* A transaction is completed when its destructor has cleared ACTIVE:      *)
(* "Writing 0 to the transaction-id commits the transaction"               *)
(* (TransactionManager.cc:161).  A failure between commit() and that point *)
(* rolls it back.                                                          *)
(***************************************************************************)
EXTENDS Naturals, Sequences, FiniteSets

CONSTANTS
  Threads,
  Addr,        \* cache lines of graph data
  Val,         \* their contents
  Slots,       \* indices of the transaction table, 0 .. n-1
  JSize,       \* journal entries in an extent
  Ranges,      \* the line sequences that a log() call may cover
  Footprint,   \* Footprint[t]: the lines the transactions of t work on
  OrderedFlush, \* PMFLUSH is clflush
  SerialBegin, \* the application starts one transaction at a time
  MaxId,       \* bound on the ids drawn
  MaxCrashes,  \* bound on power failures
  None         \* no thread, no address, no value

ASSUME SlotsAssumption ==
  /\ Slots \subseteq Nat /\ IsFiniteSet(Slots) /\ Slots # {}
  /\ \A s \in Slots : 0 .. s \subseteq Slots
ASSUME ConstAssumption ==
  /\ JSize \in Nat \ {0} /\ MaxId \in Nat /\ MaxCrashes \in Nat
  /\ Ranges \subseteq Seq(Addr)
  /\ Footprint \in [Threads -> SUBSET Addr]
  /\ OrderedFlush \in BOOLEAN /\ SerialBegin \in BOOLEAN
  /\ None \notin Threads \cup Addr \cup Val /\ None \notin Nat
  /\ Val # {}

VARIABLES
  mem, pm,       \* graph data: cached, persistent
  hdr, phdr,     \* transaction table: cached, persistent
  jrn, pjrn,     \* journal extents: cached, persistent
  cur_tx_id,     \* _cur_tx_id
  pc,            \* where each thread is
  id, slot,      \* _tx_handle
  jcur,          \* _jcur - jbegin(): journal entries written
  range,         \* what is left to log of the current log() call
  logged,        \* lines covered by completed log() calls
  todo,          \* journal entries left to undo
  owner,         \* who holds the write lock of a line
  mode,          \* "up", or "recover" while the constructor runs recover()
  at, max_tx_id, \* locals of recover()
  left,          \* journal entries recovery has left to undo in slot at
  crashes,
  ws,            \* history: the writes of a transaction not yet durable
  store,         \* history: the durable effect of the finished transactions
  vstore         \* history: the same, transactions that passed commit() included

data == <<mem, pm>>
table == <<hdr, phdr, cur_tx_id>>
journal == <<jrn, pjrn>>
txLocals == <<id, slot, jcur, range, logged, todo>>
boot == <<mode, at, max_tx_id, left, crashes>>
history == <<ws, store, vstore>>
vars == <<data, table, journal, pc, txLocals, owner, boot, history>>

Ids == 0 .. MaxId
Hdr == [id : Ids, active : BOOLEAN]
Entry == [id : Ids, addr : Addr \cup {None}, old : Val \cup {None}]
NoWrites == [a \in Addr |-> None]
Overlay(base, w) == [a \in Addr |-> IF w[a] = None THEN base[a] ELSE w[a]]

Init ==
  /\ mem \in [Addr -> Val] /\ pm = mem
  /\ hdr = [s \in Slots |-> [id |-> 0, active |-> FALSE]] /\ phdr = hdr
  /\ jrn = [s \in Slots |-> [i \in 1 .. JSize |-> [id |-> 0, addr |-> None, old |-> None]]]
  /\ pjrn = jrn
  /\ cur_tx_id = 0
  /\ pc = [t \in Threads |-> "out"]
  /\ id = [t \in Threads |-> 0]
  /\ slot = [t \in Threads |-> 0]
  /\ jcur = [t \in Threads |-> 0]
  /\ range = [t \in Threads |-> <<>>]
  /\ logged = [t \in Threads |-> {}]
  /\ todo = [t \in Threads |-> 0]
  /\ owner = [a \in Addr |-> None]
  /\ mode = "up" /\ at = 0 /\ max_tx_id = 0 /\ left = None /\ crashes = 0
  /\ ws = [t \in Threads |-> NoWrites]
  /\ store = mem /\ vstore = mem

Goto(t, from, to) ==
  /\ mode = "up" /\ pc[t] = from
  /\ pc' = [pc EXCEPT ![t] = to]

(***************************************************************************)
(* Persistence.  When the header of slot s reaches persistent memory after *)
(* free_transaction cleared it, the transaction that cleared it can no     *)
(* longer be rolled back: its writes have become part of the store.        *)
(***************************************************************************)
Freed(s) == {t \in Threads : pc[t] = "free" /\ slot[t] = s /\ ws[t] # NoWrites}

PersistHdr(s) ==
  /\ phdr' = [phdr EXCEPT ![s] = hdr[s]]
  /\ store' = [a \in Addr |->
       IF \E t \in Freed(s) : ws[t][a] # None
       THEN LET t == CHOOSE t \in Freed(s) : ws[t][a] # None IN ws[t][a]
       ELSE store[a]]
  /\ ws' = [t \in Threads |-> IF t \in Freed(s) THEN NoWrites ELSE ws[t]]

\* The lines A are durable as they are now.
PersistData(A) == pm' = [a \in Addr |-> IF a \in A THEN mem[a] ELSE pm[a]]

\* The lines an extent's first n entries point to.
EntryAddrs(s, n) == {jrn[s][i].addr : i \in 1 .. n}

(***************************************************************************)
(* The constructor: alloc_transaction draws an id and claims a free slot.  *)
(***************************************************************************)
begin_id(t) ==
  /\ Goto(t, "out", "begin")
  /\ SerialBegin => \A u \in Threads : pc[u] \notin {"begin", "claimed"}
  /\ cur_tx_id < MaxId
  /\ cur_tx_id' = cur_tx_id + 1
  /\ id' = [id EXCEPT ![t] = cur_tx_id + 1]
  /\ UNCHANGED <<data, hdr, phdr, journal, slot, jcur, range, logged, todo, owner,
                 boot, history>>

begin_slot(t, s) ==
  /\ Goto(t, "begin", "claimed")
  /\ ~hdr[s].active
  /\ hdr' = [hdr EXCEPT ![s] = [id |-> id[t], active |-> TRUE]]
  /\ slot' = [slot EXCEPT ![t] = s]
  /\ UNCHANGED <<data, phdr, cur_tx_id, journal, id, jcur, range, logged, todo, owner,
                 boot, history>>

begin_flush(t) ==
  /\ Goto(t, "claimed", "run")
  /\ IF OrderedFlush THEN PersistHdr(slot[t]) ELSE UNCHANGED <<phdr, store, ws>>
  /\ UNCHANGED <<data, hdr, cur_tx_id, journal, txLocals, owner, boot, vstore>>

\* OutOfTransactions: the id is lost.
begin_throw(t) ==
  /\ Goto(t, "begin", "out")
  /\ \A s \in Slots : hdr[s].active
  /\ UNCHANGED <<data, table, journal, txLocals, owner, boot, history>>

(***************************************************************************)
(* The body: lock, log, write in place.                                    *)
(***************************************************************************)
lock(t, a) ==
  /\ Goto(t, "run", "run")
  /\ a \in Footprint[t] /\ owner[a] = None
  /\ owner' = [owner EXCEPT ![a] = t]
  /\ UNCHANGED <<data, table, journal, txLocals, boot, history>>

\* Slip: every log() call starts at the first entry.
log_begin_rewinds(t, r) ==
  /\ Goto(t, "run", "log")
  /\ \A i \in 1 .. Len(r) : owner[r[i]] = t
  /\ Len(r) < JSize
  /\ range' = [range EXCEPT ![t] = r]
  /\ jcur' = [jcur EXCEPT ![t] = 0]
  /\ UNCHANGED <<data, table, journal, id, slot, logged, todo, owner, boot, history>>

\* log() of the lines r, all locked: there must be room for the entries.
log_begin(t, r) ==
  /\ Goto(t, "run", "log")
  /\ \A i \in 1 .. Len(r) : owner[r[i]] = t
  /\ jcur[t] + Len(r) < JSize
  /\ range' = [range EXCEPT ![t] = r]
  /\ UNCHANGED <<data, table, journal, id, slot, jcur, logged, todo, owner, boot, history>>

\* log_je up to the compiler barrier: the entry's length, address and data.
log_je_data(t) ==
  /\ Goto(t, "log", "stamp")
  /\ range[t] # <<>>
  /\ LET a == Head(range[t]) IN
     jrn' = [jrn EXCEPT ![slot[t]][jcur[t] + 1].addr = a,
                        ![slot[t]][jcur[t] + 1].old = mem[a]]
  /\ UNCHANGED <<data, table, pjrn, txLocals, owner, boot, history>>

\* log_je after it: the id makes the entry valid.
log_je_stamp(t) ==
  /\ Goto(t, "stamp", "log")
  /\ jrn' = [jrn EXCEPT ![slot[t]][jcur[t] + 1].id = id[t]]
  /\ jcur' = [jcur EXCEPT ![t] = @ + 1]
  /\ range' = [range EXCEPT ![t] = Tail(@)]
  /\ logged' = [logged EXCEPT ![t] = @ \cup {Head(range[t])}]
  /\ UNCHANGED <<data, table, pjrn, id, slot, todo, owner, boot, history>>

\* Slip: log() returns without the barrier.
log_commit_missing(t) ==
  /\ Goto(t, "log", "run")
  /\ range[t] = <<>>
  /\ UNCHANGED <<data, table, journal, txLocals, owner, boot, history>>

\* The barrier at the end of log(): the flushed entries and the header, which
\* alloc_transaction had flushed, are durable.
log_commit(t) ==
  /\ Goto(t, "log", "run")
  /\ range[t] = <<>>
  /\ pjrn' = [pjrn EXCEPT ![slot[t]] =
                [i \in 1 .. JSize |-> IF i <= jcur[t] THEN jrn[slot[t]][i] ELSE @[i]]]
  /\ PersistHdr(slot[t])
  /\ UNCHANGED <<data, hdr, cur_tx_id, jrn, txLocals, owner, boot, vstore>>

\* The caller writes a line it has logged.
write(t, a, v) ==
  /\ Goto(t, "run", "run")
  /\ a \in logged[t]
  /\ mem' = [mem EXCEPT ![a] = v]
  /\ ws' = [ws EXCEPT ![t][a] = v]
  /\ UNCHANGED <<pm, table, journal, txLocals, owner, boot, store, vstore>>

(***************************************************************************)
(* commit(): flush what the journal points to, pass the barrier and set    *)
(* _committed.  An exception (LockTimeout, OutOfJournalSpace) or a         *)
(* Transaction destroyed without commit() rolls back instead.              *)
(***************************************************************************)
\* Slip: commit() does not flush the data.
commit_unflushed(t) ==
  /\ Goto(t, "run", "unlock")
  /\ PersistHdr(slot[t])
  /\ vstore' = Overlay(vstore, ws[t])
  /\ UNCHANGED <<data, hdr, cur_tx_id, journal, txLocals, owner, boot>>

commit(t) ==
  /\ Goto(t, "run", "unlock")
  /\ PersistData(EntryAddrs(slot[t], jcur[t]))
  /\ PersistHdr(slot[t])
  /\ vstore' = Overlay(vstore, ws[t])
  /\ UNCHANGED <<mem, hdr, cur_tx_id, journal, txLocals, owner, boot>>

abort(t) ==
  /\ Goto(t, "run", "undo")
  /\ todo' = [todo EXCEPT ![t] = jcur[t]]
  /\ ws' = [ws EXCEPT ![t] = NoWrites]
  /\ UNCHANGED <<data, table, journal, id, slot, jcur, range, logged, owner, boot,
                 store, vstore>>

\* rollback(), in reverse order.
undo(t) ==
  /\ Goto(t, "undo", "undo")
  /\ todo[t] > 0
  /\ LET e == jrn[slot[t]][todo[t]] IN mem' = [mem EXCEPT ![e.addr] = e.old]
  /\ todo' = [todo EXCEPT ![t] = @ - 1]
  /\ UNCHANGED <<pm, table, journal, id, slot, jcur, range, logged, owner, boot, history>>

\* Slip: the loop leaves out the first entry.
undo_commit_short(t) ==
  /\ Goto(t, "undo", "unlock")
  /\ todo[t] <= 1
  /\ PersistData(EntryAddrs(slot[t], jcur[t]))
  /\ PersistHdr(slot[t])
  /\ UNCHANGED <<mem, hdr, cur_tx_id, journal, txLocals, owner, boot, vstore>>

\* Slip: what rollback restored is not flushed.
undo_commit_unflushed(t) ==
  /\ Goto(t, "undo", "unlock")
  /\ todo[t] = 0
  /\ PersistHdr(slot[t])
  /\ UNCHANGED <<data, hdr, cur_tx_id, journal, txLocals, owner, boot, vstore>>

undo_commit(t) ==
  /\ Goto(t, "undo", "unlock")
  /\ todo[t] = 0
  /\ PersistData(EntryAddrs(slot[t], jcur[t]))
  /\ PersistHdr(slot[t])
  /\ UNCHANGED <<mem, hdr, cur_tx_id, journal, txLocals, owner, boot, vstore>>

(***************************************************************************)
(* The rest of the destructor: unlock_all, then free_transaction.          *)
(***************************************************************************)
unlock(t, a) ==
  /\ Goto(t, "unlock", "unlock")
  /\ owner[a] = t
  /\ owner' = [owner EXCEPT ![a] = None]
  /\ UNCHANGED <<data, table, journal, txLocals, boot, history>>

free_clear(t) ==
  /\ Goto(t, "unlock", "free")
  /\ \A a \in Addr : owner[a] # t
  /\ hdr' = [hdr EXCEPT ![slot[t]].active = FALSE]
  /\ jcur' = [jcur EXCEPT ![t] = 0]
  /\ logged' = [logged EXCEPT ![t] = {}]
  /\ UNCHANGED <<data, phdr, cur_tx_id, journal, id, slot, range, todo, owner, boot, history>>

\* The barrier that ends the destructor: the transaction is completed.
free_commit(t) ==
  /\ Goto(t, "free", "out")
  /\ PersistHdr(slot[t])
  /\ UNCHANGED <<data, hdr, cur_tx_id, journal, txLocals, owner, boot, vstore>>

(***************************************************************************)
(* Write-backs, power failure, and recover() when the graph is reopened.   *)
(***************************************************************************)
WriteBack ==
  \/ \E a \in Addr :
       /\ pm[a] # mem[a] /\ PersistData({a})
       /\ UNCHANGED <<mem, table, journal, pc, txLocals, owner, boot, history>>
  \/ \E s \in Slots :
       /\ phdr[s] # hdr[s] /\ PersistHdr(s)
       /\ UNCHANGED <<data, hdr, cur_tx_id, journal, pc, txLocals, owner, boot, vstore>>
  \/ \E s \in Slots, i \in 1 .. JSize :
       /\ pjrn[s][i] # jrn[s][i] /\ pjrn' = [pjrn EXCEPT ![s][i] = jrn[s][i]]
       /\ UNCHANGED <<data, table, jrn, pc, txLocals, owner, boot, history>>

\* Slip: any entry ever written counts.
ValidEntries_any(h, j) ==
  {i \in 1 .. JSize : \A k \in 1 .. i : j[k].id # 0}

\* "find the last valid journal entry": the entries stamped with the id of the
\* header, up to the first that is not.
ValidEntries(h, j) ==
  {i \in 1 .. JSize : \A k \in 1 .. i : j[k].id = h.id}

\* What recover() would make of the persistent state: the slots in order, in
\* each the entries backwards, so the first entry of the last slot decides.
UndoSlots(a) ==
  {s \in Slots : phdr[s].active
                 /\ \E i \in ValidEntries(phdr[s], pjrn[s]) : pjrn[s][i].addr = a}
FirstEntry(s, a) ==
  CHOOSE i \in ValidEntries(phdr[s], pjrn[s]) :
    /\ pjrn[s][i].addr = a
    /\ \A k \in 1 .. (i - 1) : pjrn[s][k].addr # a
LastSlot(S) == CHOOSE s \in S : \A r \in S : r <= s
Recovered == [a \in Addr |->
  IF UndoSlots(a) = {} THEN pm[a]
  ELSE LET s == LastSlot(UndoSlots(a)) IN pjrn[s][FirstEntry(s, a)].old]

\* Caches, threads and locks are lost.  A transaction that had passed commit()
\* and not yet cleared ACTIVE is in or out of the store as recovery will decide.
Crash ==
  /\ crashes < MaxCrashes
  /\ crashes' = crashes + 1
  /\ mem' = pm /\ hdr' = phdr /\ jrn' = pjrn
  /\ pc' = [t \in Threads |-> "out"]
  /\ jcur' = [t \in Threads |-> 0]
  /\ range' = [t \in Threads |-> <<>>]
  /\ logged' = [t \in Threads |-> {}]
  /\ owner' = [a \in Addr |-> None]
  /\ ws' = [t \in Threads |-> NoWrites] /\ store' = Recovered
  /\ mode' = "recover" /\ at' = 0 /\ max_tx_id' = 0 /\ left' = None
  /\ UNCHANGED <<pm, phdr, pjrn, cur_tx_id, id, slot, todo, vstore>>

recover_scan ==
  /\ mode = "recover" /\ at \in Slots /\ left = None /\ hdr[at].active
  /\ left' = Cardinality(ValidEntries(hdr[at], jrn[at]))
  /\ UNCHANGED <<data, table, journal, pc, txLocals, owner, mode, at, max_tx_id, crashes,
                 history>>

recover_undo ==
  /\ mode = "recover" /\ left # None /\ left # 0
  /\ LET e == jrn[at][left] IN mem' = [mem EXCEPT ![e.addr] = e.old]
  /\ left' = left - 1
  /\ UNCHANGED <<pm, table, journal, pc, txLocals, owner, mode, at, max_tx_id, crashes,
                 history>>

MaxOf(m, n) == IF m > n THEN m ELSE n

\* Slip: recovery clears the header of a rollback that is not durable yet.
recover_clear_early ==
  /\ mode = "recover" /\ left = 0
  /\ hdr' = [hdr EXCEPT ![at].active = FALSE]
  /\ max_tx_id' = MaxOf(hdr[at].id, max_tx_id)
  /\ at' = at + 1 /\ left' = None
  /\ UNCHANGED <<data, phdr, cur_tx_id, journal, pc, txLocals, owner, mode, crashes, history>>

\* The barrier of rollback(), then the header without ACTIVE, flushed only.
recover_clear ==
  /\ mode = "recover" /\ left = 0
  /\ PersistData({jrn[at][i].addr : i \in ValidEntries(hdr[at], jrn[at])})
  /\ hdr' = [hdr EXCEPT ![at].active = FALSE]
  /\ max_tx_id' = MaxOf(hdr[at].id, max_tx_id)
  /\ at' = at + 1 /\ left' = None
  /\ UNCHANGED <<mem, phdr, cur_tx_id, journal, pc, txLocals, owner, mode, crashes, history>>

recover_skip ==
  /\ mode = "recover" /\ at \in Slots /\ left = None /\ ~hdr[at].active
  /\ max_tx_id' = MaxOf(hdr[at].id, max_tx_id)
  /\ at' = at + 1
  /\ UNCHANGED <<data, table, journal, pc, txLocals, owner, mode, left, crashes, history>>

\* The GraphImpl constructor ends with a barrier.
recover_done ==
  /\ mode = "recover" /\ at \notin Slots
  /\ phdr' = hdr /\ cur_tx_id' = max_tx_id
  /\ mode' = "up" /\ at' = 0 /\ max_tx_id' = 0
  /\ vstore' = store
  /\ UNCHANGED <<data, hdr, journal, pc, txLocals, owner, left, crashes, ws, store>>

Recover == recover_scan \/ recover_undo \/ recover_clear \/ recover_skip \/ recover_done

TxStep(t) ==
  \/ begin_id(t) \/ begin_flush(t) \/ begin_throw(t) \/ (\E s \in Slots : begin_slot(t, s))
  \/ (\E a \in Addr : lock(t, a) \/ unlock(t, a) \/ (\E v \in Val : write(t, a, v)))
  \/ (\E r \in Ranges : log_begin(t, r))
  \/ log_je_data(t) \/ log_je_stamp(t) \/ log_commit(t)
  \/ commit(t) \/ abort(t) \/ undo(t) \/ undo_commit(t)
  \/ free_clear(t) \/ free_commit(t)

Next == (\E t \in Threads : TxStep(t)) \/ WriteBack \/ Crash \/ Recover

Spec == Init /\ [][Next]_vars

-----------------------------------------------------------------------------
(***************************************************************************)
(* Properties.                                                             *)
(***************************************************************************)
TypeOK ==
  /\ mem \in [Addr -> Val] /\ pm \in [Addr -> Val]
  /\ hdr \in [Slots -> Hdr] /\ phdr \in [Slots -> Hdr]
  /\ jrn \in [Slots -> [1 .. JSize -> Entry]] /\ pjrn \in [Slots -> [1 .. JSize -> Entry]]
  /\ cur_tx_id \in Ids /\ max_tx_id \in Ids
  /\ pc \in [Threads -> {"out", "begin", "claimed", "run", "log", "stamp", "undo", "unlock", "free"}]
  /\ id \in [Threads -> Ids] /\ slot \in [Threads -> Slots]
  /\ jcur \in [Threads -> 0 .. JSize] /\ todo \in [Threads -> 0 .. JSize]
  /\ range \in [Threads -> Seq(Addr)]
  /\ logged \in [Threads -> SUBSET Addr]
  /\ owner \in [Addr -> Threads \cup {None}]
  /\ mode \in {"up", "recover"}
  /\ at \in Nat /\ crashes \in 0 .. MaxCrashes
  /\ left \in (0 .. JSize) \cup {None}
  /\ ws \in [Threads -> [Addr -> Val \cup {None}]]
  /\ store \in [Addr -> Val] /\ vstore \in [Addr -> Val]

\* A failure at this very moment, whatever the caches have written back, leaves
\* exactly the completed transactions: nothing of a running or aborted one, and
\* all of every one whose destructor has returned after commit().
DurableStore == Recovered = store

\* The weaker promise of README.md:21-23, "each transaction either completes
\* entirely or not at all, [...] and a completed transaction's effects survive
\* any failure": a failure now leaves the completed transactions and some of
\* those between commit() and the end of their destructor, each in full.
Voted == {t \in Threads : pc[t] \in {"unlock", "free"}}
AllOrNothing ==
  mode = "up" => \E T \in SUBSET Voted : \A a \in Addr :
    LET writers == {t \in T : ws[t][a] # None}
    IN  IF writers = {} THEN Recovered[a] = store[a]
        ELSE \E t \in writers : Recovered[a] = ws[t][a]

\* The journal implements the atomic store (README.md:20-23).
Atomic == INSTANCE AtomicStore WITH
  store <- Recovered,
  pending <- ws,
  voted <- {t \in Voted : ws[t] # NoWrites},
  up <- (mode = "up")
ImplementsAtomicStore == Atomic!ASSpec

\* A line nobody has locked shows the committed value: rollback is over before
\* the locks go, and what recovery leaves in memory is the durable store.
Isolation ==
  mode = "up" => \A a \in Addr : owner[a] = None => mem[a] = vstore[a]

\* The write-ahead rule behind both: as soon as log() has returned and until
\* the slot is freed, the persistent header is ACTIVE with the transaction's id
\* and a logged line has a persistent entry that recovery reaches.  Up to the
\* commit the first such entry, which recovery applies last, has the committed
\* contents of the line.
WriteAhead ==
  \A t \in Threads : pc[t] \in {"run", "undo", "unlock"} =>
    \A a \in logged[t] :
      /\ phdr[slot[t]] = [id |-> id[t], active |-> TRUE]
      /\ \E i \in ValidEntries(phdr[slot[t]], pjrn[slot[t]]) :
           /\ pjrn[slot[t]][i].addr = a
           /\ \A k \in 1 .. (i - 1) : pjrn[slot[t]][k].addr # a
           /\ pc[t] # "unlock" => pjrn[slot[t]][i].old = vstore[a]

\* The slots of the transactions that have logged a line and are not committed.
Undoing(a) ==
  {slot[t] : t \in {u \in Threads : pc[u] \in {"run", "undo"} /\ a \in logged[u]}}

\* A failure at this very moment gives a line its committed contents, whoever
\* has overwritten it, unless recovery finds an entry for it that is not one of
\* an uncommitted transaction's completed log() calls: commit() and rollback()
\* have flushed what the journal no longer protects.
CommittedSurvives ==
  mode = "up" => \A a \in Addr : UndoSlots(a) \subseteq Undoing(a) => Recovered[a] = vstore[a]
=============================================================================
