------------------------------ MODULE Allocator ------------------------------
(***************************************************************************)
(* The front end of the allocators: which transaction may use which of the *)
(* AllocatorUnits and the shared pool of 2 MB chunks.  An AllocatorLock is *)
(* an owner word; a transaction keeps what it took until it is destroyed,  *)
(* when the unlock callbacks it registered run.  alloc() takes a unit and  *)
(* then perhaps the chunks, clean_free_list() at commit takes the chunks   *)
(* and then the units: two transactions can wait for each other, and only  *)
(* the bounded number of attempts ends that.                               *)
(***************************************************************************)
EXTENDS Integers, FiniteSets

CONSTANTS
  Threads,
  NumUnits,       \* _allocators.size()
  NUM_ATTEMPTS,   \* 3: rounds before LockTimeout
  None            \* NULL owner

Units == 0 .. NumUnits - 1
Chunks == NumUnits                  \* _chunks_lock_owner
Locks == 0 .. NumUnits

\* A thread's transaction, and the independent one it opens to get a chunk.
Outer(t) == <<t, 0>>
Inner(t) == <<t, 1>>
Txs == Threads \X {0, 1}

ASSUME AllocatorAssumption ==
  /\ NumUnits \in Nat \ {0} /\ NUM_ATTEMPTS \in Nat \ {0}
  /\ None \notin Txs

VARIABLES
  owner,      \* lock -> _owner_tx
  callbacks,  \* tx -> lock -> number of unlock callbacks registered
  alloc_id,   \* thread -> _alloc_id of its transaction, -1 for none
  free_list,  \* thread -> units that the frees of its transaction concern
  pc,
  lock,       \* lock the thread tries next
  tries       \* rounds done without success

vars == <<owner, callbacks, alloc_id, free_list, pc, lock, tries>>

Init ==
  /\ owner = [l \in Locks |-> None]
  /\ callbacks = [x \in Txs |-> [l \in Locks |-> 0]]
  /\ alloc_id = [t \in Threads |-> -1]
  /\ free_list = [t \in Threads |-> {}]
  /\ pc = [t \in Threads |-> "idle"]
  /\ lock = [t \in Threads |-> 0]
  /\ tries = [t \in Threads |-> 0]

Goto(t, l) == pc' = [pc EXCEPT ![t] = l]

-----------------------------------------------------------------------------
\* Slip: an owner that asks again registers a second callback.
try_lock_twice(x, l) ==
  /\ owner[l] \in {None, x}
  /\ owner' = [owner EXCEPT ![l] = x]
  /\ callbacks' = [callbacks EXCEPT ![x][l] = @ + 1]

\* AllocatorLock::try_lock returning true; the load and the cmpxchg make one
\* step, since a change in between only makes the cmpxchg fail.
try_lock(x, l) ==
  \/ owner[l] = x /\ UNCHANGED <<owner, callbacks>>
  \/ /\ owner[l] = None
     /\ owner' = [owner EXCEPT ![l] = x]
     /\ callbacks' = [callbacks EXCEPT ![x][l] = @ + 1]

Busy(x, l) == owner[l] \notin {None, x}

\* Slip: the attempts are not counted.
retry_forever(t) == UNCHANGED <<pc, tries>>

\* A failed round; after the last one LockTimeout is thrown.
retry(t) ==
  /\ tries' = [tries EXCEPT ![t] = @ + 1]
  /\ IF tries[t] + 1 = NUM_ATTEMPTS THEN Goto(t, "thrown") ELSE UNCHANGED pc

\* AllocatorLock::lock(x) on lock[t] failing one round.
lock_busy(t, x) ==
  /\ Busy(x, lock[t]) /\ retry(t)
  /\ UNCHANGED <<owner, callbacks, alloc_id, free_list, lock>>

-----------------------------------------------------------------------------
\* TransactionImpl constructor.
begin(t) ==
  /\ pc[t] = "idle" /\ Goto(t, "run")
  /\ alloc_id' = [alloc_id EXCEPT ![t] = -1]
  /\ free_list' = [free_list EXCEPT ![t] = {}]
  /\ UNCHANGED <<owner, callbacks, lock, tries>>

\* Allocator::alloc: the first one of a transaction looks for a unit.
alloc(t) ==
  /\ pc[t] = "run"
  /\ IF alloc_id[t] = -1
       THEN /\ Goto(t, "get") /\ lock' = [lock EXCEPT ![t] = 0]
            /\ tries' = [tries EXCEPT ![t] = 0]
       ELSE Goto(t, "use") /\ UNCHANGED <<lock, tries>>
  /\ UNCHANGED <<owner, callbacks, alloc_id, free_list>>

\* Slip: set_allocator() is called whether or not the unit was free.
scan_on_claiming(t) ==
  /\ Busy(Outer(t), lock[t])
  /\ alloc_id' = [alloc_id EXCEPT ![t] = lock[t]]
  /\ lock' = [lock EXCEPT ![t] = IF @ + 1 = NumUnits THEN 0 ELSE @ + 1]
  /\ IF lock[t] + 1 = NumUnits THEN retry(t) ELSE UNCHANGED <<pc, tries>>
  /\ UNCHANGED <<owner, callbacks, free_list>>

\* The scan finds a unit taken; after the last unit it sleeps and starts over.
scan_on(t) ==
  /\ Busy(Outer(t), lock[t])
  /\ lock' = [lock EXCEPT ![t] = IF @ + 1 = NumUnits THEN 0 ELSE @ + 1]
  /\ IF lock[t] + 1 = NumUnits THEN retry(t) ELSE UNCHANGED <<pc, tries>>
  /\ UNCHANGED <<owner, callbacks, alloc_id, free_list>>

\* get_allocator and set_allocator: one try_lock of the scan over the units.
get_allocator(t) ==
  /\ pc[t] = "get"
  /\ \/ /\ try_lock(Outer(t), lock[t])
        /\ alloc_id' = [alloc_id EXCEPT ![t] = lock[t]]
        /\ Goto(t, "use") /\ UNCHANGED <<free_list, lock, tries>>
     \/ scan_on(t)

\* AllocatorUnit::alloc: served from the unit; or a new small or free-form
\* chunk fetched in an inner transaction; or a 2 MB allocation of the
\* transaction itself.
unit_alloc(t) ==
  /\ pc[t] = "use"
  /\ \/ Goto(t, "run") /\ UNCHANGED <<lock, tries>>
     \/ /\ \E how \in {"inner", "chunk"} : Goto(t, how)
        /\ lock' = [lock EXCEPT ![t] = Chunks]
        /\ tries' = [tries EXCEPT ![t] = 0]
  /\ UNCHANGED <<owner, callbacks, alloc_id, free_list>>

\* alloc_chunk for the transaction itself: the lock stays with it.
alloc_chunk(t) ==
  /\ pc[t] = "chunk"
  /\ \/ /\ try_lock(Outer(t), Chunks) /\ Goto(t, "run")
        /\ UNCHANGED <<alloc_id, free_list, lock, tries>>
     \/ lock_busy(t, Outer(t))

\* alloc_chunk in the inner transaction, for which get_tx() is not the owner
\* of anything the outer one holds.
alloc_chunk_inner(t) ==
  /\ pc[t] = "inner"
  /\ \/ /\ try_lock(Inner(t), Chunks) /\ Goto(t, "inner_end")
        /\ UNCHANGED <<alloc_id, free_list, lock, tries>>
     \/ lock_busy(t, Inner(t))

\* AllocatorLock::release, run as one of a transaction's finalize callbacks.
release(x, l) ==
  /\ callbacks[x][l] > 0
  /\ owner' = [owner EXCEPT ![l] = None]
  /\ callbacks' = [callbacks EXCEPT ![x][l] = @ - 1]

\* The inner transaction commits and is destroyed.
end_inner(t) ==
  /\ pc[t] = "inner_end"
  /\ \E l \in Locks : release(Inner(t), l)
  /\ Goto(t, "run")
  /\ UNCHANGED <<alloc_id, free_list, lock, tries>>

\* The first key of an ordered map, if it has one.
Smallest(S) == {u \in S : \A v \in S : u <= v}

\* Allocator::free: the unit is that of the object; a chunk has none and goes
\* to the first unit of the list, or to unit 0.
free(t) ==
  /\ pc[t] = "run"
  /\ \E u \in Units \cup {-1} :
        \E id \in IF u >= 0 THEN {u}
                  ELSE IF free_list[t] # {} THEN Smallest(free_list[t]) ELSE {0} :
          free_list' = [free_list EXCEPT ![t] = @ \cup {id}]
  /\ UNCHANGED <<owner, callbacks, alloc_id, pc, lock, tries>>

\* commit(): the free callback of the allocator, if one was registered,
\* starts by locking the chunks.
commit(t) ==
  /\ pc[t] = "run"
  /\ IF free_list[t] = {}
       THEN Goto(t, "destroy") /\ UNCHANGED <<lock, tries>>
       ELSE /\ Goto(t, "clean") /\ lock' = [lock EXCEPT ![t] = Chunks]
            /\ tries' = [tries EXCEPT ![t] = 0]
  /\ UNCHANGED <<owner, callbacks, alloc_id, free_list>>

\* Slip: the unit with the highest id is never locked.
Remaining_short(F, l) ==
  IF l = Chunks THEN F ELSE {u \in F : u > l /\ \E v \in F : v > u}

\* The units to lock after l in the order of clean_free_list and
\* lock_allocators: the chunks come first, then the units of the list by id.
Remaining(F, l) == IF l = Chunks THEN F ELSE {u \in F : u > l}

\* clean_free_list, before it frees anything.
clean_free_list(t) ==
  /\ pc[t] = "clean"
  /\ \/ LET rest == Remaining(free_list[t], lock[t])
        IN /\ try_lock(Outer(t), lock[t])
           /\ \/ /\ rest = {}
                 /\ Goto(t, "free") /\ UNCHANGED <<lock, tries>>
              \/ /\ \E l \in Smallest(rest) : lock' = [lock EXCEPT ![t] = l]
                 /\ tries' = [tries EXCEPT ![t] = 0] /\ UNCHANGED pc
           /\ UNCHANGED <<alloc_id, free_list>>
     \/ lock_busy(t, Outer(t))

\* The frees themselves, and the end of commit().
free_all(t) ==
  /\ pc[t] = "free" /\ Goto(t, "destroy")
  /\ UNCHANGED <<owner, callbacks, alloc_id, free_list, lock, tries>>

\* LockTimeout reaches the client, which goes on or destroys the transaction;
\* or it destroys a transaction that it does not want to commit.
abort(t) ==
  /\ pc[t] \in {"thrown", "run"}
  /\ \/ Goto(t, "destroy")
     \/ pc[t] = "thrown" /\ Goto(t, "run")
  /\ UNCHANGED <<owner, callbacks, alloc_id, free_list, lock, tries>>

\* The destructor clears _alloc_id and runs the finalize callbacks.
destroy(t) ==
  /\ pc[t] = "destroy"
  /\ \/ /\ \E l \in Locks : release(Outer(t), l)
        /\ alloc_id' = [alloc_id EXCEPT ![t] = -1] /\ UNCHANGED pc
     \/ /\ \A l \in Locks : callbacks[Outer(t)][l] = 0
        /\ Goto(t, "idle") /\ UNCHANGED <<owner, callbacks, alloc_id>>
  /\ UNCHANGED <<free_list, lock, tries>>

Call(t) ==
  \/ get_allocator(t) \/ unit_alloc(t) \/ alloc_chunk(t) \/ alloc_chunk_inner(t)
  \/ end_inner(t) \/ clean_free_list(t) \/ free_all(t) \/ destroy(t)

Next ==
  \E t \in Threads : begin(t) \/ alloc(t) \/ free(t) \/ commit(t) \/ abort(t) \/ Call(t)

Spec == Init /\ [][Next]_vars

\* A thread inside the allocator or a destructor keeps running.
FairSpec == Spec /\ \A t \in Threads : WF_vars(Call(t))

-----------------------------------------------------------------------------
Labels == {"idle", "run", "get", "use", "chunk", "inner", "inner_end", "clean",
           "free", "thrown", "destroy"}

TypeOK ==
  /\ owner \in [Locks -> Txs \cup {None}]
  /\ callbacks \in [Txs -> [Locks -> Nat]]
  /\ alloc_id \in [Threads -> Units \cup {-1}]
  /\ free_list \in [Threads -> SUBSET Units]
  /\ pc \in [Threads -> Labels]
  /\ lock \in [Threads -> Locks]
  /\ tries \in [Threads -> 0 .. NUM_ATTEMPTS]

\* A transaction has exactly one unlock callback for every lock it owns and
\* none for any other: release() never meets another owner (the assertion in
\* AllocatorLock::release) and no lock outlives its transaction.
LocksReleasedOnce ==
  \A x \in Txs, l \in Locks : callbacks[x][l] = IF owner[l] = x THEN 1 ELSE 0

\* The unit a transaction allocates from is its own, also after it timed out
\* elsewhere and went on: two transactions never change the same unit.
UnitsExclusive ==
  \A t \in Threads : alloc_id[t] # -1 => owner[alloc_id[t]] = Outer(t)

\* Delayed frees change the chunk pool and the units only once all of their
\* locks are held ("make sure we don't do any changes prior to locking").
FreesUnderLocks ==
  \A t \in Threads : pc[t] = "free" =>
    \A l \in free_list[t] \cup {Chunks} : owner[l] = Outer(t)

\* Every call into the allocator returns or throws, although units and chunks
\* are taken in opposite orders.
CallsEnd ==
  \A t \in Threads :
    pc[t] \in Labels \ {"idle", "run", "thrown"} ~> pc[t] \in {"idle", "run", "thrown"}

\* "Store the holder transaction per allocator in case the same transaction
\* wants to re-acquire it" (Allocator.h): a thread is never kept waiting by
\* a lock of its own.
WaitsForOthersOnly ==
  \A t \in Threads : pc[t] = "inner" => owner[Chunks] # Outer(t)
=============================================================================
