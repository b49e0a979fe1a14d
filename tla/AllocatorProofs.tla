--------------------------- MODULE AllocatorProofs ---------------------------
(***************************************************************************)
(* The allocator locks for any number of threads, units and attempts: a    *)
(* lock has one owner, who has exactly one callback to release it, a unit  *)
(* is used by its owner only, and the frees of a commit run under all of   *)
(* their locks.  Then the fixed-size allocator under those locks           *)
(* (AllocatorUnit), for any number of chunks, spots and operations: the    *)
(* objects in the bitmaps, the list of chunks, the free list of the pool   *)
(* and what DRAM knows of them.  FInv holds until an exception comes       *)
(* between the scan and what depends on it, WInv whatever comes.           *)
(***************************************************************************)
EXTENDS Allocator, AllocatorUnit, Sequences, Functions, FiniteSetTheorems,
        SequenceTheorems, WellFoundedInduction, TLAPS

\* Which lock a thread may be trying, and that it has an attempt left.
TryingOf(t) ==
  /\ pc[t] = "get" => lock[t] \in Units
  /\ pc[t] \in {"chunk", "inner"} => lock[t] = Chunks
  /\ pc[t] \in {"get", "chunk", "inner", "clean"} => tries[t] < NUM_ATTEMPTS

\* In the middle of clean_free_list every lock before the current one is held.
CleaningOf(t) ==
  pc[t] = "clean" /\ lock[t] # Chunks =>
    /\ owner[Chunks] = Outer(t)
    /\ \A u \in free_list[t] : u < lock[t] => owner[u] = Outer(t)

\* UnitsExclusive and FreesUnderLocks for one thread.
UnitOf(t) == alloc_id[t] # -1 => owner[alloc_id[t]] = Outer(t)
FreesOf(t) == pc[t] = "free" => \A l \in free_list[t] \cup {Chunks} : owner[l] = Outer(t)

LocalOK(t) == TryingOf(t) /\ CleaningOf(t) /\ UnitOf(t) /\ FreesOf(t)

\* The inductive invariant.
IInv == TypeOK /\ LocksReleasedOnce /\ \A t \in Threads : LocalOK(t)

-----------------------------------------------------------------------------
\* Transactions are told apart by their thread and by being outer or inner.
LEMMA Transactions ==
  /\ None \notin Txs
  /\ \A t \in Threads : Outer(t) \in Txs /\ Inner(t) \in Txs
  /\ \A s, t \in Threads : /\ Outer(s) = Outer(t) => s = t
                           /\ Outer(s) # Inner(t)
  BY AllocatorAssumption DEF Txs, Outer, Inner

\* The numbers of the locks.
LEMMA LockNumbers ==
  /\ Units \subseteq Locks /\ Chunks \in Locks /\ Chunks \notin Units
  /\ 0 \in Units /\ 0 \in Locks /\ -1 \notin Units
  /\ \A l \in Locks : l # Chunks => l \in Units
  BY AllocatorAssumption DEF Units, Locks, Chunks

\* A lock that try_lock takes was free, and the new owner has the only callback;
\* no other lock changes hands.
LEMMA TryLock ==
  ASSUME TypeOK, LocksReleasedOnce, NEW x \in Txs, NEW l \in Locks, try_lock(x, l)
  PROVE  /\ owner' \in [Locks -> Txs \cup {None}]
         /\ callbacks' \in [Txs -> [Locks -> Nat]]
         /\ LocksReleasedOnce'
         /\ owner'[l] = x
         /\ \A k \in Locks : owner[k] # None => owner'[k] = owner[k]
  <1>1. CASE owner[l] = x /\ UNCHANGED <<owner, callbacks>>
    BY <1>1 DEF TypeOK, LocksReleasedOnce
  <1>2. CASE /\ owner[l] = None
             /\ owner' = [owner EXCEPT ![l] = x]
             /\ callbacks' = [callbacks EXCEPT ![x][l] = @ + 1]
    <2>1. None \notin Txs  BY Transactions
    <2>2. callbacks[x][l] = 0  BY <1>2, <2>1 DEF LocksReleasedOnce
    <2>3. \A y \in Txs, k \in Locks :
            callbacks'[y][k] = IF y = x /\ k = l THEN 1 ELSE callbacks[y][k]
      BY <1>2, <2>2 DEF TypeOK
    <2>4. callbacks' \in [Txs -> [Locks -> Nat]]  BY <1>2 DEF TypeOK
    <2>5. \A k \in Locks : owner'[k] = IF k = l THEN x ELSE owner[k]
      BY <1>2 DEF TypeOK
    <2>6. LocksReleasedOnce'
      BY <1>2, <2>1, <2>3, <2>5 DEF LocksReleasedOnce
    <2>7. QED  BY <1>2, <2>4, <2>5, <2>6 DEF TypeOK
  <1>3. QED  BY <1>1, <1>2 DEF try_lock

\* A callback releases a lock that its transaction owns, and no other.
LEMMA Release ==
  ASSUME TypeOK, LocksReleasedOnce, NEW x \in Txs, NEW l \in Locks, release(x, l)
  PROVE  /\ owner' \in [Locks -> Txs \cup {None}]
         /\ callbacks' \in [Txs -> [Locks -> Nat]]
         /\ LocksReleasedOnce'
         /\ owner[l] = x
         /\ \A k \in Locks : owner[k] # x => owner'[k] = owner[k]
  <1>1. owner[l] = x  BY DEF release, LocksReleasedOnce
  <1>2. callbacks[x][l] = 1  BY <1>1 DEF LocksReleasedOnce
  <1>3. \A y \in Txs, k \in Locks :
          callbacks'[y][k] = IF y = x /\ k = l THEN 0 ELSE callbacks[y][k]
    BY <1>2 DEF release, TypeOK
  <1>4. callbacks' \in [Txs -> [Locks -> Nat]]
    <2>1. callbacks[x] \in [Locks -> Nat]  BY DEF TypeOK
    <2>2. callbacks' = [callbacks EXCEPT ![x] = [callbacks[x] EXCEPT ![l] = 0]]
      BY <1>2, <2>1 DEF release, TypeOK
    <2>3. QED  BY <2>1, <2>2 DEF TypeOK
  <1>5. \A k \in Locks : owner'[k] = IF k = l THEN None ELSE owner[k]
    BY DEF release, TypeOK
  <1>6. LocksReleasedOnce'
    BY <1>1, <1>3, <1>5, Transactions DEF LocksReleasedOnce
  <1>7. QED  BY <1>1, <1>4, <1>5, <1>6 DEF release, TypeOK

\* All locks free, no thread in a call.
LEMMA InitIInv == Init => IInv
  <1> SUFFICES ASSUME Init PROVE IInv  OBVIOUS
  <1>1. TypeOK
    BY AllocatorAssumption, LockNumbers DEF Init, TypeOK, Labels
  <1>2. LocksReleasedOnce
    BY Transactions DEF Init, LocksReleasedOnce
  <1>3. \A t \in Threads : LocalOK(t)
    BY DEF Init, LocalOK, TryingOf, CleaningOf, UnitOf, FreesOf
  <1>4. QED  BY <1>1, <1>2, <1>3 DEF IInv

\* The variables of thread s stay as they are.
Still(s) ==
  /\ pc'[s] = pc[s] /\ lock'[s] = lock[s] /\ tries'[s] = tries[s]
  /\ free_list'[s] = free_list[s] /\ alloc_id'[s] = alloc_id[s]

\* A step of thread t, seen from the others: as long as it takes no lock from
\* them, only what the invariant says of t has to be shown again.
LEMMA ThreadStep ==
  ASSUME IInv, NEW t \in Threads, TypeOK', LocksReleasedOnce',
         \A s \in Threads \ {t} : Still(s),
         \A s \in Threads \ {t}, k \in Locks : owner[k] = Outer(s) => owner'[k] = Outer(s),
         LocalOK(t)'
  PROVE  IInv'
  <1>1. ASSUME NEW s \in Threads \ {t} PROVE LocalOK(s)'
    <2>1. LocalOK(s) /\ Still(s)  BY DEF IInv
    <2>2. \A k \in Locks : owner[k] = Outer(s) => owner'[k] = Outer(s)  OBVIOUS
    <2>3. free_list[s] \subseteq Locks /\ Chunks \in Locks
      BY LockNumbers DEF IInv, TypeOK
    <2>4. alloc_id[s] # -1 => alloc_id[s] \in Locks
      BY LockNumbers DEF IInv, TypeOK
    <2>5. TryingOf(s)'  BY <2>1 DEF LocalOK, TryingOf, Still
    <2>6. CleaningOf(s)'  BY <2>1, <2>2, <2>3 DEF LocalOK, CleaningOf, Still
    <2>7. UnitOf(s)'  BY <2>1, <2>2, <2>4 DEF LocalOK, UnitOf, Still
    <2>8. FreesOf(s)'  BY <2>1, <2>2, <2>3 DEF LocalOK, FreesOf, Still
    <2>9. QED  BY <2>5, <2>6, <2>7, <2>8 DEF LocalOK
  <1>2. QED  BY <1>1 DEF IInv

\* As above, for a step that leaves the locks alone.
LEMMA QuietStep ==
  ASSUME IInv, NEW t \in Threads, UNCHANGED <<owner, callbacks>>,
         TypeOK', \A s \in Threads \ {t} : Still(s),
         alloc_id'[t] \in {-1, alloc_id[t]},
         TryingOf(t)',
         pc'[t] = "clean" => \/ lock'[t] = Chunks
                             \/ /\ pc[t] = "clean" /\ lock'[t] = lock[t]
                                /\ free_list'[t] = free_list[t],
         pc'[t] # "free"
  PROVE  IInv'
  <1>1. LocksReleasedOnce'  BY DEF IInv, LocksReleasedOnce
  <1>2. \A s \in Threads \ {t}, k \in Locks : owner[k] = Outer(s) => owner'[k] = Outer(s)
    OBVIOUS
  <1>3. LocalOK(t)  BY DEF IInv
  <1>4. CleaningOf(t)' /\ UnitOf(t)' /\ FreesOf(t)'
    BY <1>3 DEF LocalOK, CleaningOf, UnitOf, FreesOf
  <1>5. QED  BY <1>1, <1>2, <1>4, ThreadStep DEF LocalOK


\* A new transaction.
LEMMA BeginStep ==
  ASSUME IInv, NEW t \in Threads, begin(t) PROVE IInv'
  <1>1. TypeOK'  BY DEF IInv, TypeOK, begin, Goto, Labels
  <1>2. \A s \in Threads \ {t} : Still(s)  BY DEF IInv, TypeOK, begin, Goto, Still
  <1>3. pc'[t] = "run" /\ alloc_id'[t] = -1  BY DEF IInv, TypeOK, begin, Goto
  <1>4. QED  BY <1>1, <1>2, <1>3, QuietStep DEF begin, TryingOf

\* alloc() begins to scan, or uses the unit it has.
LEMMA AllocStep ==
  ASSUME IInv, NEW t \in Threads, alloc(t) PROVE IInv'
  <1>0. /\ UNCHANGED <<owner, callbacks, alloc_id, free_list>>
        /\ \/ /\ pc' = [pc EXCEPT ![t] = "get"] /\ lock' = [lock EXCEPT ![t] = 0]
              /\ tries' = [tries EXCEPT ![t] = 0]
           \/ pc' = [pc EXCEPT ![t] = "use"] /\ UNCHANGED <<lock, tries>>
    BY Zenon DEF alloc, Goto
  <1>1. TypeOK'
    BY <1>0, LockNumbers, AllocatorAssumption DEF IInv, TypeOK, Labels
  <1>2. \A s \in Threads \ {t} : Still(s)  BY DEF IInv, TypeOK, alloc, Goto, Still
  <1>3. /\ alloc_id'[t] = alloc_id[t]
        /\ \/ pc'[t] = "use"
           \/ pc'[t] = "get" /\ lock'[t] = 0 /\ tries'[t] = 0
    BY <1>0 DEF IInv, TypeOK
  <1>4. TryingOf(t)'  BY <1>3, LockNumbers, AllocatorAssumption DEF TryingOf
  <1>5. QED  BY <1>1, <1>2, <1>3, <1>4, QuietStep DEF alloc

\* unit_alloc either finishes or goes on to the chunks.
LEMMA UnitAllocStep ==
  ASSUME IInv, NEW t \in Threads, unit_alloc(t) PROVE IInv'
  <1>1. TypeOK'
    <2>1. CASE Goto(t, "run") /\ UNCHANGED <<lock, tries>>
      BY <2>1 DEF IInv, TypeOK, unit_alloc, Goto, Labels
    <2>2. CASE /\ \E how \in {"inner", "chunk"} : Goto(t, how)
               /\ lock' = [lock EXCEPT ![t] = Chunks]
               /\ tries' = [tries EXCEPT ![t] = 0]
      <3>1. pc' \in [Threads -> Labels]  BY <2>2 DEF IInv, TypeOK, Goto, Labels
      <3>2. lock' \in [Threads -> Locks]  BY <2>2, LockNumbers DEF IInv, TypeOK
      <3>3. tries' \in [Threads -> 0 .. NUM_ATTEMPTS]
        BY <2>2, AllocatorAssumption DEF IInv, TypeOK
      <3>4. QED  BY <3>1, <3>2, <3>3 DEF IInv, TypeOK, unit_alloc
    <2>3. QED  BY <2>1, <2>2 DEF unit_alloc
  <1>2. \A s \in Threads \ {t} : Still(s)  BY DEF IInv, TypeOK, unit_alloc, Goto, Still
  <1>3. /\ alloc_id'[t] = alloc_id[t]
        /\ \/ pc'[t] = "run"
           \/ pc'[t] \in {"inner", "chunk"} /\ lock'[t] = Chunks /\ tries'[t] = 0
    BY DEF IInv, TypeOK, unit_alloc, Goto
  <1>4. TryingOf(t)'  BY <1>3, AllocatorAssumption DEF TryingOf
  <1>5. QED  BY <1>1, <1>2, <1>3, <1>4, QuietStep DEF unit_alloc

\* free() only adds to the list.
LEMMA FreeStep ==
  ASSUME IInv, NEW t \in Threads, free(t) PROVE IInv'
  <1>1. PICK u \in Units \cup {-1} :
          \E id \in IF u >= 0 THEN {u}
                    ELSE IF free_list[t] # {} THEN Smallest(free_list[t]) ELSE {0} :
            free_list' = [free_list EXCEPT ![t] = @ \cup {id}]
    BY DEF free
  <1>2. \E id \in Units : free_list' = [free_list EXCEPT ![t] = @ \cup {id}]
    <2>1. Smallest(free_list[t]) \subseteq Units  BY DEF IInv, TypeOK, Smallest
    <2>2. u >= 0 => u \in Units  BY DEF Units
    <2>3. QED  BY <1>1, <2>1, <2>2, LockNumbers
  <1>3. TypeOK'  BY <1>2 DEF IInv, TypeOK, free
  <1>4. \A s \in Threads \ {t} : Still(s)  BY <1>2 DEF IInv, TypeOK, free, Still
  <1>5. pc'[t] = "run" /\ alloc_id'[t] = alloc_id[t]  BY DEF free
  <1>6. QED  BY <1>3, <1>4, <1>5, QuietStep DEF free, TryingOf

\* commit() goes to the free list or ends.
LEMMA CommitStep ==
  ASSUME IInv, NEW t \in Threads, commit(t) PROVE IInv'
  <1>0. /\ UNCHANGED <<owner, callbacks, alloc_id, free_list>>
        /\ \/ pc' = [pc EXCEPT ![t] = "destroy"] /\ UNCHANGED <<lock, tries>>
           \/ /\ pc' = [pc EXCEPT ![t] = "clean"] /\ lock' = [lock EXCEPT ![t] = Chunks]
              /\ tries' = [tries EXCEPT ![t] = 0]
    BY Zenon DEF commit, Goto
  <1>1. TypeOK'
    BY <1>0, LockNumbers, AllocatorAssumption DEF IInv, TypeOK, Labels
  <1>2. \A s \in Threads \ {t} : Still(s)  BY DEF IInv, TypeOK, commit, Goto, Still
  <1>3. /\ alloc_id'[t] = alloc_id[t]
        /\ \/ pc'[t] = "destroy"
           \/ pc'[t] = "clean" /\ lock'[t] = Chunks /\ tries'[t] = 0
    BY <1>0 DEF IInv, TypeOK
  <1>4. TryingOf(t)'  BY <1>3, AllocatorAssumption DEF TryingOf
  <1>5. QED  BY <1>1, <1>2, <1>3, <1>4, QuietStep DEF commit

\* The end of the frees, an abort, and going on after an exception.
LEMMA EndStep ==
  ASSUME IInv, NEW t \in Threads, free_all(t) \/ abort(t) PROVE IInv'
  <1>1. TypeOK'  BY DEF IInv, TypeOK, free_all, abort, Goto, Labels
  <1>2. \A s \in Threads \ {t} : Still(s)
    BY DEF IInv, TypeOK, free_all, abort, Goto, Still
  <1>3. pc'[t] \in {"destroy", "run"} /\ alloc_id'[t] = alloc_id[t]
    BY DEF IInv, TypeOK, free_all, abort, Goto
  <1>4. QED  BY <1>1, <1>2, <1>3, QuietStep DEF free_all, abort, TryingOf

-----------------------------------------------------------------------------
\* A failed round leaves an attempt, or the call is given up.
LEMMA RetryStep ==
  ASSUME IInv, NEW t \in Threads, retry(t), tries[t] < NUM_ATTEMPTS
  PROVE  /\ tries' \in [Threads -> 0 .. NUM_ATTEMPTS]
         /\ pc' \in [Threads -> Labels]
         /\ \A s \in Threads \ {t} : pc'[s] = pc[s] /\ tries'[s] = tries[s]
         /\ \/ pc'[t] = "thrown"
            \/ pc'[t] = pc[t] /\ tries'[t] < NUM_ATTEMPTS
  <1>1. tries' = [tries EXCEPT ![t] = tries[t] + 1]  BY DEF retry
  <1>2. tries[t] + 1 \in 0 .. NUM_ATTEMPTS
    BY AllocatorAssumption DEF IInv, TypeOK
  <1>3. \/ pc' = [pc EXCEPT ![t] = "thrown"]
        \/ pc' = pc /\ tries[t] + 1 # NUM_ATTEMPTS
    BY Zenon DEF retry, Goto
  <1>4. pc' \in [Threads -> Labels]  BY <1>3 DEF IInv, TypeOK, Labels
  <1>5. tries' \in [Threads -> 0 .. NUM_ATTEMPTS]  BY <1>1, <1>2 DEF IInv, TypeOK
  <1>6. \A s \in Threads \ {t} : pc'[s] = pc[s] /\ tries'[s] = tries[s]
    BY <1>1, <1>3 DEF IInv, TypeOK
  <1>7. \/ pc'[t] = "thrown"
        \/ pc'[t] = pc[t] /\ tries'[t] < NUM_ATTEMPTS
    BY <1>1, <1>2, <1>3, AllocatorAssumption DEF IInv, TypeOK
  <1>8. QED  BY <1>4, <1>5, <1>6, <1>7

\* A call that finds its lock taken.
LEMMA BusyStep ==
  ASSUME IInv, NEW t \in Threads, NEW x, lock_busy(t, x),
         pc[t] \in {"chunk", "inner", "clean"}
  PROVE  IInv'
  <1>1. TryingOf(t) /\ tries[t] < NUM_ATTEMPTS  BY DEF IInv, LocalOK, TryingOf
  <1>2. /\ tries' \in [Threads -> 0 .. NUM_ATTEMPTS]
        /\ pc' \in [Threads -> Labels]
        /\ \A s \in Threads \ {t} : pc'[s] = pc[s] /\ tries'[s] = tries[s]
        /\ \/ pc'[t] = "thrown"
           \/ pc'[t] = pc[t] /\ tries'[t] < NUM_ATTEMPTS
    BY <1>1, RetryStep DEF lock_busy
  <1>3. UNCHANGED <<owner, callbacks, alloc_id, free_list, lock>>  BY DEF lock_busy
  <1>4. TypeOK'  BY <1>2, <1>3 DEF IInv, TypeOK
  <1>5. \A s \in Threads \ {t} : Still(s)  BY <1>2, <1>3 DEF Still
  <1>6. TryingOf(t)'  BY <1>1, <1>2, <1>3 DEF TryingOf
  <1>7. QED  BY <1>2, <1>3, <1>4, <1>5, <1>6, QuietStep

\* The scan goes on to the next unit.
LEMMA ScanStep ==
  ASSUME IInv, NEW t \in Threads, scan_on(t), pc[t] = "get"
  PROVE  IInv'
  <1>1. lock[t] \in Units /\ tries[t] < NUM_ATTEMPTS  BY DEF IInv, LocalOK, TryingOf
  <1>2. PICK l : /\ l = IF lock[t] + 1 = NumUnits THEN 0 ELSE lock[t] + 1
                 /\ lock' = [lock EXCEPT ![t] = l]
    BY DEF scan_on
  <1>3. l \in Units
    BY <1>1, <1>2, AllocatorAssumption DEF Units
  <1>4. lock' \in [Threads -> Locks] /\ lock'[t] \in Units
    BY <1>2, <1>3, LockNumbers DEF IInv, TypeOK
  <1>5. /\ tries' \in [Threads -> 0 .. NUM_ATTEMPTS]
        /\ pc' \in [Threads -> Labels]
        /\ \A s \in Threads \ {t} : pc'[s] = pc[s] /\ tries'[s] = tries[s]
        /\ \/ pc'[t] = "thrown"
           \/ pc'[t] = pc[t] /\ tries'[t] < NUM_ATTEMPTS
    <2>1. retry(t) \/ UNCHANGED <<pc, tries>>  BY DEF scan_on
    <2>2. CASE retry(t)  BY <1>1, <2>2, RetryStep
    <2>3. CASE UNCHANGED <<pc, tries>>  BY <1>1, <2>3 DEF IInv, TypeOK
    <2>4. QED  BY <2>1, <2>2, <2>3
  <1>6. UNCHANGED <<owner, callbacks, alloc_id, free_list>>  BY DEF scan_on
  <1>7. TypeOK'  BY <1>4, <1>5, <1>6 DEF IInv, TypeOK
  <1>8. \A s \in Threads \ {t} : Still(s)
    BY <1>2, <1>5, <1>6 DEF IInv, TypeOK, Still
  <1>9. TryingOf(t)'  BY <1>4, <1>5 DEF TryingOf
  <1>10. QED  BY <1>5, <1>6, <1>7, <1>8, <1>9, QuietStep

-----------------------------------------------------------------------------
\* Taking a lock takes it from nobody.
LEMMA TakenFromNobody ==
  ASSUME IInv, NEW t \in Threads, NEW x \in Txs, NEW l \in Locks, try_lock(x, l)
  PROVE  /\ owner' \in [Locks -> Txs \cup {None}]
         /\ callbacks' \in [Txs -> [Locks -> Nat]]
         /\ LocksReleasedOnce'
         /\ owner'[l] = x
         /\ \A s \in Threads, k \in Locks : owner[k] = Outer(s) => owner'[k] = Outer(s)
  <1>1. /\ owner' \in [Locks -> Txs \cup {None}]
        /\ callbacks' \in [Txs -> [Locks -> Nat]]
        /\ LocksReleasedOnce'
        /\ owner'[l] = x
        /\ \A k \in Locks : owner[k] # None => owner'[k] = owner[k]
    BY TryLock DEF IInv
  <1>2. \A s \in Threads : Outer(s) # None  BY Transactions
  <1>3. QED  BY <1>1, <1>2

\* get_allocator finds a unit and makes it the one of the transaction.
LEMMA GetStep ==
  ASSUME IInv, NEW t \in Threads, get_allocator(t) PROVE IInv'
  <1>1. pc[t] = "get" /\ lock[t] \in Units  BY DEF get_allocator, IInv, LocalOK, TryingOf
  <1>2. CASE scan_on(t)  BY <1>1, <1>2, ScanStep
  <1>3. CASE /\ try_lock(Outer(t), lock[t])
             /\ alloc_id' = [alloc_id EXCEPT ![t] = lock[t]]
             /\ Goto(t, "use") /\ UNCHANGED <<free_list, lock, tries>>
    <2>1. Outer(t) \in Txs /\ lock[t] \in Locks  BY <1>1, Transactions, LockNumbers
    <2>2. /\ owner' \in [Locks -> Txs \cup {None}]
          /\ callbacks' \in [Txs -> [Locks -> Nat]]
          /\ LocksReleasedOnce'
          /\ owner'[lock[t]] = Outer(t)
          /\ \A s \in Threads, k \in Locks : owner[k] = Outer(s) => owner'[k] = Outer(s)
      BY <1>3, <2>1, TakenFromNobody
    <2>3. TypeOK'  BY <1>1, <1>3, <2>2 DEF IInv, TypeOK, Goto, Labels
    <2>4. \A s \in Threads \ {t} : Still(s)  BY <1>3 DEF IInv, TypeOK, Goto, Still
    <2>5. pc'[t] = "use" /\ alloc_id'[t] = lock[t]  BY <1>3 DEF IInv, TypeOK, Goto
    <2>6. LocalOK(t)'
      BY <2>2, <2>5 DEF LocalOK, TryingOf, CleaningOf, UnitOf, FreesOf
    <2>7. QED  BY <2>2, <2>3, <2>4, <2>6, ThreadStep
  <1>4. QED  BY <1>2, <1>3 DEF get_allocator

\* The chunks are locked, for the transaction itself or for the inner one.
LEMMA ChunkStep ==
  ASSUME IInv, NEW t \in Threads, alloc_chunk(t) \/ alloc_chunk_inner(t) PROVE IInv'
  <1>1. pc[t] \in {"chunk", "inner"}  BY DEF alloc_chunk, alloc_chunk_inner
  <1>2. CASE lock_busy(t, Outer(t)) \/ lock_busy(t, Inner(t))  BY <1>1, <1>2, BusyStep
  <1>3. ASSUME NEW x \in {Outer(t), Inner(t)}, try_lock(x, Chunks),
               NEW p \in {"run", "inner_end"}, Goto(t, p),
               UNCHANGED <<alloc_id, free_list, lock, tries>>
        PROVE  IInv'
    <2>1. x \in Txs /\ Chunks \in Locks  BY <1>3, Transactions, LockNumbers
    <2>2. /\ owner' \in [Locks -> Txs \cup {None}]
          /\ callbacks' \in [Txs -> [Locks -> Nat]]
          /\ LocksReleasedOnce'
          /\ \A s \in Threads, k \in Locks : owner[k] = Outer(s) => owner'[k] = Outer(s)
      BY <1>3, <2>1, TakenFromNobody
    <2>3. TypeOK'  BY <1>3, <2>2 DEF IInv, TypeOK, Goto, Labels
    <2>4. \A s \in Threads \ {t} : Still(s)  BY <1>3 DEF IInv, TypeOK, Goto, Still
    <2>5. pc'[t] = p /\ alloc_id'[t] = alloc_id[t]  BY <1>3 DEF IInv, TypeOK, Goto
    <2>6. UnitOf(t)'
      <3>1. UnitOf(t)  BY DEF IInv, LocalOK
      <3>2. alloc_id[t] # -1 => alloc_id[t] \in Locks
        BY LockNumbers DEF IInv, TypeOK
      <3>3. QED  BY <2>2, <2>5, <3>1, <3>2 DEF UnitOf
    <2>7. LocalOK(t)'
      BY <1>3, <2>5, <2>6 DEF LocalOK, TryingOf, CleaningOf, FreesOf
    <2>8. QED  BY <2>2, <2>3, <2>4, <2>7, ThreadStep
  <1>4. QED  BY <1>2, <1>3 DEF alloc_chunk, alloc_chunk_inner

\* clean_free_list gets one lock more; after the last one it has them all.
LEMMA CleanStep ==
  ASSUME IInv, NEW t \in Threads, clean_free_list(t) PROVE IInv'
  <1> DEFINE FL == free_list[t]
             here == lock[t]
             rest == Remaining(FL, here)
  <1>1. pc[t] = "clean" /\ tries[t] < NUM_ATTEMPTS
    BY DEF clean_free_list, IInv, LocalOK, TryingOf
  <1>2. CASE lock_busy(t, Outer(t))  BY <1>1, <1>2, BusyStep
  <1>3. CASE /\ try_lock(Outer(t), here)
             /\ \/ /\ rest = {}
                   /\ Goto(t, "free") /\ UNCHANGED <<lock, tries>>
                \/ /\ \E l \in Smallest(rest) : lock' = [lock EXCEPT ![t] = l]
                   /\ tries' = [tries EXCEPT ![t] = 0] /\ UNCHANGED pc
             /\ UNCHANGED <<alloc_id, free_list>>
    <2>1. Outer(t) \in Txs /\ here \in Locks /\ FL \subseteq Units
      BY Transactions DEF IInv, TypeOK
    <2>2. /\ owner' \in [Locks -> Txs \cup {None}]
          /\ callbacks' \in [Txs -> [Locks -> Nat]]
          /\ LocksReleasedOnce'
          /\ owner'[here] = Outer(t)
          /\ \A s \in Threads, k \in Locks : owner[k] = Outer(s) => owner'[k] = Outer(s)
      BY <1>3, <2>1, TakenFromNobody
    <2>3. owner'[Chunks] = Outer(t)
      <3>1. CleaningOf(t)  BY DEF IInv, LocalOK
      <3>2. QED  BY <1>1, <2>2, <3>1, LockNumbers DEF CleaningOf
    <2>4. \A u \in FL : u \notin rest => owner'[u] = Outer(t)
      <3>1. CASE here = Chunks  BY <3>1 DEF Remaining
      <3>2. CASE here # Chunks
        <4>1. \A u \in FL : u < here => owner[u] = Outer(t)
          BY <1>1, <3>2 DEF IInv, LocalOK, CleaningOf
        <4>2. \A u \in FL : u \in Locks /\ (u \notin rest => u < here \/ u = here)
          BY <2>1, <3>2, LockNumbers DEF Remaining, Locks, Units
        <4>3. QED  BY <2>2, <4>1, <4>2
      <3>3. QED  BY <3>1, <3>2
    <2>5. UnitOf(t)'
      <3>1. UnitOf(t)  BY DEF IInv, LocalOK
      <3>2. alloc_id[t] # -1 => alloc_id[t] \in Locks
        BY LockNumbers DEF IInv, TypeOK
      <3>3. QED  BY <1>3, <2>2, <3>1, <3>2 DEF UnitOf
    <2>6. CASE rest = {} /\ Goto(t, "free") /\ UNCHANGED <<lock, tries>>
      <3>1. TypeOK'  BY <1>3, <2>2, <2>6 DEF IInv, TypeOK, Goto, Labels
      <3>2. \A s \in Threads \ {t} : Still(s)  BY <1>3, <2>6 DEF IInv, TypeOK, Goto, Still
      <3>3. pc'[t] = "free" /\ free_list'[t] = FL  BY <1>3, <2>6 DEF IInv, TypeOK, Goto
      <3>4. FreesOf(t)'  BY <2>3, <2>4, <2>6, <3>3 DEF FreesOf
      <3>5. LocalOK(t)'  BY <2>5, <3>3, <3>4 DEF LocalOK, TryingOf, CleaningOf
      <3>6. QED  BY <2>2, <3>1, <3>2, <3>5, ThreadStep
    <2>7. CASE /\ \E l \in Smallest(rest) : lock' = [lock EXCEPT ![t] = l]
               /\ tries' = [tries EXCEPT ![t] = 0] /\ UNCHANGED pc
      <3>1. PICK l \in Smallest(rest) : lock' = [lock EXCEPT ![t] = l]  BY <2>7
      <3>2. l \in FL /\ l \in Units /\ l \in Locks
        BY <2>1, LockNumbers DEF Smallest, Remaining
      <3>3. \A u \in FL : u < l => u \notin rest
        BY <2>1 DEF Smallest, Remaining, Units
      <3>4. lock' \in [Threads -> Locks]  BY <3>1, <3>2 DEF IInv, TypeOK
      <3>5. tries' \in [Threads -> 0 .. NUM_ATTEMPTS]
        BY <2>7, AllocatorAssumption DEF IInv, TypeOK
      <3>6. TypeOK'  BY <1>3, <2>2, <2>7, <3>4, <3>5 DEF IInv, TypeOK
      <3>7. \A s \in Threads \ {t} : Still(s)
        BY <1>3, <2>7, <3>1 DEF IInv, TypeOK, Still
      <3>8. pc'[t] = "clean" /\ lock'[t] = l /\ tries'[t] = 0 /\ free_list'[t] = FL
        BY <1>1, <1>3, <2>7, <3>1 DEF IInv, TypeOK
      <3>9. CleaningOf(t)'  BY <2>3, <2>4, <3>3, <3>8 DEF CleaningOf
      <3>10. TryingOf(t)' /\ FreesOf(t)'
        BY <3>8, AllocatorAssumption DEF TryingOf, FreesOf
      <3>11. LocalOK(t)'  BY <2>5, <3>9, <3>10 DEF LocalOK
      <3>12. QED  BY <2>2, <3>6, <3>7, <3>11, ThreadStep
    <2>8. QED  BY <1>3, <2>6, <2>7
  <1>4. QED  BY <1>2, <1>3 DEF clean_free_list

-----------------------------------------------------------------------------
\* A transaction that is destroyed gives back its own locks only.
LEMMA ReleaseStep ==
  ASSUME IInv, NEW t \in Threads, end_inner(t) \/ destroy(t) PROVE IInv'
  <1>1. CASE end_inner(t)
    <2>1. PICK l \in Locks : release(Inner(t), l)  BY <1>1 DEF end_inner
    <2>2. Inner(t) \in Txs /\ \A s \in Threads : Outer(s) # Inner(t)  BY Transactions
    <2>3. /\ owner' \in [Locks -> Txs \cup {None}]
          /\ callbacks' \in [Txs -> [Locks -> Nat]]
          /\ LocksReleasedOnce'
          /\ \A k \in Locks : owner[k] # Inner(t) => owner'[k] = owner[k]
      BY <2>1, <2>2, Release DEF IInv
    <2>4. \A s \in Threads, k \in Locks : owner[k] = Outer(s) => owner'[k] = Outer(s)
      BY <2>2, <2>3
    <2>5. TypeOK'  BY <1>1, <2>3 DEF end_inner, IInv, TypeOK, Goto, Labels
    <2>6. \A s \in Threads \ {t} : Still(s)
      BY <1>1 DEF end_inner, IInv, TypeOK, Goto, Still
    <2>7. pc'[t] = "run" /\ alloc_id'[t] = alloc_id[t]
      BY <1>1 DEF end_inner, IInv, TypeOK, Goto
    <2>8. UnitOf(t)'
      <3>1. UnitOf(t)  BY DEF IInv, LocalOK
      <3>2. alloc_id[t] # -1 => alloc_id[t] \in Locks
        BY LockNumbers DEF IInv, TypeOK
      <3>3. QED  BY <2>4, <2>7, <3>1, <3>2 DEF UnitOf
    <2>9. LocalOK(t)'  BY <2>7, <2>8 DEF LocalOK, TryingOf, CleaningOf, FreesOf
    <2>10. QED  BY <2>3, <2>4, <2>5, <2>6, <2>9, ThreadStep
  <1>2. CASE destroy(t) /\ UNCHANGED <<owner, callbacks, alloc_id>> /\ Goto(t, "idle")
    <2>1. TypeOK'  BY <1>2 DEF destroy, IInv, TypeOK, Goto, Labels
    <2>2. \A s \in Threads \ {t} : Still(s)
      BY <1>2 DEF destroy, IInv, TypeOK, Goto, Still
    <2>3. pc'[t] = "idle" /\ alloc_id'[t] = alloc_id[t]
      BY <1>2 DEF IInv, TypeOK, Goto
    <2>4. QED  BY <1>2, <2>1, <2>2, <2>3, QuietStep DEF TryingOf
  <1>3. CASE /\ destroy(t) /\ \E l \in Locks : release(Outer(t), l)
             /\ alloc_id' = [alloc_id EXCEPT ![t] = -1] /\ UNCHANGED pc
    <2>1. PICK l \in Locks : release(Outer(t), l)  BY <1>3
    <2>2. Outer(t) \in Txs /\ \A s \in Threads \ {t} : Outer(s) # Outer(t)
      BY Transactions
    <2>3. /\ owner' \in [Locks -> Txs \cup {None}]
          /\ callbacks' \in [Txs -> [Locks -> Nat]]
          /\ LocksReleasedOnce'
          /\ \A k \in Locks : owner[k] # Outer(t) => owner'[k] = owner[k]
      BY <2>1, <2>2, Release DEF IInv
    <2>4. \A s \in Threads \ {t}, k \in Locks :
            owner[k] = Outer(s) => owner'[k] = Outer(s)
      BY <2>2, <2>3
    <2>5. TypeOK'  BY <1>3, <2>3 DEF destroy, IInv, TypeOK
    <2>6. \A s \in Threads \ {t} : Still(s)
      BY <1>3 DEF destroy, IInv, TypeOK, Still
    <2>7. pc'[t] = "destroy" /\ alloc_id'[t] = -1
      BY <1>3 DEF destroy, IInv, TypeOK
    <2>8. LocalOK(t)'
      BY <2>7 DEF LocalOK, TryingOf, CleaningOf, UnitOf, FreesOf
    <2>9. QED  BY <2>3, <2>4, <2>5, <2>6, <2>8, ThreadStep
  <1>4. QED  BY <1>1, <1>2, <1>3 DEF destroy

\* Every step preserves the invariant.
LEMMA NextIInv == IInv /\ [Next]_vars => IInv'
  <1> SUFFICES ASSUME IInv, [Next]_vars PROVE IInv'  OBVIOUS
  <1>1. CASE UNCHANGED vars
    BY <1>1 DEF vars, IInv, TypeOK, LocksReleasedOnce, LocalOK, TryingOf, CleaningOf,
                UnitOf, FreesOf
  <1>2. ASSUME NEW t \in Threads,
               begin(t) \/ alloc(t) \/ free(t) \/ commit(t) \/ abort(t) \/ Call(t)
        PROVE  IInv'
    <2>1. CASE begin(t)  BY <2>1, BeginStep
    <2>2. CASE alloc(t)  BY <2>2, AllocStep
    <2>3. CASE free(t)  BY <2>3, FreeStep
    <2>4. CASE commit(t)  BY <2>4, CommitStep
    <2>5. CASE abort(t) \/ free_all(t)  BY <2>5, EndStep
    <2>6. CASE get_allocator(t)  BY <2>6, GetStep
    <2>7. CASE unit_alloc(t)  BY <2>7, UnitAllocStep
    <2>8. CASE alloc_chunk(t) \/ alloc_chunk_inner(t)  BY <2>8, ChunkStep
    <2>9. CASE end_inner(t) \/ destroy(t)  BY <2>9, ReleaseStep
    <2>10. CASE clean_free_list(t)  BY <2>10, CleanStep
    <2>11. QED
      BY <1>2, <2>1, <2>2, <2>3, <2>4, <2>5, <2>6, <2>7, <2>8, <2>9, <2>10 DEF Call
  <1>3. QED  BY <1>1, <1>2 DEF Next

\* The inductive invariant holds in every reachable state.
LEMMA SpecIInv == Spec => []IInv
  BY InitIInv, NextIInv, PTL DEF Spec

\* The unlock callbacks of the transactions and the owner words agree, for any
\* number of threads and units: release() never meets a foreign owner and no
\* lock is left behind or given back twice.
THEOREM LocksReleasedOnceTheorem == Spec => []LocksReleasedOnce
  <1>1. IInv => LocksReleasedOnce  BY DEF IInv
  <1>2. QED  BY SpecIInv, <1>1, PTL

\* A transaction allocates from a unit that it owns, so no two transactions
\* ever change the same unit.
THEOREM UnitsExclusiveTheorem == Spec => []UnitsExclusive
  <1>1. IInv => UnitsExclusive  BY DEF IInv, LocalOK, UnitOf, UnitsExclusive
  <1>2. QED  BY SpecIInv, <1>1, PTL

\* clean_free_list frees nothing before it holds the chunks and every unit of
\* its list, in whatever order other transactions take theirs.
THEOREM FreesUnderLocksTheorem == Spec => []FreesUnderLocks
  <1>1. IInv => FreesUnderLocks  BY DEF IInv, LocalOK, FreesOf, FreesUnderLocks
  <1>2. QED  BY SpecIInv, <1>1, PTL

-----------------------------------------------------------------------------
(***************************************************************************)
(* Lists whose elements are distinct.                                      *)
(***************************************************************************)
\* A sequence, its domain and its elements.
LEMMA SeqFacts ==
  ASSUME NEW S, NEW s \in Seq(S)
  PROVE  /\ Len(s) \in Nat /\ DOMAIN s = 1 .. Len(s)
         /\ \A i \in 1 .. Len(s) : s[i] \in S
         /\ Range(s) \subseteq S
         /\ s = <<>> <=> Len(s) = 0
         /\ \A x : x \in Range(s) <=> \E i \in 1 .. Len(s) : s[i] = x
  <1>1. Len(s) \in Nat /\ DOMAIN s = 1 .. Len(s) /\ s \in [1 .. Len(s) -> S]
    BY LenProperties
  <1>2. s = <<>> <=> Len(s) = 0
    BY EmptySeq
  <1>3. \A x : x \in Range(s) <=> \E i \in 1 .. Len(s) : s[i] = x
    BY <1>1 DEF Range
  <1>4. QED  BY <1>1, <1>2, <1>3

\* A set of numbers has a least one.
Smaller == {p \in Nat \X Nat : p[1] < p[2]}

\* The order of the naturals is well-founded: least elements stand in for induction.
LEMMA LeastNat ==
  ASSUME NEW T, T \subseteq Nat, T # {}
  PROVE  \E x \in T : \A y \in T : x <= y
  <1>1. IsWellFoundedOn(OpToRel(<, Nat), Nat)  BY NatLessThanWellFounded, Zenon
  <1>2. IsWellFoundedOn(Smaller, Nat)  BY <1>1, Zenon DEF OpToRel, Smaller
  <1>3. PICK x \in T : \A y \in T : ~(<<y, x>> \in Smaller)  BY <1>2, WFMin
  <1>4. \A y \in T : ~(y < x)  BY <1>3 DEF Smaller
  <1>5. QED  BY <1>4

\* A list without repetition is no longer than what it lists is large.
LEMMA SeqBound ==
  ASSUME NEW n \in Nat, NEW s \in Seq(1 .. n), IsInjective(s)
  PROVE  Len(s) <= n
  <1>1. Len(s) \in Nat /\ DOMAIN s = 1 .. Len(s) /\ s \in [1 .. Len(s) -> 1 .. n]
    BY LenProperties
  <1>2. s \in Injection(1 .. Len(s), 1 .. n)
    BY <1>1 DEF Injection
  <1>3. \A m \in Nat : IsFiniteSet(1 .. m) /\ Cardinality(1 .. m) = m
    <2>1. ASSUME NEW m \in Nat PROVE IsFiniteSet(1 .. m) /\ Cardinality(1 .. m) = m
      <3>1. 1 \in Int /\ m \in Int
        OBVIOUS
      <3>2. /\ IsFiniteSet(1 .. m) /\ Cardinality(1 .. m) = IF 1 > m THEN 0 ELSE m - 1 + 1
        BY <3>1, FS_Interval
      <3>3. QED  BY <3>2
    <2>2. QED  BY <2>1
  <1>4. Cardinality(1 .. Len(s)) <= Cardinality(1 .. n)
    BY <1>2, <1>3, FS_Injection
  <1>5. QED  BY <1>1, <1>3, <1>4

\* A list without its k-th element.
Without(s, k) == [i \in 1 .. Len(s) - 1 |-> s[IF i < k THEN i ELSE i + 1]]

\* The rest of the list keeps its order.
LEMMA WithoutFacts ==
  ASSUME NEW S, NEW s \in Seq(S), IsInjective(s), NEW k \in 1 .. Len(s)
  PROVE  /\ Without(s, k) \in Seq(S) /\ Len(Without(s, k)) = Len(s) - 1
         /\ IsInjective(Without(s, k)) /\ Range(Without(s, k)) = Range(s) \ {s[k]}
         /\ \A i \in 1 .. Len(s) - 1 : Without(s, k)[i] = s[IF i < k THEN i ELSE i + 1]
  <1> DEFINE r == Without(s, k)
  <1>1. Len(s) \in Nat /\ DOMAIN s = 1 .. Len(s) /\ \A i \in 1 .. Len(s) : s[i] \in S
    BY SeqFacts
  <1>2. \A i \in 1 .. Len(s) - 1 : (IF i < k THEN i ELSE i + 1) \in 1 .. Len(s)
    BY <1>1
  <1>3. Len(s) - 1 \in Nat
    BY <1>1
  <1>4. r \in [1 .. Len(s) - 1 -> S] /\ \A i \in 1 .. Len(s) - 1 : r[i] = s[IF i < k THEN i ELSE i + 1]
    BY <1>1, <1>2 DEF Without
  <1>5. r \in Seq(S) /\ Len(r) = Len(s) - 1 /\ DOMAIN r = 1 .. Len(s) - 1
    BY <1>3, <1>4
  <1> HIDE DEF r
  <1>6. \A i, j \in 1 .. Len(s) : s[i] = s[j] => i = j
    BY <1>1 DEF IsInjective
  <1>7. \A i, j \in 1 .. Len(s) - 1 : r[i] = r[j] => i = j
    BY <1>2, <1>4, <1>6
  <1>8. IsInjective(r)
    BY <1>5, <1>7 DEF IsInjective
  <1>9. ASSUME NEW x \in Range(r) PROVE x \in Range(s) \ {s[k]}
    <2>1. PICK i \in 1 .. Len(s) - 1 : r[i] = x
      BY <1>5, <1>9 DEF Range
    <2>2. /\ x = s[IF i < k THEN i ELSE i + 1] /\ (IF i < k THEN i ELSE i + 1) \in 1 .. Len(s)
          /\ (IF i < k THEN i ELSE i + 1) # k
      BY <1>1, <1>2, <1>4, <2>1
    <2>3. QED  BY <1>1, <1>6, <2>2 DEF Range
  <1>10. ASSUME NEW x \in Range(s) \ {s[k]} PROVE x \in Range(r)
    <2>1. PICK i \in 1 .. Len(s) : s[i] = x /\ i # k
      BY <1>1, <1>10 DEF Range
    <2> DEFINE j == IF i < k THEN i ELSE i - 1
    <2>2. j \in 1 .. Len(s) - 1 /\ i = (IF j < k THEN j ELSE j + 1)
      BY <1>1, <2>1
    <2>3. r[j] = x
      BY <1>4, <2>1, <2>2
    <2>4. QED  BY <1>5, <2>2, <2>3 DEF Range
  <1>11. QED  BY <1>4, <1>5, <1>8, <1>9, <1>10 DEF r

\* A list with one more element, at its front or at its end.
LEMMA ConsFacts ==
  ASSUME NEW S, NEW s \in Seq(S), IsInjective(s), NEW x \in S, x \notin Range(s)
  PROVE  LET c == <<x>> \o s
         IN /\ c \in Seq(S) /\ IsInjective(c) /\ Range(c) = Range(s) \cup {x}
            /\ Len(c) = Len(s) + 1 /\ c[1] = x /\ \A i \in 2 .. Len(c) : c[i] = s[i - 1]
  <1> DEFINE c == <<x>> \o s
  <1>1. Len(s) \in Nat /\ DOMAIN s = 1 .. Len(s) /\ \A i \in 1 .. Len(s) : s[i] \in S
    BY SeqFacts
  <1>2. <<x>> \in Seq(S) /\ Len(<<x>>) = 1 /\ <<x>>[1] = x
    OBVIOUS
  <1>3. c \in Seq(S) /\ Len(c) = Len(s) + 1
    BY <1>1, <1>2, ConcatProperties
  <1>4. c[1] = x
    BY <1>1, <1>2, ConcatProperties
  <1>5. \A i \in 2 .. Len(c) : c[i] = s[i - 1]
    BY <1>1, <1>2, <1>3, ConcatProperties
  <1> HIDE DEF c
  <1>6. DOMAIN c = 1 .. Len(s) + 1
    BY <1>3, SeqFacts
  <1>7. \A i, j \in 1 .. Len(s) : s[i] = s[j] => i = j
    BY <1>1 DEF IsInjective
  <1>8. \A i \in 1 .. Len(s) : s[i] # x
    BY <1>1 DEF Range
  <1>9. \A i \in 2 .. Len(c) : i - 1 \in 1 .. Len(s)
    BY <1>1, <1>3
  <1>10. \A i, j \in 1 .. Len(s) + 1 : c[i] = c[j] => i = j
    BY <1>1, <1>3, <1>4, <1>5, <1>7, <1>8, <1>9
  <1>11. IsInjective(c)
    BY <1>6, <1>10 DEF IsInjective
  <1>12. Range(c) = Range(s) \cup {x}
    <2>1. \A i \in 1 .. Len(s) : i + 1 \in 2 .. Len(c) /\ c[i + 1] = s[i]
      BY <1>1, <1>3, <1>5
    <2>2. \A i \in 1 .. Len(s) + 1 : i = 1 \/ i \in 2 .. Len(c)
      BY <1>1, <1>3
    <2>3. \A y \in Range(c) : y \in Range(s) \cup {x}
      BY <1>1, <1>4, <1>5, <1>6, <1>9, <2>2 DEF Range
    <2>4. 1 \in DOMAIN c /\ \A i \in 1 .. Len(s) : i + 1 \in DOMAIN c
      BY <1>1, <1>6
    <2>5. \A y \in Range(s) \cup {x} : y \in Range(c)
      BY <1>1, <1>4, <2>1, <2>4 DEF Range
    <2>6. QED  BY <2>3, <2>5
  <1>13. QED  BY <1>3, <1>4, <1>5, <1>11, <1>12 DEF c

Extends(c, S, s, x) ==
  /\ c \in Seq(S) /\ IsInjective(c) /\ Range(c) = Range(s) \cup {x}
  /\ Len(c) = Len(s) + 1 /\ c[Len(s) + 1] = x /\ \A i \in 1 .. Len(s) : c[i] = s[i]

\* Append() adds one element, at the end.
LEMMA AppendFacts ==
  ASSUME NEW S, NEW s \in Seq(S), IsInjective(s), NEW x \in S, x \notin Range(s)
  PROVE  Extends(Append(s, x), S, s, x)
  <1> DEFINE c == Append(s, x)
  <1>1. Len(s) \in Nat /\ DOMAIN s = 1 .. Len(s) /\ \A i \in 1 .. Len(s) : s[i] \in S
    BY SeqFacts
  <1>2. /\ c \in Seq(S) /\ Len(c) = Len(s) + 1 /\ c[Len(s) + 1] = x
        /\ \A i \in 1 .. Len(s) : c[i] = s[i]
    BY AppendProperties
  <1> HIDE DEF c
  <1>3. DOMAIN c = 1 .. Len(s) + 1
    BY <1>2, SeqFacts
  <1>4. \A i \in 1 .. Len(s) + 1 : i = Len(s) + 1 \/ i \in 1 .. Len(s)
    BY <1>1
  <1>5. \A i, j \in 1 .. Len(s) : s[i] = s[j] => i = j
    BY <1>1 DEF IsInjective
  <1>6. \A i \in 1 .. Len(s) : s[i] # x
    BY <1>1 DEF Range
  <1>7. \A i, j \in 1 .. Len(s) + 1 : c[i] = c[j] => i = j
    BY <1>2, <1>4, <1>5, <1>6
  <1>8. IsInjective(c)
    BY <1>3, <1>7 DEF IsInjective
  <1>9. Range(c) = Range(s) \cup {x}
    <2>1. \A y \in Range(c) : y \in Range(s) \cup {x}
      BY <1>1, <1>2, <1>3, <1>4 DEF Range
    <2>2. Len(s) + 1 \in DOMAIN c /\ \A i \in 1 .. Len(s) : i \in DOMAIN c
      BY <1>1, <1>3
    <2>3. \A y \in Range(s) \cup {x} : y \in Range(c)
      BY <1>1, <1>2, <2>2 DEF Range
    <2>4. QED  BY <2>1, <2>3
  <1>10. QED  BY <1>2, <1>8, <1>9 DEF c, Extends

-----------------------------------------------------------------------------
(***************************************************************************)
(* Chunks: those in the list of the allocator, and those in the pool.      *)
(***************************************************************************)
H == F!Hdr
ST == F!Start
W(c) == F!Word(c)

\* The locations of the pool and of the list.
LEMMA Locations ==
  /\ \A c : W(c) # H /\ W(c) # ST
  /\ \A c, d : W(c) = W(d) => c = d
  /\ H # ST
  /\ \A c : W(c)[1] = "word"
  BY DEF H, ST, W, F!Hdr, F!Start, F!Word

Words == [to : Nat, free_bit : BOOLEAN]

\* The chunks in s are linked in this order, from the pointer a to a NULL.
Chain(m, s, a) ==
  /\ a = IF s = <<>> THEN 0 ELSE s[1]
  /\ \A i \in 1 .. Len(s) : m[W(s[i])].to = IF i = Len(s) THEN 0 ELSE s[i + 1]

\* A pool of n chunks: s are listed, f free, and X taken but not listed.
Lists(m, n, s, f, X) ==
  /\ {H, ST} \cup {W(c) : c \in 1 .. n} \subseteq DOMAIN m
  /\ m[H] \in [tail : 1 .. n + 1, free : Nat, num : Int]
  /\ \A c \in 1 .. n : m[W(c)] \in Words
  /\ s \in Seq(1 .. n) /\ IsInjective(s) /\ f \in Seq(1 .. n) /\ IsInjective(f)
  /\ Range(s) \cap Range(f) = {} /\ X \cap (Range(s) \cup Range(f)) = {}
  /\ Range(s) \cup Range(f) \cup X = 1 .. m[H].tail - 1
  /\ Chain(m, s, m[ST]) /\ Chain(m, f, m[H].free)
  /\ \A c \in Range(s) \cup X : ~m[W(c)].free_bit
  /\ \A c \in Range(f) : m[W(c)].free_bit

\* What the lists say of the chunks in them.
Shape(m, n, s, f, X) ==
  /\ Range(s) \subseteq 1 .. n /\ Range(f) \subseteq 1 .. n /\ X \subseteq 1 .. n
  /\ Len(s) \in Nat /\ DOMAIN s = 1 .. Len(s) /\ Len(s) <= n /\ (s = <<>> <=> Len(s) = 0)
  /\ \A i \in 1 .. Len(s) : s[i] \in 1 .. n /\ s[i] \in Range(s)
  /\ \A i, j \in 1 .. Len(s) : s[i] = s[j] => i = j
  /\ \A x \in Range(s) : \E i \in 1 .. Len(s) : s[i] = x
  /\ \A x \in Range(s) \cup Range(f) \cup X : x < m[H].tail

\* A pool whose lists are in order has their shape.
LEMMA ListsShape ==
  ASSUME NEW m, NEW n \in Nat, NEW s, NEW f, NEW X, Lists(m, n, s, f, X)
  PROVE  Shape(m, n, s, f, X)
  <1>1. m[H] \in [tail : 1 .. n + 1, free : Nat, num : Int]
    BY DEF Lists
  <1>2. m[H].tail \in 1 .. n + 1 /\ m[H].tail \in Nat
    BY <1>1
  <1>5. /\ s \in Seq(1 .. n) /\ IsInjective(s) /\ f \in Seq(1 .. n)
        /\ Range(s) \cup Range(f) \cup X = 1 .. m[H].tail - 1
    BY DEF Lists
  <1>6. /\ Len(s) \in Nat /\ DOMAIN s = 1 .. Len(s) /\ (s = <<>> <=> Len(s) = 0)
        /\ Range(s) \subseteq 1 .. n /\ \A i \in 1 .. Len(s) : s[i] \in 1 .. n
        /\ \A x : x \in Range(s) <=> \E i \in 1 .. Len(s) : s[i] = x
    BY <1>5, SeqFacts
  <1>7. /\ Len(f) \in Nat /\ DOMAIN f = 1 .. Len(f) /\ (f = <<>> <=> Len(f) = 0)
        /\ Range(f) \subseteq 1 .. n /\ \A i \in 1 .. Len(f) : f[i] \in 1 .. n
        /\ \A x : x \in Range(f) <=> \E i \in 1 .. Len(f) : f[i] = x
    BY <1>5, SeqFacts
  <1>8. Len(s) <= n
    BY <1>5, SeqBound
  <1>9. \A i, j \in 1 .. Len(s) : s[i] = s[j] => i = j
    BY <1>5, <1>6 DEF IsInjective
  <1>10. \A x \in 1 .. m[H].tail - 1 : x \in 1 .. n /\ x < m[H].tail
    BY <1>2
  <1>11. X \subseteq 1 .. n /\ \A x \in Range(s) \cup Range(f) \cup X : x < m[H].tail
    BY <1>5, <1>10
  <1>12. QED  BY <1>6, <1>7, <1>8, <1>9, <1>11 DEF Shape

\* The list of free chunks.
LEMMA FreeChunks ==
  ASSUME NEW m, NEW n \in Nat, NEW s, NEW f, NEW X, Lists(m, n, s, f, X)
  PROVE  /\ Len(f) \in Nat /\ DOMAIN f = 1 .. Len(f) /\ (f = <<>> <=> Len(f) = 0)
         /\ \A i \in 1 .. Len(f) : f[i] \in 1 .. n /\ f[i] \in Range(f)
  <1>1. f \in Seq(1 .. n)
    BY DEF Lists
  <1>2. QED  BY <1>1, SeqFacts

\* The header and the words of a pool.
LEMMA ListsMemory ==
  ASSUME NEW m, NEW n \in Nat, NEW s, NEW f, NEW X, Lists(m, n, s, f, X)
  PROVE  /\ H \in DOMAIN m /\ ST \in DOMAIN m /\ \A c \in 1 .. n : W(c) \in DOMAIN m
         /\ m[H].tail \in 1 .. n + 1 /\ m[H].tail \in Nat /\ m[H].free \in Nat /\ m[H].num \in Int
         /\ m[H] = [tail |-> m[H].tail, free |-> m[H].free, num |-> m[H].num]
         /\ \A c \in 1 .. n : m[W(c)].to \in Nat
  <1>1. m[H] \in [tail : 1 .. n + 1, free : Nat, num : Int] /\ \A c \in 1 .. n : m[W(c)] \in Words
    BY DEF Lists
  <1>2. /\ m[H].tail \in 1 .. n + 1 /\ m[H].tail \in Nat /\ m[H].free \in Nat /\ m[H].num \in Int
        /\ m[H] = [tail |-> m[H].tail, free |-> m[H].free, num |-> m[H].num]
    BY <1>1
  <1>3. \A c \in 1 .. n : m[W(c)].to \in Nat
    BY <1>1 DEF Words
  <1>4. H \in DOMAIN m /\ ST \in DOMAIN m /\ \A c \in 1 .. n : W(c) \in DOMAIN m
    BY DEF Lists
  <1>5. QED  BY <1>2, <1>3, <1>4

\* The taken chunks are those below the tail whose word is not a free link.
LEMMA TakenIs ==
  ASSUME NEW m, NEW n \in Nat, NEW s, NEW f, NEW X, Lists(m, n, s, f, X)
  PROVE  Range(s) \cup X = {c \in 1 .. n : c < m[H].tail /\ ~m[W(c)].free_bit}
  <1>1. /\ m[H].tail \in Nat /\ Range(s) \subseteq 1 .. n /\ X \subseteq 1 .. n
        /\ \A x \in Range(s) \cup X : x < m[H].tail
    <2>1. Shape(m, n, s, f, X)
      BY ListsShape
    <2>2. QED  BY <2>1, ListsMemory DEF Shape
  <1>2. ASSUME NEW c \in Range(s) \cup X PROVE c \in 1 .. n /\ c < m[H].tail /\ ~m[W(c)].free_bit
    BY <1>1, <1>2 DEF Lists
  <1>3. ASSUME NEW c \in 1 .. n, c < m[H].tail, ~m[W(c)].free_bit PROVE c \in Range(s) \cup X
    <2>1. c \in 1 .. m[H].tail - 1
      BY <1>1, <1>3
    <2>2. c \notin Range(f)
      BY <1>3 DEF Lists
    <2>3. Range(s) \cup Range(f) \cup X = 1 .. m[H].tail - 1
      BY DEF Lists
    <2>4. QED  BY <2>1, <2>2, <2>3
  <1>4. QED  BY <1>2, <1>3

\* The lists depend on the header, the start and the words.
LEMMA ListsFrame ==
  ASSUME NEW m, NEW n \in Nat, NEW s, NEW f, NEW X, Lists(m, n, s, f, X),
         NEW q, DOMAIN q = DOMAIN m, q[H] = m[H], q[ST] = m[ST], \A c \in 1 .. n : q[W(c)] = m[W(c)]
  PROVE  Lists(q, n, s, f, X)
  <1>1. /\ \A i \in 1 .. Len(s) : s[i] \in 1 .. n
        /\ \A i \in 1 .. Len(f) : f[i] \in 1 .. n
        /\ Range(s) \subseteq 1 .. n /\ Range(f) \subseteq 1 .. n /\ X \subseteq 1 .. n
    <2>1. Shape(m, n, s, f, X)
      BY ListsShape
    <2>2. QED  BY <2>1, FreeChunks DEF Shape
  <1>2. Chain(m, s, m[ST]) /\ Chain(m, f, m[H].free)
    BY DEF Lists
  <1>3. Chain(q, s, q[ST]) /\ Chain(q, f, q[H].free)
    BY <1>1, <1>2 DEF Chain
  <1>4. (\A c \in Range(s) \cup X : ~q[W(c)].free_bit) /\ \A c \in Range(f) : q[W(c)].free_bit
    BY <1>1 DEF Lists
  <1>5. QED  BY <1>3, <1>4 DEF Lists

-----------------------------------------------------------------------------
\* The function that ListFrom defines recursively.
Walk(m, c, n, u) ==
  u = [i \in 0 .. n |->
         IF i = 0 THEN IF c = 0 THEN <<>> ELSE <<c>>
         ELSE IF u[i - 1] = <<>> \/ m[W(u[i - 1][Len(u[i - 1])])].to = 0 THEN u[i - 1]
         ELSE Append(u[i - 1], m[W(u[i - 1][Len(u[i - 1])])].to)]

\* What it is on a list of which c is the k-th chunk: the chunks from there on,
\* up to as many as were asked for.
Steps(s, k, n) ==
  [i \in 0 .. n |-> SubSeq(s, k, IF k + i < Len(s) THEN k + i ELSE Len(s))]

\* The walk along the words visits the rest of the list, chunk by chunk.
LEMMA WalkIs ==
  ASSUME NEW m, NEW n \in Nat, NEW s, NEW f, NEW X, Lists(m, n, s, f, X), NEW k \in 1 .. Len(s)
  PROVE  Walk(m, s[k], n, Steps(s, k, n))
  <1> DEFINE e(i) == IF k + i < Len(s) THEN k + i ELSE Len(s)
             c == s[k]
             Nxt(x) == IF x = <<>> \/ m[W(x[Len(x)])].to = 0 THEN x ELSE Append(x, m[W(x[Len(x)])].to)
             g == Steps(s, k, n)
  <1>1. /\ Len(s) \in Nat /\ Len(s) <= n /\ \A i \in 1 .. Len(s) : s[i] \in 1 .. n
        /\ s \in Seq(1 .. n)
    <2>1. s \in Seq(1 .. n)
      BY DEF Lists
    <2>2. Shape(m, n, s, f, X)
      BY ListsShape
    <2>3. QED  BY <2>1, <2>2 DEF Shape
  <1>2. \A i \in 1 .. Len(s) : m[W(s[i])].to = IF i = Len(s) THEN 0 ELSE s[i + 1]
    BY DEF Lists, Chain
  <1>3. \A b \in k .. Len(s) : /\ SubSeq(s, k, b) \in Seq(1 .. n) /\ Len(SubSeq(s, k, b)) = b - k + 1
                               /\ \A i \in 1 .. b - k + 1 : SubSeq(s, k, b)[i] = s[k + i - 1]
    <2>1. ASSUME NEW b \in k .. Len(s)
          PROVE  /\ SubSeq(s, k, b) \in Seq(1 .. n) /\ Len(SubSeq(s, k, b)) = b - k + 1
                 /\ \A i \in 1 .. b - k + 1 : SubSeq(s, k, b)[i] = s[k + i - 1]
      <3>1. k \in 1 .. Len(s) + 1 /\ b \in k - 1 .. Len(s)
        BY <1>1
      <3>2. k \in Int /\ b \in Int /\ \A i \in k .. b : s[i] \in 1 .. n
        BY <1>1
      <3>3. QED  BY <1>1, <3>1, <3>2, SubSeqProperties
    <2>2. QED  BY <2>1
  <1>4. ASSUME NEW b \in k .. Len(s) - 1
        PROVE  Nxt(SubSeq(s, k, b)) = SubSeq(s, k, b + 1)
    <2> DEFINE x == SubSeq(s, k, b)
               y == SubSeq(s, k, b + 1)
    <2>1. b \in k .. Len(s) /\ b + 1 \in k .. Len(s) /\ b \in 1 .. Len(s) /\ b # Len(s) /\ b + 1 \in 1 .. Len(s)
      BY <1>1
    <2>2. /\ x \in Seq(1 .. n) /\ Len(x) = b - k + 1 /\ \A i \in 1 .. b - k + 1 : x[i] = s[k + i - 1]
          /\ y \in Seq(1 .. n) /\ Len(y) = b - k + 2 /\ \A i \in 1 .. b - k + 2 : y[i] = s[k + i - 1]
      <3>1. b + 1 - k + 1 = b - k + 2
        BY <2>1
      <3>2. QED  BY <1>3, <2>1, <3>1
    <2> HIDE DEF x, y
    <2>3. x # <<>> /\ x[Len(x)] = s[b]
      <3>1. Len(x) \in 1 .. b - k + 1 /\ k + Len(x) - 1 = b
        <4>1. Len(x) = b - k + 1
          BY <2>2
        <4>2. b \in Nat /\ k \in Nat /\ k <= b
          BY <1>1, <2>1
        <4>3. QED  BY <4>1, <4>2
      <3>2. x # <<>>
        BY <2>2, <3>1, EmptySeq
      <3>3. x[Len(x)] = s[k + Len(x) - 1]
        BY <2>2, <3>1
      <3>4. QED  BY <3>1, <3>2, <3>3
    <2>4. m[W(s[b])].to = s[b + 1] /\ s[b + 1] # 0
      BY <1>1, <1>2, <2>1
    <2>5. Nxt(x) = Append(x, s[b + 1])
      BY <2>3, <2>4
    <2>6. Append(x, s[b + 1]) = y
      <3>1. s[b + 1] \in 1 .. n
        BY <1>1, <2>1
      <3> DEFINE v == s[b + 1]
                 z == Append(x, v)
      <3> HIDE DEF v
      <3>2. z \in Seq(1 .. n) /\ Len(z) = Len(x) + 1 /\ z[Len(x) + 1] = s[b + 1] /\ \A i \in 1 .. Len(x) : z[i] = x[i]
        <4>1. v \in 1 .. n /\ x \in Seq(1 .. n)
          BY <2>2, <3>1 DEF v
        <4>2. z \in Seq(1 .. n) /\ Len(z) = Len(x) + 1 /\ z[Len(x) + 1] = v /\ \A i \in 1 .. Len(x) : z[i] = x[i]
          BY <4>1, AppendProperties
        <4>3. QED  BY <4>2 DEF v
      <3> HIDE DEF z
      <3>3. Len(z) = Len(y)
        BY <2>1, <2>2, <3>2
      <3>4. \A i \in 1 .. Len(z) : z[i] = y[i]
        <4>1. \A i \in 1 .. Len(z) : i \in 1 .. Len(x) \/ (i = Len(x) + 1 /\ k + i - 1 = b + 1)
          <5>1. k \in Nat /\ b \in Nat /\ Len(x) = b - k + 1 /\ Len(z) = b - k + 2
            BY <1>1, <2>1, <2>2, <3>2
          <5>2. QED  BY <5>1
        <4>2. \A i \in 1 .. Len(x) : i \in 1 .. b - k + 1 /\ i \in 1 .. b - k + 2
          BY <2>1, <2>2
        <4>3. Len(x) + 1 \in 1 .. b - k + 2
          BY <2>1, <2>2
        <4>4. QED  BY <2>2, <3>2, <4>1, <4>2, <4>3
      <3>5. QED  BY <2>2, <3>2, <3>3, <3>4, SeqEqual DEF z, v
    <2>7. QED  BY <2>5, <2>6 DEF x, y
  <1>5. Nxt(SubSeq(s, k, Len(s))) = SubSeq(s, k, Len(s))
    <2> DEFINE x == SubSeq(s, k, Len(s))
    <2>1. Len(s) \in k .. Len(s) /\ Len(s) \in 1 .. Len(s)
      BY <1>1
    <2>2. x \in Seq(1 .. n) /\ Len(x) = Len(s) - k + 1 /\ \A i \in 1 .. Len(s) - k + 1 : x[i] = s[k + i - 1]
      BY <1>3, <2>1
    <2> HIDE DEF x
    <2>3. Len(x) \in 1 .. Len(s) - k + 1 /\ k + Len(x) - 1 = Len(s)
      BY <1>1, <2>1, <2>2
    <2>4. x[Len(x)] = s[Len(s)] /\ m[W(s[Len(s)])].to = 0
      BY <1>2, <2>1, <2>2, <2>3
    <2>5. QED  BY <2>4 DEF x
  <1>6. \A i \in 0 .. n : e(i) \in k .. Len(s)
    BY <1>1
  <1>7. SubSeq(s, k, e(0)) = <<c>>
    <2>1. e(0) = k
      BY <1>1
    <2> DEFINE x == SubSeq(s, k, k)
    <2>2. k \in k .. Len(s) /\ 1 \in 1 .. k - k + 1
      BY <1>1
    <2>3. x \in Seq(1 .. n) /\ Len(x) = 1 /\ x[1] = s[k]
      <3>1. k - k + 1 = 1 /\ k + 1 - 1 = k
        BY <1>1
      <3>2. QED  BY <1>3, <2>2, <3>1
    <2> HIDE DEF x
    <2>4. x = <<s[k]>>
      BY <2>3, SeqEqual
    <2>5. QED  BY <2>1, <2>4 DEF x
  <1>8. \A i \in 1 .. n : Nxt(SubSeq(s, k, e(i - 1))) = SubSeq(s, k, e(i))
    <2>1. ASSUME NEW i \in 1 .. n PROVE Nxt(SubSeq(s, k, e(i - 1))) = SubSeq(s, k, e(i))
      <3>1. CASE k + i <= Len(s)
        <4>1. e(i - 1) = k + i - 1 /\ e(i) = k + i /\ k + i - 1 \in k .. Len(s) - 1 /\ k + i - 1 + 1 = k + i
          BY <1>1, <3>1
        <4> HIDE DEF e, Nxt
        <4>2. QED  BY <1>4, <4>1
      <3>2. CASE ~(k + i <= Len(s))
        <4>1. e(i - 1) = Len(s) /\ e(i) = Len(s)
          BY <1>1, <3>2
        <4> HIDE DEF e, Nxt
        <4>2. QED  BY <1>5, <4>1
      <3>3. QED  BY <3>1, <3>2
    <2>2. QED  BY <2>1
  <1>9. c # 0
    BY <1>1
  <1>10. \A i \in 0 .. n : g[i] = SubSeq(s, k, e(i))
    BY DEF Steps
  <1> HIDE DEF e, c
  <1>11. g = [i \in 0 .. n |-> IF i = 0 THEN IF c = 0 THEN <<>> ELSE <<c>> ELSE Nxt(g[i - 1])]
    <2>1. \A i \in 0 .. n : g[i] = IF i = 0 THEN IF c = 0 THEN <<>> ELSE <<c>> ELSE Nxt(g[i - 1])
      <3>1. \A i \in 0 .. n : i # 0 => i \in 1 .. n /\ i - 1 \in 0 .. n
        OBVIOUS
      <3> HIDE DEF g, Nxt
      <3>2. QED  BY <1>7, <1>8, <1>9, <1>10, <3>1
    <2>2. g = [i \in 0 .. n |-> g[i]]
      BY DEF Steps
    <2> HIDE DEF g, Nxt
    <2>3. QED  BY <2>1, <2>2
  <1>12. Walk(m, c, n, g)
    <2> HIDE DEF g
    <2>1. QED  BY <1>11 DEF Walk
  <1>13. QED  BY <1>12 DEF c, g

\* Any function that satisfies the recursion is that one.
LEMMA WalkUnique ==
  ASSUME NEW m, NEW n \in Nat, NEW c, NEW u, Walk(m, c, n, u), NEW v, Walk(m, c, n, v)
  PROVE  u[n] = v[n]
  <1> DEFINE Nxt(x) == IF x = <<>> \/ m[W(x[Len(x)])].to = 0 THEN x ELSE Append(x, m[W(x[Len(x)])].to)
             One == IF c = 0 THEN <<>> ELSE <<c>>
             T == {i \in 0 .. n : u[i] # v[i]}
  <1>1. \A i \in 0 .. n : u[i] = IF i = 0 THEN One ELSE Nxt(u[i - 1])
    BY DEF Walk
  <1>2. \A i \in 0 .. n : v[i] = IF i = 0 THEN One ELSE Nxt(v[i - 1])
    BY DEF Walk
  <1> HIDE DEF Nxt, One
  <1>3. T = {}
    <2>1. SUFFICES ASSUME T # {} PROVE FALSE
      OBVIOUS
    <2>2. T \subseteq Nat
      OBVIOUS
    <2>3. PICK i \in T : \A j \in T : i <= j
      BY <2>1, <2>2, LeastNat
    <2>4. i # 0
      BY <1>1, <1>2
    <2>5. i - 1 \in 0 .. n /\ ~(i <= i - 1)
      BY <2>4
    <2>6. u[i - 1] = v[i - 1]
      BY <2>3, <2>5
    <2>7. QED  BY <1>1, <1>2, <2>3, <2>4, <2>6
  <1>4. QED  BY <1>3

\* The walk from a chunk of the list ends with the rest of the list.
LEMMA WalkEnds ==
  ASSUME NEW m, NEW n \in Nat, NEW s, NEW f, NEW X, Lists(m, n, s, f, X), NEW k \in 1 .. Len(s)
  PROVE  Steps(s, k, n)[n] = SubSeq(s, k, Len(s))
  <1>1. Len(s) \in Nat /\ Len(s) <= n
    <2>1. Shape(m, n, s, f, X)
      BY ListsShape
    <2>2. QED  BY <2>1 DEF Shape
  <1>2. (IF k + n < Len(s) THEN k + n ELSE Len(s)) = Len(s) /\ n \in 0 .. n
    BY <1>1
  <1>3. Steps(s, k, n)[n] = SubSeq(s, k, IF k + n < Len(s) THEN k + n ELSE Len(s))
    BY <1>2 DEF Steps
  <1>4. QED  BY <1>2, <1>3

\* The list from no chunk is empty.
LEMMA WalkNothing ==
  ASSUME NEW m, NEW n \in Nat
  PROVE  /\ \E u : Walk(m, 0, n, u)
         /\ \A u : Walk(m, 0, n, u) => u[n] = <<>>
  <1> DEFINE g == [i \in 0 .. n |-> <<>>]
  <1>1. Walk(m, 0, n, g)
    <2>1. \A i \in 0 .. n : i # 0 => i - 1 \in 0 .. n
      OBVIOUS
    <2>2. \A i \in 0 .. n : i # 0 => g[i - 1] = <<>>
      BY <2>1
    <2>3. QED  BY <2>2 DEF Walk
  <1>2. ASSUME NEW u, Walk(m, 0, n, u) PROVE u[n] = <<>>
    <2>1. /\ u[0] = <<>>
          /\ \A i \in 1 .. n : u[i - 1] = <<>> => u[i] = <<>>
      <3>1. 0 \in 0 .. n /\ \A i \in 1 .. n : i \in 0 .. n /\ i # 0
        OBVIOUS
      <3> DEFINE v(i) == IF i = 0 THEN IF 0 = 0 THEN <<>> ELSE <<0>>
                         ELSE IF u[i - 1] = <<>> \/ m[W(u[i - 1][Len(u[i - 1])])].to = 0 THEN u[i - 1]
                         ELSE Append(u[i - 1], m[W(u[i - 1][Len(u[i - 1])])].to)
      <3>2. u = [i \in 0 .. n |-> v(i)]
        BY <1>2 DEF Walk
      <3>3. \A i \in 0 .. n : u[i] = v(i)
        <4> HIDE DEF v
        <4>1. QED  BY <3>2
      <3>4. QED  BY <3>1, <3>3
    <2> DEFINE T == {i \in 0 .. n : u[i] # <<>>}
    <2>2. T = {}
      <3>1. SUFFICES ASSUME T # {} PROVE FALSE
        OBVIOUS
      <3>2. T \subseteq Nat
        OBVIOUS
      <3>3. PICK i \in T : \A j \in T : i <= j
        BY <3>1, <3>2, LeastNat
      <3>4. i # 0
        BY <2>1
      <3>5. i \in 1 .. n /\ i - 1 \in 0 .. n /\ ~(i <= i - 1)
        BY <3>4
      <3>6. u[i - 1] = <<>>
        BY <3>3, <3>5
      <3>7. QED  BY <2>1, <3>5, <3>6
    <2>3. QED  BY <2>2
  <1>3. QED  BY <1>1, <1>2

\* The list from its first chunk is all of it.
LEMMA WholeSubSeq ==
  ASSUME NEW S, NEW s \in Seq(S), s # <<>>
  PROVE  SubSeq(s, 1, Len(s)) = s
  <1> DEFINE x == SubSeq(s, 1, Len(s))
  <1>1. Len(s) \in Nat /\ Len(s) # 0 /\ \A i \in 1 .. Len(s) : s[i] \in S
    BY SeqFacts
  <1>2. 1 \in Int /\ Len(s) \in Int /\ 1 <= Len(s)
    BY <1>1
  <1>3. x \in Seq(S) /\ Len(x) = Len(s) - 1 + 1 /\ \A i \in 1 .. Len(s) - 1 + 1 : x[i] = s[1 + i - 1]
    BY <1>1, <1>2, SubSeqProperties
  <1> HIDE DEF x
  <1>4. Len(x) = Len(s) /\ \A i \in 1 .. Len(x) : x[i] = s[i]
    <2>1. Len(s) - 1 + 1 = Len(s) /\ \A i \in 1 .. Len(s) : 1 + i - 1 = i
      BY <1>1
    <2>2. QED  BY <1>3, <2>1
  <1>5. x = s
    BY <1>3, <1>4, SeqEqual
  <1>6. QED  BY <1>5 DEF x

\* What the scan of the list reads, and the chunk before another.
LEMMA FromIs ==
  ASSUME NEW m, NEW s, NEW f, NEW X, Lists(m, SmallChunks, s, f, X)
  PROVE  /\ \A k \in 1 .. Len(s) : F!ListFrom(m, s[k]) = SubSeq(s, k, Len(s))
         /\ F!ListFrom(m, 0) = <<>>
         /\ F!Listed(m) = s
  <1> DEFINE n == SmallChunks
  <1>1. n \in Nat /\ Null = 0
    BY Bounds
  <1>2. ASSUME NEW c PROVE F!ListFrom(m, c) = (CHOOSE u : Walk(m, c, n, u))[n]
    BY <1>1 DEF F!ListFrom, F!Next_chunk, Walk, W
  <1>3. \A k \in 1 .. Len(s) : F!ListFrom(m, s[k]) = SubSeq(s, k, Len(s))
    <2>1. ASSUME NEW k \in 1 .. Len(s) PROVE F!ListFrom(m, s[k]) = SubSeq(s, k, Len(s))
      <3> DEFINE u == CHOOSE u : Walk(m, s[k], n, u)
      <3>1. Walk(m, s[k], n, Steps(s, k, n))
        BY <1>1, WalkIs
      <3>2. Walk(m, s[k], n, u)
        <4>1. \E v : Walk(m, s[k], n, v)
          BY <3>1
        <4>2. QED  BY <4>1, Zenon
      <3> HIDE DEF u
      <3>5. u[n] = SubSeq(s, k, Len(s))
        <4>1. n \in Nat /\ Lists(m, n, s, f, X)
          BY <1>1
        <4> HIDE DEF n
        <4>2. u[n] = Steps(s, k, n)[n]
          BY <3>1, <3>2, <4>1, WalkUnique
        <4>3. QED  BY <4>1, <4>2, WalkEnds
      <3>4. QED  BY <1>2, <3>5 DEF u
    <2>2. QED  BY <2>1
  <1>4. F!ListFrom(m, 0) = <<>>
    <2> DEFINE u == CHOOSE u : Walk(m, 0, n, u)
    <2>1. Walk(m, 0, n, u)
      BY <1>1, WalkNothing
    <2> HIDE DEF u
    <2>2. u[n] = <<>>
      BY <1>1, <2>1, WalkNothing
    <2>3. QED  BY <1>2, <2>2 DEF u
  <1>5. F!Listed(m) = s
    <2>1. F!Listed(m) = F!ListFrom(m, m[ST])
      BY DEF F!Listed, ST
    <2>2. m[ST] = IF s = <<>> THEN 0 ELSE s[1]
      BY DEF Lists, Chain
    <2>3. s \in Seq(1 .. n) /\ (s # <<>> => 1 \in 1 .. Len(s))
      <3>1. s \in Seq(1 .. n)
        BY DEF Lists
      <3>2. QED  BY <3>1, SeqFacts
    <2>4. s # <<>> => SubSeq(s, 1, Len(s)) = s
      BY <2>3, WholeSubSeq
    <2>5. QED  BY <1>3, <1>4, <2>1, <2>2, <2>3, <2>4
  <1>6. QED  BY <1>3, <1>4, <1>5

\* Minimum of a set that has one.
LEMMA MinIs ==
  ASSUME NEW S, S \subseteq Nat, NEW x \in S, \A y \in S : x <= y
  PROVE  F!Min(S) = x
  <1>1. \E z \in S : \A y \in S : z <= y
    OBVIOUS
  <1>2. F!Min(S) = CHOOSE z \in S : \A y \in S : z <= y
    BY DEF F!Min
  <1>3. F!Min(S) \in S /\ \A y \in S : F!Min(S) <= y
    BY <1>1, <1>2
  <1> DEFINE z == F!Min(S)
  <1>4. z \in S /\ z <= x /\ x <= z
    BY <1>3
  <1> HIDE DEF z
  <1>5. z \in Nat /\ x \in Nat
    BY <1>4
  <1>6. z = x
    BY <1>4, <1>5
  <1>7. QED  BY <1>6 DEF z

\* The chunk before another, and the tail for one that is not there.
LEMMA BeforeIs ==
  ASSUME NEW m, NEW s, NEW f, NEW X, Lists(m, SmallChunks, s, f, X)
  PROVE  /\ \A k \in 1 .. Len(s) : F!Before(m, s[k]) = IF k = 1 THEN 0 ELSE s[k - 1]
         /\ \A c : c \notin Range(s) => F!Before(m, c) = IF s = <<>> THEN 0 ELSE s[Len(s)]
  <1>1. SmallChunks \in Nat /\ Null = 0
    BY Bounds
  <1>2. F!Listed(m) = s
    BY FromIs
  <1>3. /\ Len(s) \in Nat /\ DOMAIN s = 1 .. Len(s) /\ (s = <<>> <=> Len(s) = 0)
        /\ \A i, j \in 1 .. Len(s) : s[i] = s[j] => i = j
    <2>1. Shape(m, SmallChunks, s, f, X)
      BY <1>1, ListsShape
    <2>2. QED  BY <2>1 DEF Shape
  <1>4. \A c : F!Before(m, c) =
          LET at == {i \in DOMAIN s : s[i] = c}
              p == IF at = {} THEN Len(s) ELSE F!Min(at) - 1
          IN IF p = 0 THEN 0 ELSE s[p]
    <2>1. \A c : F!Before(m, c) =
            LET at == {i \in DOMAIN F!Listed(m) : F!Listed(m)[i] = c}
                p == IF at = {} THEN Len(F!Listed(m)) ELSE F!Min(at) - 1
            IN IF p = 0 THEN Null ELSE F!Listed(m)[p]
      BY Zenon DEF F!Before
    <2>2. QED  BY <1>1, <1>2, <2>1, Zenon
  <1>5. ASSUME NEW k \in 1 .. Len(s) PROVE F!Before(m, s[k]) = IF k = 1 THEN 0 ELSE s[k - 1]
    <2>1. {i \in DOMAIN s : s[i] = s[k]} = {k}
      BY <1>3
    <2>2. F!Min({k}) = k
      <3>1. {k} \subseteq Nat /\ k <= k
        OBVIOUS
      <3>2. QED  BY <3>1, MinIs
    <2>3. {k} # {} /\ (k - 1 = 0 <=> k = 1)
      OBVIOUS
    <2>4. QED  BY <1>4, <2>1, <2>2, <2>3
  <1>6. ASSUME NEW c, c \notin Range(s) PROVE F!Before(m, c) = IF s = <<>> THEN 0 ELSE s[Len(s)]
    <2>1. {i \in DOMAIN s : s[i] = c} = {}
      BY <1>6 DEF Range
    <2>2. QED  BY <1>3, <1>4, <2>1
  <1>7. QED  BY <1>5, <1>6

-----------------------------------------------------------------------------
\* What makes the lists right.
LEMMA ListsIntro ==
  ASSUME NEW m, NEW n \in Nat, NEW s, NEW f, NEW X,
         H \in DOMAIN m, ST \in DOMAIN m, \A c \in 1 .. n : W(c) \in DOMAIN m,
         m[H] \in [tail : 1 .. n + 1, free : Nat, num : Int],
         \A c \in 1 .. n : m[W(c)] \in Words,
         s \in Seq(1 .. n), IsInjective(s), f \in Seq(1 .. n), IsInjective(f),
         Range(s) \cap Range(f) = {}, X \cap (Range(s) \cup Range(f)) = {},
         Range(s) \cup Range(f) \cup X = 1 .. m[H].tail - 1,
         Chain(m, s, m[ST]), Chain(m, f, m[H].free),
         \A c \in Range(s) \cup X : ~m[W(c)].free_bit,
         \A c \in Range(f) : m[W(c)].free_bit
  PROVE  Lists(m, n, s, f, X)
  BY DEF Lists

\* A chunk leaves the list.
Unlink(m, s, k) ==
  IF k = 1 THEN [m EXCEPT ![ST] = m[W(s[1])].to]
  ELSE [m EXCEPT ![W(s[k - 1])] = F!Data(m[W(s[k])].to)]

\* The chunk is out of the list and not in the pool yet.
LEMMA UnlinkFacts ==
  ASSUME NEW m, NEW n \in Nat, NEW s, NEW f, NEW X, Lists(m, n, s, f, X), NEW k \in 1 .. Len(s)
  PROVE  /\ Lists(Unlink(m, s, k), n, Without(s, k), f, X \cup {s[k]})
         /\ Unlink(m, s, k)[H] = m[H]
  <1> DEFINE q == Unlink(m, s, k)
             r == Without(s, k)
             Y == X \cup {s[k]}
  <1>1. /\ H \in DOMAIN m /\ ST \in DOMAIN m /\ \A c \in 1 .. n : W(c) \in DOMAIN m
        /\ \A c \in 1 .. n : m[W(c)].to \in Nat
        /\ Len(s) \in Nat /\ \A i \in 1 .. Len(s) : s[i] \in 1 .. n /\ s[i] \in Range(s)
        /\ \A i, j \in 1 .. Len(s) : s[i] = s[j] => i = j
        /\ Range(s) \subseteq 1 .. n /\ Range(f) \subseteq 1 .. n /\ X \subseteq 1 .. n
        /\ \A i \in 1 .. Len(f) : f[i] \in Range(f)
    <2>1. /\ H \in DOMAIN m /\ ST \in DOMAIN m /\ \A c \in 1 .. n : W(c) \in DOMAIN m
          /\ \A c \in 1 .. n : m[W(c)].to \in Nat
      BY ListsMemory
    <2>2. /\ Len(s) \in Nat /\ \A i \in 1 .. Len(s) : s[i] \in 1 .. n /\ s[i] \in Range(s)
          /\ \A i, j \in 1 .. Len(s) : s[i] = s[j] => i = j
          /\ Range(s) \subseteq 1 .. n /\ Range(f) \subseteq 1 .. n /\ X \subseteq 1 .. n
          /\ \A i \in 1 .. Len(f) : f[i] \in Range(f)
      <3>1. Shape(m, n, s, f, X)
        BY ListsShape
      <3>2. QED  BY <3>1, FreeChunks DEF Shape
    <2>3. QED  BY <2>1, <2>2
  <1>2. /\ m[H] \in [tail : 1 .. n + 1, free : Nat, num : Int] /\ \A c \in 1 .. n : m[W(c)] \in Words
        /\ s \in Seq(1 .. n) /\ IsInjective(s) /\ f \in Seq(1 .. n) /\ IsInjective(f)
        /\ Range(s) \cap Range(f) = {} /\ X \cap (Range(s) \cup Range(f)) = {}
        /\ Range(s) \cup Range(f) \cup X = 1 .. m[H].tail - 1
        /\ Chain(m, s, m[ST]) /\ Chain(m, f, m[H].free)
        /\ (\A c \in Range(s) \cup X : ~m[W(c)].free_bit) /\ (\A c \in Range(f) : m[W(c)].free_bit)
    BY DEF Lists
  <1>3. /\ r \in Seq(1 .. n) /\ Len(r) = Len(s) - 1
        /\ IsInjective(r) /\ Range(r) = Range(s) \ {s[k]}
        /\ \A i \in 1 .. Len(s) - 1 : r[i] = s[IF i < k THEN i ELSE i + 1]
    BY <1>2, WithoutFacts
  <1> HIDE DEF r
  <1>4. \A i \in 1 .. Len(s) : m[W(s[i])].to = IF i = Len(s) THEN 0 ELSE s[i + 1]
    BY <1>2 DEF Chain
  <1>5. r = <<>> <=> Len(s) = 1
    <2>1. r = <<>> <=> Len(r) = 0
      BY <1>3, EmptySeq
    <2>2. QED  BY <1>1, <1>3, <2>1
  <1> DEFINE x == m[W(s[k])].to
  <1>6. x \in Nat /\ x = IF k = Len(s) THEN 0 ELSE s[k + 1]
    BY <1>1, <1>4
  <1>7. DOMAIN q = DOMAIN m /\ q[H] = m[H]
    <2>1. H # ST /\ \A c : W(c) # H
      BY Locations
    <2>2. CASE k = 1  BY <2>1, <2>2 DEF Unlink
    <2>3. CASE k # 1  BY <2>1, <2>3 DEF Unlink
    <2>4. QED  BY <2>2, <2>3
  <1>8. q[ST] = IF k = 1 THEN x ELSE m[ST]
    <2>1. ST \in DOMAIN m /\ \A c : W(c) # ST
      BY <1>1, Locations
    <2>2. CASE k = 1  BY <2>1, <2>2 DEF Unlink
    <2>3. CASE k # 1  BY <2>1, <2>3 DEF Unlink
    <2>4. QED  BY <2>2, <2>3
  <1>9. \A c \in 1 .. n : q[W(c)] = IF k # 1 /\ c = s[k - 1] THEN [to |-> x, free_bit |-> FALSE] ELSE m[W(c)]
    <2>1. /\ \A c \in 1 .. n : W(c) \in DOMAIN m
          /\ \A c, d : W(c) = W(d) => c = d
          /\ \A c : W(c) # ST
      BY <1>1, Locations
    <2>2. CASE k = 1  BY <2>1, <2>2 DEF Unlink
    <2>3. CASE k # 1
      <3>1. \A c \in 1 .. n : q[W(c)] = IF c = s[k - 1] THEN F!Data(x) ELSE m[W(c)]
        BY <2>1, <2>3 DEF Unlink
      <3>2. QED  BY <2>3, <3>1 DEF F!Data
    <2>4. QED  BY <2>2, <2>3
  <1> HIDE DEF q, x
  <1>10. k # 1 => k - 1 \in 1 .. Len(s) /\ s[k - 1] \in Range(s)
    BY <1>1
  <1>11. \A c \in 1 .. n : q[W(c)] \in Words
    <2>1. [to |-> x, free_bit |-> FALSE] \in Words
      BY <1>6 DEF Words
    <2>2. QED  BY <1>2, <1>9, <2>1
  <1>12. Range(r) \cap Range(f) = {} /\ Y \cap (Range(r) \cup Range(f)) = {}
         /\ Range(r) \cup Range(f) \cup Y = 1 .. q[H].tail - 1
    <2>1. s[k] \in Range(s)
      BY <1>1
    <2>2. QED  BY <1>2, <1>3, <1>7, <2>1
  <1>13. (\A c \in Range(r) \cup Y : ~q[W(c)].free_bit) /\ \A c \in Range(f) : q[W(c)].free_bit
    <2>1. \A c \in Range(r) \cup Y : c \in 1 .. n /\ c \in Range(s) \cup X
      BY <1>1, <1>3
    <2>2. [to |-> x, free_bit |-> FALSE].free_bit = FALSE
      OBVIOUS
    <2>3. \A c \in Range(r) \cup Y : ~q[W(c)].free_bit
      BY <1>2, <1>9, <2>1, <2>2
    <2>4. \A c \in Range(f) : q[W(c)] = m[W(c)]
      BY <1>1, <1>2, <1>9, <1>10
    <2>5. QED  BY <1>2, <2>3, <2>4
  <1>14. Chain(q, f, q[H].free)
    <2>1. \A i \in 1 .. Len(f) : q[W(f[i])] = m[W(f[i])]
      BY <1>1, <1>2, <1>9, <1>10
    <2>2. QED  BY <1>2, <1>7, <2>1 DEF Chain
  <1>15. Chain(q, r, q[ST])
    <2>1. q[ST] = IF r = <<>> THEN 0 ELSE r[1]
      <3>1. CASE k = 1
        <4>1. CASE Len(s) = 1
          BY <1>5, <1>6, <1>8, <3>1, <4>1
        <4>2. CASE Len(s) # 1
          <5>1. 1 \in 1 .. Len(s) - 1 /\ ~(1 < k) /\ k # Len(s) /\ r # <<>>
            <6>1. r # <<>>
              BY <1>5, <4>2
            <6>2. Len(s) \in Nat /\ 1 <= Len(s)
              BY <1>1
            <6>3. QED  BY <3>1, <4>2, <6>1, <6>2
          <5>2. r[1] = s[1 + 1]
            BY <1>3, <5>1
          <5>3. QED  BY <1>6, <1>8, <3>1, <5>1, <5>2
        <4>3. QED  BY <4>1, <4>2
      <3>2. CASE k # 1
        <4>1. 1 \in 1 .. Len(s) - 1 /\ 1 < k /\ r # <<>> /\ s # <<>>
          <5>1. Len(s) # 1 /\ Len(s) # 0
            BY <1>1, <3>2
          <5>2. 1 \in 1 .. Len(s) - 1 /\ 1 < k
            BY <1>1, <3>2, <5>1
          <5>3. s # <<>>
            BY <1>2, <5>1, EmptySeq
          <5>4. QED  BY <1>5, <5>1, <5>2, <5>3
        <4>2. r[1] = s[1]
          BY <1>3, <4>1
        <4>3. m[ST] = s[1]
          BY <1>2, <4>1 DEF Chain
        <4>4. QED  BY <1>8, <3>2, <4>1, <4>2, <4>3
      <3>3. QED  BY <3>1, <3>2
    <2>2. ASSUME NEW i \in 1 .. Len(r) PROVE q[W(r[i])].to = IF i = Len(r) THEN 0 ELSE r[i + 1]
      <3> DEFINE j == IF i < k THEN i ELSE i + 1
      <3>1. i \in 1 .. Len(s) - 1 /\ Len(r) = Len(s) - 1 /\ j \in 1 .. Len(s) /\ r[i] = s[j] /\ s[j] \in 1 .. n
        <4>1. i \in 1 .. Len(s) - 1 /\ Len(r) = Len(s) - 1 /\ Len(s) \in Nat
          BY <1>1, <1>3
        <4>2. j \in 1 .. Len(s)
          BY <4>1
        <4>3. QED  BY <1>1, <1>3, <4>1, <4>2
      <3>2. i # Len(r) => i + 1 \in 1 .. Len(s) - 1
        BY <1>1, <3>1
      <3>3. i # Len(r) => r[i + 1] = s[IF i + 1 < k THEN i + 1 ELSE i + 2]
        <4>1. i + 1 + 1 = i + 2
          BY <3>1
        <4>2. QED  BY <1>3, <3>2, <4>1
      <3>4. CASE i = k - 1
        <4>1. k # 1 /\ j = k - 1 /\ s[j] = s[k - 1]
          BY <1>1, <3>4
        <4>2. q[W(r[i])].to = x
          BY <1>9, <3>1, <4>1
        <4>3. i = Len(r) <=> k = Len(s)
          BY <1>1, <3>1, <3>4
        <4>4. (IF i + 1 < k THEN i + 1 ELSE i + 2) = k + 1
          BY <1>1, <3>4
        <4>5. QED  BY <1>6, <3>3, <4>2, <4>3, <4>4
      <3>5. CASE i # k - 1
        <4>1. j # k - 1
          BY <1>1, <3>5
        <4>2. k # 1 => s[j] # s[k - 1]
          BY <1>1, <1>10, <3>1, <4>1
        <4>3. q[W(r[i])].to = m[W(s[j])].to
          BY <1>9, <3>1, <4>2
        <4>4. q[W(r[i])].to = IF j = Len(s) THEN 0 ELSE s[j + 1]
          BY <1>4, <3>1, <4>3
        <4>5. j = Len(s) <=> i = Len(r)
          BY <1>1, <3>1, <3>5
        <4>6. i # Len(r) => (IF i + 1 < k THEN i + 1 ELSE i + 2) = j + 1
          BY <1>1, <3>1, <3>5
        <4>7. QED  BY <3>3, <4>4, <4>5, <4>6
      <3>6. QED  BY <3>4, <3>5
    <2>3. QED  BY <2>1, <2>2 DEF Chain
  <1>16. Lists(q, n, r, f, Y)
    BY <1>1, <1>2, <1>3, <1>7, <1>11, <1>12, <1>13, <1>14, <1>15, ListsIntro
  <1>17. QED  BY <1>7, <1>16 DEF q, r

\* The header after an update of two of its fields.
LEMMA HeaderFree ==
  ASSUME NEW A, NEW r \in [tail : A, free : Nat, num : Int], NEW x, NEW y
  PROVE  [r EXCEPT !.free = x, !.num = y] = [tail |-> r.tail, free |-> x, num |-> y]
  <1> DEFINE v == [r EXCEPT !.free = x, !.num = y]
  <1>1. v \in [tail : {r.tail}, free : {x}, num : {y}]
    OBVIOUS
  <1> HIDE DEF v
  <1>2. v = [tail |-> v.tail, free |-> v.free, num |-> v.num] /\ v.tail = r.tail /\ v.free = x /\ v.num = y
    BY <1>1
  <1>3. QED  BY <1>2 DEF v

\* The same for the other two.
LEMMA HeaderTail ==
  ASSUME NEW A, NEW r \in [tail : A, free : Nat, num : Int], NEW x, NEW y
  PROVE  [r EXCEPT !.tail = x, !.num = y] = [tail |-> x, free |-> r.free, num |-> y]
  <1> DEFINE v == [r EXCEPT !.tail = x, !.num = y]
  <1>1. v \in [tail : {x}, free : {r.free}, num : {y}]
    OBVIOUS
  <1> HIDE DEF v
  <1>2. v = [tail |-> v.tail, free |-> v.free, num |-> v.num] /\ v.tail = x /\ v.free = r.free /\ v.num = y
    BY <1>1
  <1>3. QED  BY <1>2 DEF v

\* fa_free() gives a chunk back to the pool.
GivenBack(q, m, n, s, X, c) ==
  /\ \E g : Lists(q, n, s, g, X \ {c})
  /\ DOMAIN q = DOMAIN m
  /\ \A l \in DOMAIN m : l \notin {H, W(c)} => q[l] = m[l]

\* The freed chunk is the head of the free list, or the tail moves back.
LEMMA FreeFacts ==
  ASSUME NEW m, NEW n \in Nat, NEW s, NEW f, NEW X, Lists(m, n, s, f, X), NEW c \in X
  PROVE  GivenBack(F!fa_free(m, c).pm, m, n, s, X, c)
  <1> DEFINE q == F!fa_free(m, c).pm
             h == m[H]
             Y == X \ {c}
  <1>1. /\ H \in DOMAIN m /\ ST \in DOMAIN m /\ \A d \in 1 .. n : W(d) \in DOMAIN m
        /\ h.tail \in 1 .. n + 1 /\ h.tail \in Nat /\ h.free \in Nat /\ h.num \in Int
    BY ListsMemory
  <1>2. /\ Range(s) \subseteq 1 .. n /\ Range(f) \subseteq 1 .. n /\ X \subseteq 1 .. n
        /\ \A i \in 1 .. Len(s) : s[i] \in 1 .. n /\ s[i] \in Range(s)
        /\ \A i \in 1 .. Len(f) : f[i] \in 1 .. n /\ f[i] \in Range(f)
        /\ Len(f) \in Nat /\ (f = <<>> <=> Len(f) = 0)
        /\ c < h.tail /\ c \in 1 .. n
    <2>1. /\ Range(s) \subseteq 1 .. n /\ Range(f) \subseteq 1 .. n /\ X \subseteq 1 .. n
          /\ \A i \in 1 .. Len(s) : s[i] \in 1 .. n /\ s[i] \in Range(s)
          /\ \A x \in Range(s) \cup Range(f) \cup X : x < m[H].tail
      <3>1. Shape(m, n, s, f, X)
        BY ListsShape
      <3>2. QED  BY <3>1 DEF Shape
    <2>2. QED  BY <2>1, FreeChunks
  <1>3. /\ h \in [tail : 1 .. n + 1, free : Nat, num : Int] /\ \A d \in 1 .. n : m[W(d)] \in Words
        /\ s \in Seq(1 .. n) /\ IsInjective(s) /\ f \in Seq(1 .. n) /\ IsInjective(f)
        /\ Range(s) \cap Range(f) = {} /\ X \cap (Range(s) \cup Range(f)) = {}
        /\ Range(s) \cup Range(f) \cup X = 1 .. h.tail - 1
        /\ Chain(m, s, m[ST]) /\ Chain(m, f, h.free)
        /\ (\A d \in Range(s) \cup X : ~m[W(d)].free_bit) /\ (\A d \in Range(f) : m[W(d)].free_bit)
    BY DEF Lists
  <1>4. /\ \A d : W(d) # H /\ W(d) # ST
        /\ \A d, e : W(d) = W(e) => d = e
        /\ H # ST
    BY Locations
  <1>5. c \notin Range(s) /\ c \notin Range(f)
    BY <1>3
  <1>6. CASE c + 1 = h.tail
    <2> DEFINE v == [h EXCEPT !.tail = c, !.num = @ - 1]
    <2>1. q = [m EXCEPT ![H] = v]
      BY <1>6 DEF F!fa_free, H
    <2>2. v = [tail |-> c, free |-> h.free, num |-> h.num - 1]
      <3>1. [h EXCEPT !.tail = c, !.num = h.num - 1] = [tail |-> c, free |-> h.free, num |-> h.num - 1]
        <4>1. h \in [tail : 1 .. n + 1, free : Nat, num : Int]
          BY <1>3
        <4> HIDE DEF h
        <4>2. QED  BY <4>1, HeaderTail
      <3>2. QED  BY <3>1
    <2> HIDE DEF v
    <2>3. /\ DOMAIN q = DOMAIN m /\ q[H] = v /\ \A l \in DOMAIN m : l # H => q[l] = m[l]
      BY <1>1, <2>1
    <2> HIDE DEF q
    <2>4. q[ST] = m[ST] /\ \A d \in 1 .. n : q[W(d)] = m[W(d)]
      BY <1>1, <1>4, <2>3
    <2>5. /\ q[H] \in [tail : 1 .. n + 1, free : Nat, num : Int] /\ q[H].free = h.free
          /\ 1 .. q[H].tail - 1 = (1 .. h.tail - 1) \ {c}
      BY <1>1, <1>2, <1>6, <2>2, <2>3
    <2>6. Chain(q, s, q[ST]) /\ Chain(q, f, q[H].free)
      <3>1. /\ \A i \in 1 .. Len(s) : q[W(s[i])] = m[W(s[i])]
            /\ \A i \in 1 .. Len(f) : q[W(f[i])] = m[W(f[i])]
        BY <1>2, <2>4
      <3>2. Chain(m, s, q[ST]) /\ Chain(m, f, q[H].free)
        <4>1. Chain(m, s, m[ST]) /\ Chain(m, f, h.free)
          BY <1>3
        <4>2. QED  BY <4>1, <2>4, <2>5
      <3>3. QED  BY <3>1, <3>2 DEF Chain
    <2>7. /\ Y \cap (Range(s) \cup Range(f)) = {}
          /\ Range(s) \cup Range(f) \cup Y = 1 .. q[H].tail - 1
      BY <1>3, <1>5, <2>5
    <2>8. (\A d \in Range(s) \cup Y : ~q[W(d)].free_bit) /\ \A d \in Range(f) : q[W(d)].free_bit
      BY <1>2, <1>3, <2>4
    <2>9. Lists(q, n, s, f, Y)
      BY <1>1, <1>3, <2>3, <2>4, <2>5, <2>6, <2>7, <2>8, ListsIntro
    <2>10. QED  BY <2>3, <2>9 DEF q, GivenBack
  <1>7. CASE c + 1 # h.tail
    <2> DEFINE v == [h EXCEPT !.free = c, !.num = @ - 1]
               w == [to |-> h.free, free_bit |-> TRUE]
               g == <<c>> \o f
    <2>1. q = [m EXCEPT ![W(c)] = w, ![H] = v]
      BY <1>7 DEF F!fa_free, F!Link, H, W
    <2>2. v = [tail |-> h.tail, free |-> c, num |-> h.num - 1]
      <3>1. [h EXCEPT !.free = c, !.num = h.num - 1] = [tail |-> h.tail, free |-> c, num |-> h.num - 1]
        <4>1. h \in [tail : 1 .. n + 1, free : Nat, num : Int]
          BY <1>3
        <4> HIDE DEF h
        <4>2. QED  BY <4>1, HeaderFree
      <3>2. QED  BY <3>1
    <2> HIDE DEF v, w
    <2>3. /\ DOMAIN q = DOMAIN m /\ q[H] = v /\ q[W(c)] = w
          /\ \A l \in DOMAIN m : l # H /\ l # W(c) => q[l] = m[l]
      BY <1>1, <1>2, <1>4, <2>1
    <2> HIDE DEF q
    <2>4. q[ST] = m[ST] /\ \A d \in 1 .. n : d # c => q[W(d)] = m[W(d)]
      BY <1>1, <1>4, <2>3
    <2>5. /\ q[H] \in [tail : 1 .. n + 1, free : Nat, num : Int] /\ q[H].free = c
          /\ q[H].tail = h.tail
      BY <1>1, <1>2, <2>2, <2>3
    <2>6. w \in Words /\ w.to = h.free /\ w.free_bit
      BY <1>1 DEF w, Words
    <2>7. /\ g \in Seq(1 .. n) /\ IsInjective(g) /\ Range(g) = Range(f) \cup {c}
          /\ Len(g) = Len(f) + 1 /\ g[1] = c /\ \A i \in 2 .. Len(g) : g[i] = f[i - 1]
      BY <1>2, <1>3, <1>5, ConsFacts
    <2> HIDE DEF g
    <2>8. Chain(q, s, q[ST])
      <3>1. \A i \in 1 .. Len(s) : s[i] # c
        BY <1>2, <1>5
      <3>2. QED  BY <1>2, <1>3, <2>4, <3>1 DEF Chain
    <2>9. Chain(q, g, q[H].free)
      <3>1. g # <<>>
        <4>1. Len(g) # 0
          BY <1>2, <2>7
        <4>2. QED  BY <2>7, <4>1, EmptySeq
      <3>2. h.free = IF f = <<>> THEN 0 ELSE f[1]
        BY <1>3 DEF Chain
      <3>3. ASSUME NEW i \in 1 .. Len(g) PROVE q[W(g[i])].to = IF i = Len(g) THEN 0 ELSE g[i + 1]
        <4>1. CASE i = 1
          <5>1. q[W(g[i])].to = h.free
            BY <2>3, <2>6, <2>7, <4>1
          <5>2. CASE f = <<>>
            <6>1. i = Len(g)
              BY <1>2, <2>7, <4>1, <5>2
            <6>2. QED  BY <3>2, <5>1, <5>2, <6>1
          <5>3. CASE f # <<>>
            <6>1. i # Len(g) /\ i + 1 \in 2 .. Len(g) /\ i + 1 - 1 = 1
              BY <1>2, <2>7, <4>1, <5>3
            <6>2. g[i + 1] = f[1]
              BY <2>7, <6>1
            <6>3. QED  BY <3>2, <5>1, <5>3, <6>1, <6>2
          <5>4. QED  BY <5>2, <5>3
        <4>2. CASE i # 1
          <5>1. i \in 2 .. Len(g) /\ i - 1 \in 1 .. Len(f) /\ (i = Len(g) <=> i - 1 = Len(f)) /\ i - 1 + 1 = i
            BY <1>2, <2>7, <4>2
          <5>2. i # Len(g) => i + 1 \in 2 .. Len(g) /\ i + 1 - 1 = i
            BY <1>2, <2>7, <5>1
          <5>3. g[i] = f[i - 1] /\ f[i - 1] # c /\ f[i - 1] \in 1 .. n
            BY <1>2, <1>5, <2>7, <5>1
          <5>4. q[W(g[i])].to = m[W(f[i - 1])].to
            BY <2>4, <5>3
          <5>5. m[W(f[i - 1])].to = IF i - 1 = Len(f) THEN 0 ELSE f[i - 1 + 1]
            BY <1>3, <5>1 DEF Chain
          <5>6. i # Len(g) => g[i + 1] = f[i]
            BY <2>7, <5>2
          <5>7. QED  BY <5>1, <5>4, <5>5, <5>6
        <4>3. QED  BY <4>1, <4>2
      <3>4. q[H].free = IF g = <<>> THEN 0 ELSE g[1]
        BY <2>5, <2>7, <3>1
      <3>5. QED  BY <3>3, <3>4 DEF Chain
    <2>10. /\ Range(s) \cap Range(g) = {} /\ Y \cap (Range(s) \cup Range(g)) = {}
           /\ Range(s) \cup Range(g) \cup Y = 1 .. q[H].tail - 1
      BY <1>3, <1>5, <2>5, <2>7
    <2>11. (\A d \in Range(s) \cup Y : ~q[W(d)].free_bit) /\ \A d \in Range(g) : q[W(d)].free_bit
      <3>1. \A d \in Range(s) \cup Y : d # c /\ d \in 1 .. n
        BY <1>2, <1>5
      <3>2. \A d \in Range(g) : d = c \/ (d # c /\ d \in Range(f) /\ d \in 1 .. n)
        BY <1>2, <1>5, <2>7
      <3>3. QED  BY <1>3, <2>3, <2>4, <2>6, <3>1, <3>2
    <2>12. \A d \in 1 .. n : q[W(d)] \in Words
      BY <1>3, <2>3, <2>4, <2>6
    <2>13. Lists(q, n, s, g, Y)
      BY <1>1, <1>3, <2>3, <2>4, <2>5, <2>7, <2>8, <2>9, <2>10, <2>11, <2>12, ListsIntro
    <2>14. QED  BY <2>3, <2>13 DEF q, GivenBack
  <1>8. QED  BY <1>6, <1>7

\* The location that points to the chunk s[k], and the memory without it.
LinkTo(s, k) == IF k = 1 THEN ST ELSE W(s[k - 1])

Unlinks(u, m, s, k) ==
  /\ u.pm = Unlink(m, s, k) /\ u.logs = {W(s[k]), LinkTo(s, k)}
  /\ LinkTo(s, k) \in {H, ST} \cup {W(d) : d \in 1 .. SmallChunks}
  /\ DOMAIN u.pm = DOMAIN m /\ \A l \in DOMAIN m : l # LinkTo(s, k) => u.pm[l] = m[l]

\* A listed chunk and what Unlinked() makes of the memory.
LEMMA UnlinkedIs ==
  ASSUME NEW m, NEW s, NEW f, NEW X, Lists(m, SmallChunks, s, f, X), NEW k \in 1 .. Len(s)
  PROVE  Unlinks(F!Unlinked(m, s[k]), m, s, k)
  <1> DEFINE c == s[k]
             v == F!Unlinked(m, c)
             u == Unlink(m, s, k)
             p == IF k = 1 THEN ST ELSE W(s[k - 1])
             n == SmallChunks
  <1>1. n \in Nat /\ Null = 0
    BY Bounds
  <1>2. /\ Len(s) \in Nat /\ \A i \in 1 .. Len(s) : s[i] \in 1 .. n /\ s[i] \in Range(s)
        /\ \A i, j \in 1 .. Len(s) : s[i] = s[j] => i = j
    <2>1. Shape(m, n, s, f, X)
      BY <1>1, ListsShape
    <2>2. QED  BY <2>1 DEF Shape
  <1>3. m[ST] = s[1] /\ (m[ST] = c <=> k = 1)
    <2>1. s # <<>>
      <3>1. Shape(m, n, s, f, X)
        BY <1>1, ListsShape
      <3>2. QED  BY <1>2, <3>1 DEF Shape
    <2>2. m[ST] = s[1]
      BY <2>1 DEF Lists, Chain
    <2>3. 1 \in 1 .. Len(s)
      BY <1>2
    <2>4. QED  BY <1>2, <2>2, <2>3
  <1>4. F!Listed(m) = s /\ F!Before(m, c) = IF k = 1 THEN 0 ELSE s[k - 1]
    BY FromIs, BeforeIs
  <1>5. F!Range(s) = Range(s)
    BY DEF F!Range, Range
  <1>6. c \in F!Range(F!Listed(m))
    BY <1>2, <1>4, <1>5
  <1>7. ST # W(s[k - 1])
    BY Locations
  <1>8. v = [pm |-> u, logs |-> {W(c)} \cup {p}]
    <2>1. (IF m[ST] = c THEN ST ELSE W(F!Before(m, c))) = p
      BY <1>3, <1>4
    <2>2. [m EXCEPT ![p] = IF p = ST THEN m[W(c)].to ELSE F!Data(m[W(c)].to)] = u
      <3>1. CASE k = 1  BY <3>1 DEF Unlink
      <3>2. CASE k # 1  BY <1>7, <3>2 DEF Unlink
      <3>3. QED  BY <3>1, <3>2
    <2> HIDE DEF c, p, u
    <2>3. v = LET place == IF m[ST] = c THEN ST ELSE W(F!Before(m, c))
                  listed == c \in F!Range(F!Listed(m))
              IN [pm |-> IF ~listed THEN m
                         ELSE [m EXCEPT ![place] = IF place = ST THEN m[W(c)].to ELSE F!Data(m[W(c)].to)],
                  logs |-> {W(c)} \cup IF listed THEN {place} ELSE {}]
      BY DEF F!Unlinked, F!Next_chunk, W, ST
    <2>4. QED  BY <1>6, <2>1, <2>2, <2>3
  <1>9. DOMAIN u = DOMAIN m /\ \A l \in DOMAIN m : l # p => u[l] = m[l]
    <2>1. CASE k = 1  BY <2>1 DEF Unlink
    <2>2. CASE k # 1  BY <2>2 DEF Unlink
    <2>3. QED  BY <2>1, <2>2
  <1>10. p \in {H, ST} \cup {W(d) : d \in 1 .. n}
    <2>1. k # 1 => k - 1 \in 1 .. Len(s)
      BY <1>2
    <2>2. QED  BY <1>2, <2>1
  <1>11. v.pm = u /\ v.logs = {W(c), p}
    BY <1>8
  <1>12. p = LinkTo(s, k)
    BY DEF LinkTo
  <1> HIDE DEF p, u, v
  <1>13. Unlinks(v, m, s, k)
    BY <1>9, <1>10, <1>11, <1>12 DEF Unlinks, u
  <1>14. QED  BY <1>13 DEF v

\* A chunk leaves the list and goes back to the pool.
LeftList(r, m, s, X, k) ==
  /\ \E g : Lists(r.pm, SmallChunks, Without(s, k), g, X)
  /\ DOMAIN r.pm = DOMAIN m
  /\ r.logs \subseteq {H, ST} \cup {W(c) : c \in 1 .. SmallChunks}
  /\ \A l \in DOMAIN m : l \notin r.logs => r.pm[l] = m[l]

\* Removed() takes the chunk from the list and gives it to the pool.
LEMMA RemovedFacts ==
  ASSUME NEW m, NEW s, NEW f, NEW X, Lists(m, SmallChunks, s, f, X), NEW k \in 1 .. Len(s)
  PROVE  LeftList(F!Removed(m, s[k]), m, s, X, k)
  <1> DEFINE c == s[k]
             r == F!Removed(m, c)
             u == F!Unlinked(m, c)
             p == LinkTo(s, k)
             q == F!fa_free(u.pm, c).pm
             n == SmallChunks
  <1>1. n \in Nat
    BY Bounds
  <1>2. c \in 1 .. n /\ c \in Range(s)
    <2>1. Shape(m, n, s, f, X)
      BY <1>1, ListsShape
    <2>2. QED  BY <2>1 DEF Shape
  <1>3. /\ u.pm = Unlink(m, s, k) /\ u.logs = {W(c), p}
        /\ p \in {H, ST} \cup {W(d) : d \in 1 .. n}
        /\ DOMAIN u.pm = DOMAIN m /\ \A l \in DOMAIN m : l # p => u.pm[l] = m[l]
    <2>1. Unlinks(u, m, s, k)
      BY UnlinkedIs
    <2>2. QED  BY <2>1 DEF Unlinks
  <1>4. r = [pm |-> q, logs |-> F!fa_free(u.pm, c).logs \cup u.logs]
    BY DEF F!Removed
  <1>5. F!fa_free(u.pm, c).logs = {H}
    BY DEF F!fa_free, H
  <1>6. Lists(u.pm, n, Without(s, k), f, X \cup {c})
    <2>1. Lists(Unlink(m, s, k), n, Without(s, k), f, X \cup {s[k]})
      BY <1>1, UnlinkFacts
    <2>2. QED  BY <1>3, <2>1
  <1>7. c \notin X
    BY <1>2 DEF Lists
  <1>8. r.pm = q /\ r.logs = {H, W(c), p}
    BY <1>3, <1>4, <1>5
  <1> HIDE DEF u, p, r
  <1>9. /\ \E g : Lists(q, n, Without(s, k), g, X)
        /\ DOMAIN q = DOMAIN u.pm
        /\ \A l \in DOMAIN u.pm : l \notin {H, W(c)} => q[l] = u.pm[l]
    <2> DEFINE D == X \cup {c}
    <2>1. Lists(u.pm, n, Without(s, k), f, D) /\ c \in D
      BY <1>6
    <2>2. D \ {c} = X
      BY <1>7
    <2> HIDE DEF c, n, D
    <2>3. GivenBack(q, u.pm, n, Without(s, k), D, c)
      BY <1>1, <2>1, FreeFacts
    <2>4. QED  BY <2>2, <2>3 DEF GivenBack
  <1> HIDE DEF q
  <1>10. \A l \in DOMAIN m : l \notin r.logs => r.pm[l] = m[l]
    BY <1>3, <1>8, <1>9
  <1>11. r.logs \subseteq {H, ST} \cup {W(d) : d \in 1 .. n}
    BY <1>2, <1>3, <1>8
  <1>12. LeftList(r, m, s, X, k)
    BY <1>3, <1>8, <1>9, <1>10, <1>11 DEF LeftList
  <1>13. QED  BY <1>12 DEF r, c

MP(c) == F!Map(c)

\* The bitmap of a chunk is a location of its own.
LEMMA MapLocations ==
  /\ \A c : MP(c) # H /\ MP(c) # ST
  /\ \A c, d : MP(c) # W(d)
  /\ \A c, d : MP(c) = MP(d) => c = d
  BY DEF H, ST, W, MP, F!Hdr, F!Start, F!Word, F!Map

\* A new chunk comes out of the pool, in no list yet.
Made(q, m, n, s, X, c) ==
  /\ c \in 1 .. n /\ c \notin Range(s) \cup X
  /\ \E g : Lists(q, n, s, g, X \cup {c})
  /\ q[W(c)].to = 0 /\ q[MP(c)] = F!FixedChunk
  /\ DOMAIN q = DOMAIN m
  /\ \A l \in DOMAIN m : l \notin {H, W(c), MP(c)} => q[l] = m[l]

NewChunk(m) == [F!fa_alloc(m).pm EXCEPT ![W(F!fa_alloc(m).obj)] = F!Data(Null),
                                        ![MP(F!fa_alloc(m).obj)] = F!FixedChunk]

\* What the memory is after fa_alloc() and the constructor of the chunk.
LEMMA MadeIntro ==
  ASSUME NEW m, NEW n \in Nat, NEW s, NEW f, NEW X, Lists(m, n, s, f, X),
         \A d \in 1 .. n : MP(d) \in DOMAIN m,
         NEW c \in 1 .. n, c \notin Range(s) \cup X,
         NEW h \in [tail : 1 .. n + 1, free : Nat, num : Int],
         NEW q, DOMAIN q = DOMAIN m, q[H] = h, q[W(c)] = [to |-> 0, free_bit |-> FALSE],
         q[MP(c)] = F!FixedChunk,
         \A l \in DOMAIN m : l \notin {H, W(c), MP(c)} => q[l] = m[l],
         NEW g \in Seq(1 .. n), IsInjective(g), c \notin Range(g), Range(g) \subseteq Range(f),
         Range(s) \cup Range(g) \cup X \cup {c} = 1 .. h.tail - 1,
         Chain(m, g, h.free)
  PROVE  Made(q, m, n, s, X, c)
  <1>1. Shape(m, n, s, f, X)
    BY ListsShape
  <1>2. /\ H \in DOMAIN m /\ ST \in DOMAIN m /\ \A d \in 1 .. n : W(d) \in DOMAIN m
    BY ListsMemory
  <1>3. /\ \A d \in 1 .. n : m[W(d)] \in Words
        /\ s \in Seq(1 .. n) /\ IsInjective(s)
        /\ Range(s) \cap Range(f) = {} /\ X \cap (Range(s) \cup Range(f)) = {}
        /\ Chain(m, s, m[ST])
        /\ (\A d \in Range(s) \cup X : ~m[W(d)].free_bit) /\ (\A d \in Range(f) : m[W(d)].free_bit)
    BY DEF Lists
  <1>4. q[ST] = m[ST] /\ \A d \in 1 .. n : d # c => q[W(d)] = m[W(d)]
    BY <1>2, Locations, MapLocations
  <1>5. \A d \in 1 .. n : q[W(d)] \in Words
    <2>1. q[W(c)] \in Words
      BY DEF Words
    <2>2. QED  BY <1>3, <1>4, <2>1
  <1>6. Chain(q, s, q[ST])
    <2>1. \A i \in 1 .. Len(s) : s[i] # c /\ s[i] \in 1 .. n
      BY <1>1 DEF Shape
    <2>2. QED  BY <1>3, <1>4, <2>1 DEF Chain
  <1>7. Chain(q, g, q[H].free)
    <2>1. \A i \in 1 .. Len(g) : g[i] # c /\ g[i] \in 1 .. n
      BY SeqFacts
    <2>2. QED  BY <1>4, <2>1 DEF Chain
  <1>8. (\A d \in Range(s) \cup (X \cup {c}) : ~q[W(d)].free_bit) /\ \A d \in Range(g) : q[W(d)].free_bit
    <2>1. Range(s) \subseteq 1 .. n /\ X \subseteq 1 .. n /\ Range(f) \subseteq 1 .. n
      BY <1>1 DEF Shape
    <2>2. \A d \in Range(s) \cup X : d # c /\ d \in 1 .. n
      BY <2>1
    <2>3. \A d \in Range(g) : d # c /\ d \in 1 .. n /\ d \in Range(f)
      BY <2>1
    <2>4. ~q[W(c)].free_bit
      OBVIOUS
    <2>5. \A d \in Range(s) \cup X : ~q[W(d)].free_bit
      BY <1>3, <1>4, <2>2
    <2>6. \A d \in Range(g) : q[W(d)].free_bit
      BY <1>3, <1>4, <2>3
    <2>7. QED  BY <2>4, <2>5, <2>6
  <1>9. Range(s) \cap Range(g) = {} /\ (X \cup {c}) \cap (Range(s) \cup Range(g)) = {}
    BY <1>3
  <1>10. Range(s) \cup Range(g) \cup (X \cup {c}) = 1 .. q[H].tail - 1
    OBVIOUS
  <1>11. /\ H \in DOMAIN q /\ ST \in DOMAIN q /\ \A d \in 1 .. n : W(d) \in DOMAIN q
         /\ q[H] \in [tail : 1 .. n + 1, free : Nat, num : Int]
    BY <1>2
  <1>12. Lists(q, n, s, g, X \cup {c})
    BY <1>3, <1>5, <1>6, <1>7, <1>8, <1>9, <1>10, <1>11, ListsIntro
  <1>13. q[W(c)].to = 0
    OBVIOUS
  <1>14. QED  BY <1>12, <1>13 DEF Made

\* fa_alloc() finds a chunk unless the pool is exhausted.
LEMMA MadeFacts ==
  ASSUME NEW m, NEW s, NEW f, NEW X, Lists(m, SmallChunks, s, f, X), ~F!Exhausted(m),
         \A d \in 1 .. SmallChunks : MP(d) \in DOMAIN m
  PROVE  Made(NewChunk(m), m, SmallChunks, s, X, F!fa_alloc(m).obj)
  <1> DEFINE n == SmallChunks
             h == m[H]
             a == F!fa_alloc(m)
             q == NewChunk(m)
  <1>1. n \in Nat /\ Null = 0
    BY Bounds
  <1>2. /\ H \in DOMAIN m /\ \A d \in 1 .. n : W(d) \in DOMAIN m
        /\ h.tail \in 1 .. n + 1 /\ h.tail \in Nat /\ h.free \in Nat /\ h.num \in Int
        /\ \A d \in 1 .. n : m[W(d)].to \in Nat
    BY <1>1, ListsMemory
  <1>3. /\ h \in [tail : 1 .. n + 1, free : Nat, num : Int]
        /\ f \in Seq(1 .. n) /\ IsInjective(f)
        /\ Range(s) \cap Range(f) = {} /\ X \cap (Range(s) \cup Range(f)) = {}
        /\ Range(s) \cup Range(f) \cup X = 1 .. h.tail - 1
        /\ Chain(m, f, h.free)
    BY DEF Lists
  <1>4. /\ Len(f) \in Nat /\ DOMAIN f = 1 .. Len(f) /\ (f = <<>> <=> Len(f) = 0)
        /\ \A i \in 1 .. Len(f) : f[i] \in 1 .. n /\ f[i] \in Range(f)
    BY <1>1, FreeChunks
  <1>5. h.free = (IF f = <<>> THEN 0 ELSE f[1]) /\ (h.free # 0 <=> f # <<>>)
    <2>1. h.free = IF f = <<>> THEN 0 ELSE f[1]
      BY <1>3 DEF Chain
    <2>2. f # <<>> => f[1] # 0
      BY <1>4
    <2>3. QED  BY <2>1, <2>2
  <1>6. H # W(a.obj) /\ H # MP(a.obj) /\ W(a.obj) # MP(a.obj)
    BY Locations, MapLocations
  <1>7. CASE f # <<>>
    <2> DEFINE c == f[1]
               x == m[W(c)].to
               v == [tail |-> h.tail, free |-> x, num |-> h.num + 1]
               g == Without(f, 1)
    <2>1. 1 \in 1 .. Len(f) /\ c \in 1 .. n /\ c \in Range(f) /\ h.free = c /\ h.free # 0
      BY <1>4, <1>5, <1>7
    <2>2. [h EXCEPT !.free = x, !.num = h.num + 1] = v
      <3>1. h \in [tail : 1 .. n + 1, free : Nat, num : Int]
        BY <1>3
      <3> HIDE DEF h, x
      <3>2. QED  BY <3>1, HeaderFree
    <2>3. a.obj = c /\ a.pm = [m EXCEPT ![W(c)] = F!Data(x), ![H] = v]
      <3>1. a.obj = c /\ a.pm = [m EXCEPT ![W(c)] = F!Data(x), ![H] = [h EXCEPT !.free = x, !.num = h.num + 1]]
        BY <1>1, <2>1 DEF F!fa_alloc, H, W
      <3>2. QED  BY <2>2, <3>1
    <2> HIDE DEF v
    <2>4. q = [[m EXCEPT ![W(c)] = F!Data(x), ![H] = v] EXCEPT ![W(c)] = F!Data(0), ![MP(c)] = F!FixedChunk]
      BY <1>1, <2>3 DEF NewChunk
    <2>5. /\ DOMAIN q = DOMAIN m /\ q[H] = v /\ q[W(c)] = F!Data(0) /\ q[MP(c)] = F!FixedChunk
          /\ \A l \in DOMAIN m : l \notin {H, W(c), MP(c)} => q[l] = m[l]
      BY <1>1, <1>2, <1>6, <2>1, <2>3, <2>4
    <2>6. F!Data(0) = [to |-> 0, free_bit |-> FALSE]
      BY DEF F!Data
    <2>7. /\ g \in Seq(1 .. n) /\ Len(g) = Len(f) - 1 /\ IsInjective(g) /\ Range(g) = Range(f) \ {c}
          /\ \A i \in 1 .. Len(f) - 1 : g[i] = f[IF i < 1 THEN i ELSE i + 1]
      BY <1>3, <2>1, WithoutFacts
    <2>8. \A i \in 1 .. Len(f) - 1 : g[i] = f[i + 1]
      <3>1. \A i \in 1 .. Len(f) - 1 : ~(i < 1)
        OBVIOUS
      <3>2. QED  BY <2>7, <3>1
    <2> HIDE DEF q, g
    <2>9. v \in [tail : 1 .. n + 1, free : Nat, num : Int] /\ v.tail = h.tail /\ v.free = x
      BY <1>2, <2>1 DEF v
    <2>10. \A i \in 1 .. Len(f) : m[W(f[i])].to = IF i = Len(f) THEN 0 ELSE f[i + 1]
      BY <1>3 DEF Chain
    <2>11. Chain(m, g, v.free)
      <3>1. x = IF g = <<>> THEN 0 ELSE g[1]
        <4>1. x = IF 1 = Len(f) THEN 0 ELSE f[2]
          <5>1. m[W(f[1])].to = IF 1 = Len(f) THEN 0 ELSE f[1 + 1]
            BY <2>1, <2>10
          <5>2. 1 + 1 = 2
            OBVIOUS
          <5>3. QED  BY <5>1, <5>2
        <4>2. g = <<>> <=> 1 = Len(f)
          <5>1. g = <<>> <=> Len(g) = 0
            BY <2>7, EmptySeq
          <5>2. QED  BY <1>4, <2>7, <5>1
        <4>3. 1 # Len(f) => g[1] = f[2]
          <5>1. 1 # Len(f) => 1 \in 1 .. Len(f) - 1
            BY <1>4, <2>1
          <5>2. QED  BY <2>8, <5>1
        <4>4. QED  BY <4>1, <4>2, <4>3
      <3>2. ASSUME NEW i \in 1 .. Len(g) PROVE m[W(g[i])].to = IF i = Len(g) THEN 0 ELSE g[i + 1]
        <4>1. i \in 1 .. Len(f) - 1 /\ i + 1 \in 1 .. Len(f) /\ (i = Len(g) <=> i + 1 = Len(f))
          BY <1>4, <2>7
        <4>2. i # Len(g) => i + 1 \in 1 .. Len(f) - 1
          <5>1. Len(f) \in Nat /\ Len(g) = Len(f) - 1 /\ i \in 1 .. Len(g)
            BY <1>4, <2>7
          <5>2. QED  BY <5>1
        <4>3. QED  BY <2>8, <2>10, <4>1, <4>2
      <3>3. QED  BY <2>9, <3>1, <3>2 DEF Chain
    <2>12. Range(s) \cup Range(g) \cup X \cup {c} = 1 .. v.tail - 1
      BY <1>3, <2>1, <2>7, <2>9
    <2>13. c \notin Range(s) \cup X /\ c \notin Range(g) /\ Range(g) \subseteq Range(f)
      BY <1>3, <2>1, <2>7
    <2> HIDE DEF c, h, x
    <2>14. Made(q, m, n, s, X, c)
      BY <1>1, <2>1, <2>5, <2>6, <2>7, <2>9, <2>11, <2>12, <2>13, MadeIntro
    <2>15. QED  BY <2>3, <2>14 DEF q
  <1>8. CASE f = <<>>
    <2> DEFINE c == h.tail
               v == [tail |-> c + 1, free |-> h.free, num |-> h.num + 1]
    <2>1. h.free = 0 /\ c <= n /\ c \in 1 .. n /\ c + 1 \in 1 .. n + 1
      <3>1. h.free = 0
        BY <1>5, <1>8
      <3>2. ~(c > n)
        BY <1>1, <3>1 DEF F!Exhausted, H
      <3>3. QED  BY <1>1, <1>2, <3>1, <3>2
    <2>2. [h EXCEPT !.tail = c + 1, !.num = h.num + 1] = v
      <3>1. h \in [tail : 1 .. n + 1, free : Nat, num : Int]
        BY <1>3
      <3> HIDE DEF h
      <3>2. QED  BY <3>1, HeaderTail
    <2>3. a.obj = c /\ a.pm = [m EXCEPT ![H] = v]
      <3>1. a.obj = c /\ a.pm = [m EXCEPT ![H] = [h EXCEPT !.tail = c + 1, !.num = h.num + 1]]
        BY <1>1, <2>1 DEF F!fa_alloc, H
      <3>2. QED  BY <2>2, <3>1
    <2> HIDE DEF v
    <2>4. q = [[m EXCEPT ![H] = v] EXCEPT ![W(c)] = F!Data(0), ![MP(c)] = F!FixedChunk]
      BY <1>1, <2>3 DEF NewChunk
    <2>5. /\ DOMAIN q = DOMAIN m /\ q[H] = v /\ q[W(c)] = F!Data(0) /\ q[MP(c)] = F!FixedChunk
          /\ \A l \in DOMAIN m : l \notin {H, W(c), MP(c)} => q[l] = m[l]
      BY <1>1, <1>2, <1>6, <2>1, <2>3, <2>4
    <2>6. F!Data(0) = [to |-> 0, free_bit |-> FALSE]
      BY DEF F!Data
    <2> HIDE DEF q
    <2>7. v \in [tail : 1 .. n + 1, free : Nat, num : Int] /\ v.tail = c + 1 /\ v.free = 0
      BY <1>2, <2>1 DEF v
    <2>8. Range(f) = {}
      BY <1>8 DEF Range
    <2>9. Range(s) \cup Range(f) \cup X \cup {c} = 1 .. v.tail - 1
      <3>1. (1 .. c - 1) \cup {c} = 1 .. c + 1 - 1
        BY <2>1
      <3>2. QED  BY <1>3, <2>7, <2>8, <3>1
    <2>10. c \notin Range(s) \cup X /\ c \notin Range(f) /\ Range(f) \subseteq Range(f)
      <3>1. c \notin 1 .. c - 1
        BY <2>1
      <3>2. QED  BY <1>3, <2>8, <3>1
    <2>11. Chain(m, f, v.free)
      BY <1>3, <2>1, <2>7
    <2> HIDE DEF c, h
    <2>12. Made(q, m, n, s, X, c)
      BY <1>1, <1>3, <2>1, <2>5, <2>6, <2>7, <2>9, <2>10, <2>11, MadeIntro
    <2>13. QED  BY <2>3, <2>12 DEF q
  <1>9. QED  BY <1>7, <1>8

LastOf(s) == IF s = <<>> THEN 0 ELSE s[Len(s)]

\* A taken chunk is linked in behind the last one.
LEMMA AppendedFacts ==
  ASSUME NEW q, NEW n \in Nat, NEW s, NEW g, NEW X, NEW c \in 1 .. n, c \notin X,
         Lists(q, n, s, g, X \cup {c}), q[W(c)].to = 0
  PROVE  LET p == F!Appended(q, LastOf(s), c)
         IN /\ Lists(p, n, Append(s, c), g, X)
            /\ DOMAIN p = DOMAIN q
            /\ \A d : MP(d) \in DOMAIN q => p[MP(d)] = q[MP(d)]
  <1> DEFINE p == F!Appended(q, LastOf(s), c)
             r == Append(s, c)
             z == IF s = <<>> THEN ST ELSE W(s[Len(s)])
             y == IF s = <<>> THEN c ELSE F!Data(c)
  <1>1. Null = 0
    BY Bounds
  <1>2. Shape(q, n, s, g, X \cup {c})
    BY ListsShape
  <1>3. /\ H \in DOMAIN q /\ ST \in DOMAIN q /\ \A d \in 1 .. n : W(d) \in DOMAIN q
    BY ListsMemory
  <1>4. /\ q[H] \in [tail : 1 .. n + 1, free : Nat, num : Int] /\ \A d \in 1 .. n : q[W(d)] \in Words
        /\ s \in Seq(1 .. n) /\ IsInjective(s) /\ g \in Seq(1 .. n) /\ IsInjective(g)
        /\ Range(s) \cap Range(g) = {} /\ (X \cup {c}) \cap (Range(s) \cup Range(g)) = {}
        /\ Range(s) \cup Range(g) \cup (X \cup {c}) = 1 .. q[H].tail - 1
        /\ Chain(q, s, q[ST]) /\ Chain(q, g, q[H].free)
        /\ (\A d \in Range(s) \cup (X \cup {c}) : ~q[W(d)].free_bit) /\ (\A d \in Range(g) : q[W(d)].free_bit)
    BY DEF Lists
  <1>5. /\ Len(s) \in Nat /\ (s = <<>> <=> Len(s) = 0)
        /\ Range(s) \subseteq 1 .. n /\ Range(g) \subseteq 1 .. n /\ X \subseteq 1 .. n
        /\ \A i \in 1 .. Len(s) : s[i] \in 1 .. n /\ s[i] \in Range(s)
        /\ \A i, j \in 1 .. Len(s) : s[i] = s[j] => i = j
    BY <1>2 DEF Shape
  <1>6. s # <<>> => Len(s) \in 1 .. Len(s) /\ s[Len(s)] \in 1 .. n /\ s[Len(s)] \in Range(s)
    BY <1>5
  <1>7. q[ST] = 0 <=> s = <<>>
    <2>1. q[ST] = IF s = <<>> THEN 0 ELSE s[1]
      BY <1>4 DEF Chain
    <2>2. s # <<>> => s[1] # 0
      BY <1>5
    <2>3. QED  BY <2>1, <2>2
  <1>8. p = [q EXCEPT ![z] = y]
    BY <1>1, <1>7 DEF F!Appended, LastOf, ST, W
  <1>9. z \in DOMAIN q /\ z # H /\ \A d : z # MP(d)
    BY <1>3, <1>6, Locations, MapLocations
  <1>10. DOMAIN p = DOMAIN q /\ p[z] = y /\ \A l \in DOMAIN q : l # z => p[l] = q[l]
    <2> HIDE DEF z, y
    <2>1. QED  BY <1>8, <1>9
  <1> HIDE DEF p
  <1>11. c \notin Range(s) /\ c \notin Range(g)
    BY <1>4
  <1>12. /\ r \in Seq(1 .. n) /\ IsInjective(r) /\ Range(r) = Range(s) \cup {c}
         /\ Len(r) = Len(s) + 1 /\ r[Len(s) + 1] = c /\ \A i \in 1 .. Len(s) : r[i] = s[i]
    <2>1. Extends(r, 1 .. n, s, c)
      BY <1>4, <1>11, AppendFacts
    <2>2. QED  BY <2>1 DEF Extends
  <1> HIDE DEF r
  <1>13. /\ p[H] = q[H] /\ (s = <<>> => p[ST] = c) /\ (s # <<>> => p[ST] = q[ST])
         /\ s # <<>> => p[W(s[Len(s)])] = F!Data(c)
         /\ \A d \in 1 .. n : (s = <<>> \/ d # s[Len(s)]) => p[W(d)] = q[W(d)]
    BY <1>3, <1>9, <1>10, Locations
  <1>14. F!Data(c) = [to |-> c, free_bit |-> FALSE]
    BY DEF F!Data
  <1>15. \A d \in 1 .. n : p[W(d)] \in Words
    <2>1. F!Data(c) \in Words
      BY <1>14 DEF Words
    <2>2. QED  BY <1>4, <1>13, <2>1
  <1>16. Chain(p, r, p[ST])
    <2>1. r # <<>>
      BY <1>5, <1>12, EmptySeq
    <2>2. p[ST] = r[1]
      <3>1. CASE s = <<>>
        <4>1. Len(s) + 1 = 1
          BY <1>5, <3>1
        <4>2. QED  BY <1>12, <1>13, <3>1, <4>1
      <3>2. CASE s # <<>>
        <4>1. 1 \in 1 .. Len(s)
          BY <1>5, <3>2
        <4>2. q[ST] = s[1]
          BY <1>4, <3>2 DEF Chain
        <4>3. QED  BY <1>12, <1>13, <3>2, <4>1, <4>2
      <3>3. QED  BY <3>1, <3>2
    <2>3. ASSUME NEW i \in 1 .. Len(r) PROVE p[W(r[i])].to = IF i = Len(r) THEN 0 ELSE r[i + 1]
      <3>1. Len(s) \in Nat /\ Len(r) = Len(s) + 1
        BY <1>5, <1>12
      <3>2. CASE i = Len(r)
        <4>1. r[i] = c
          BY <1>12, <3>1, <3>2
        <4>2. s = <<>> \/ c # s[Len(s)]
          BY <1>6, <1>11
        <4>3. QED  BY <1>13, <3>2, <4>1, <4>2
      <3>3. CASE i # Len(r)
        <4>1. i \in 1 .. Len(s) /\ s # <<>>
          BY <1>5, <3>1, <3>3
        <4>2. r[i] = s[i] /\ s[i] \in 1 .. n
          BY <1>5, <1>12, <4>1
        <4>3. CASE i = Len(s)
          <5>1. p[W(r[i])] = F!Data(c) /\ r[i + 1] = c
            BY <1>12, <1>13, <4>1, <4>2, <4>3
          <5>2. QED  BY <1>14, <3>3, <5>1
        <4>4. CASE i # Len(s)
          <5>1. i + 1 \in 1 .. Len(s) /\ Len(s) \in 1 .. Len(s)
            BY <3>1, <4>1, <4>4
          <5>2. r[i + 1] = s[i + 1] /\ s[i] # s[Len(s)]
            BY <1>5, <1>12, <4>1, <4>4, <5>1
          <5>3. p[W(r[i])] = q[W(s[i])]
            BY <1>13, <4>2, <5>2
          <5>4. q[W(s[i])].to = s[i + 1]
            BY <1>4, <4>1, <4>4 DEF Chain
          <5>5. QED  BY <3>3, <5>2, <5>3, <5>4
        <4>5. QED  BY <4>3, <4>4
      <3>4. QED  BY <3>2, <3>3
    <2>4. QED  BY <2>1, <2>2, <2>3 DEF Chain
  <1>17. \A d \in Range(g) : d \in 1 .. n /\ (s = <<>> \/ d # s[Len(s)])
    BY <1>4, <1>5, <1>6
  <1>18. Chain(p, g, p[H].free)
    <2>1. \A i \in 1 .. Len(g) : g[i] \in Range(g)
      BY <1>4, SeqFacts
    <2>2. \A i \in 1 .. Len(g) : p[W(g[i])] = q[W(g[i])]
      BY <1>13, <1>17, <2>1
    <2>3. Chain(q, g, q[H].free) /\ p[H] = q[H]
      BY <1>4, <1>13
    <2>4. QED  BY <2>2, <2>3 DEF Chain
  <1>19. (\A d \in Range(r) \cup X : ~p[W(d)].free_bit) /\ \A d \in Range(g) : p[W(d)].free_bit
    <2>1. ~F!Data(c).free_bit
      BY <1>14
    <2>2. \A d \in Range(g) : p[W(d)].free_bit
      BY <1>4, <1>13, <1>17
    <2>3. \A d \in Range(r) \cup X : d \in 1 .. n /\ d \in Range(s) \cup (X \cup {c})
      BY <1>5, <1>12
    <2>4. \A d \in Range(r) \cup X : ~p[W(d)].free_bit
      BY <1>4, <1>13, <2>1, <2>3
    <2>5. QED  BY <2>2, <2>4
  <1>20. /\ Range(r) \cap Range(g) = {} /\ X \cap (Range(r) \cup Range(g)) = {}
         /\ Range(r) \cup Range(g) \cup X = 1 .. p[H].tail - 1
    BY <1>4, <1>11, <1>12, <1>13
  <1>21. /\ H \in DOMAIN p /\ ST \in DOMAIN p /\ (\A d \in 1 .. n : W(d) \in DOMAIN p)
         /\ p[H] \in [tail : 1 .. n + 1, free : Nat, num : Int]
    BY <1>3, <1>4, <1>10, <1>13
  <1>22. Lists(p, n, r, g, X)
    BY <1>4, <1>12, <1>15, <1>16, <1>18, <1>19, <1>20, <1>21, ListsIntro
  <1>23. \A d : MP(d) \in DOMAIN q => p[MP(d)] = q[MP(d)]
    BY <1>9, <1>10
  <1>24. QED  BY <1>10, <1>22, <1>23 DEF p, r

\* The memory p has one more chunk at the end of the list than m.
Grew(p, m, n, s, c) ==
  /\ c \in 1 .. n /\ c \notin Range(s)
  /\ \E g : Lists(p, n, Append(s, c), g, {})
  /\ p[MP(c)] = F!FixedChunk
  /\ DOMAIN p = DOMAIN m
  /\ \A d : d # c /\ MP(d) \in DOMAIN m => p[MP(d)] = m[MP(d)]

\* The inner transaction of alloc() makes the list longer by one chunk.
LEMMA GrewFacts ==
  ASSUME NEW m, NEW s, NEW f, Lists(m, SmallChunks, s, f, {}), ~F!Exhausted(m),
         \A d \in 1 .. SmallChunks : MP(d) \in DOMAIN m
  PROVE  Grew(F!Appended(NewChunk(m), LastOf(s), F!fa_alloc(m).obj), m, SmallChunks, s, F!fa_alloc(m).obj)
  <1> DEFINE n == SmallChunks
             c == F!fa_alloc(m).obj
             q == NewChunk(m)
             p == F!Appended(q, LastOf(s), c)
  <1>1. Made(q, m, n, s, {}, c)
    BY MadeFacts
  <1>2. n \in Nat
    BY Bounds
  <1> HIDE DEF c, q, n
  <1>3. PICK g : Lists(q, n, s, g, {} \cup {c})
    BY <1>1 DEF Made
  <1>4. /\ c \in 1 .. n /\ c \notin Range(s) /\ q[W(c)].to = 0 /\ q[MP(c)] = F!FixedChunk
        /\ DOMAIN q = DOMAIN m
        /\ \A l \in DOMAIN m : l \notin {H, W(c), MP(c)} => q[l] = m[l]
    BY <1>1 DEF Made
  <1>5. /\ Lists(p, n, Append(s, c), g, {})
        /\ DOMAIN p = DOMAIN q
        /\ \A d : MP(d) \in DOMAIN q => p[MP(d)] = q[MP(d)]
    BY <1>2, <1>3, <1>4, AppendedFacts
  <1> HIDE DEF p
  <1>6. MP(c) \in DOMAIN q
    BY <1>4 DEF n
  <1>7. \A d : d # c /\ MP(d) \in DOMAIN m => p[MP(d)] = m[MP(d)]
    BY <1>4, <1>5, MapLocations
  <1>8. p[MP(c)] = F!FixedChunk
    BY <1>4, <1>5, <1>6
  <1>9. Grew(p, m, n, s, c)
    BY <1>4, <1>5, <1>7, <1>8 DEF Grew
  <1>10. QED  BY <1>9 DEF p, q, c, n

\* A list that ends at the chunk x: those behind it are taken, but not listed.
CutShort(q, n, s, f, X, x) ==
  \E t, Y : /\ Lists(q, n, t, f, Y) /\ t # <<>> /\ t[Len(t)] = x
            /\ Range(t) \subseteq Range(s) /\ Range(t) \cup Y = Range(s) \cup X

\* A chunk loses what follows it.
LEMMA CutFacts ==
  ASSUME NEW m, NEW n \in Nat, NEW s, NEW f, NEW X, Lists(m, n, s, f, X), NEW k \in 1 .. Len(s)
  PROVE  CutShort([m EXCEPT ![W(s[k])] = F!Data(0)], n, s, f, X, s[k])
  <1> DEFINE q == [m EXCEPT ![W(s[k])] = F!Data(0)]
             t == SubSeq(s, 1, k)
             Y == X \cup (Range(s) \ Range(t))
  <1>1. /\ H \in DOMAIN m /\ ST \in DOMAIN m /\ \A c \in 1 .. n : W(c) \in DOMAIN m
    BY ListsMemory
  <1>2. /\ Len(s) \in Nat /\ \A i \in 1 .. Len(s) : s[i] \in 1 .. n /\ s[i] \in Range(s)
        /\ \A i, j \in 1 .. Len(s) : s[i] = s[j] => i = j
        /\ Range(s) \subseteq 1 .. n /\ Range(f) \subseteq 1 .. n /\ X \subseteq 1 .. n
        /\ \A i \in 1 .. Len(f) : f[i] \in Range(f)
    <2>1. Shape(m, n, s, f, X)
      BY ListsShape
    <2>2. QED  BY <2>1, FreeChunks DEF Shape
  <1>3. /\ m[H] \in [tail : 1 .. n + 1, free : Nat, num : Int] /\ \A c \in 1 .. n : m[W(c)] \in Words
        /\ s \in Seq(1 .. n) /\ f \in Seq(1 .. n) /\ IsInjective(f)
        /\ Range(s) \cap Range(f) = {} /\ X \cap (Range(s) \cup Range(f)) = {}
        /\ Range(s) \cup Range(f) \cup X = 1 .. m[H].tail - 1
        /\ Chain(m, s, m[ST]) /\ Chain(m, f, m[H].free)
        /\ (\A c \in Range(s) \cup X : ~m[W(c)].free_bit) /\ (\A c \in Range(f) : m[W(c)].free_bit)
    BY DEF Lists
  <1>4. k \in Nat /\ k >= 1 /\ k <= Len(s)
    BY <1>2
  <1>5. t \in Seq(1 .. n) /\ Len(t) = k /\ \A i \in 1 .. k : t[i] = s[i]
    <2>1. /\ 1 \in 1 .. Len(s) + 1 /\ k \in 1 - 1 .. Len(s) /\ 1 \in Int /\ k \in Int
          /\ \A i \in 1 .. k : s[i] \in 1 .. n
      BY <1>2, <1>4
    <2>2. t \in Seq(1 .. n) /\ Len(t) = k - 1 + 1 /\ \A i \in 1 .. k - 1 + 1 : t[i] = s[1 + i - 1]
      BY <1>3, <2>1, SubSeqProperties
    <2>3. k - 1 + 1 = k /\ \A i \in 1 .. k : 1 + i - 1 = i
      BY <1>4
    <2> HIDE DEF t
    <2>4. QED  BY <2>2, <2>3
  <1> HIDE DEF t
  <1>6. /\ t # <<>> /\ DOMAIN t = 1 .. k /\ \A x : x \in Range(t) <=> \E i \in 1 .. k : t[i] = x
    BY <1>4, <1>5, SeqFacts
  <1>7. IsInjective(t)
    <2>1. \A i, j \in 1 .. k : t[i] = t[j] => i = j
      BY <1>2, <1>4, <1>5
    <2>2. QED  BY <1>6, <2>1 DEF IsInjective
  <1>8. Range(t) \subseteq Range(s) /\ s[k] \in Range(s) /\ s[k] \in 1 .. n
    BY <1>2, <1>4, <1>5, <1>6
  <1>9. /\ DOMAIN q = DOMAIN m /\ q[H] = m[H] /\ q[ST] = m[ST]
        /\ q[W(s[k])] = F!Data(0)
        /\ \A c \in 1 .. n : c # s[k] => q[W(c)] = m[W(c)]
    BY <1>1, <1>8, Locations
  <1>10. F!Data(0) = [to |-> 0, free_bit |-> FALSE] /\ F!Data(0) \in Words
    BY DEF F!Data, Words
  <1> HIDE DEF q
  <1>11. \A c \in 1 .. n : q[W(c)] \in Words
    BY <1>3, <1>9, <1>10
  <1>12. Chain(q, t, q[ST])
    <2>1. q[ST] = t[1]
      <3>1. s # <<>> /\ 1 \in 1 .. k
        BY <1>2, <1>3, <1>4, EmptySeq
      <3>2. m[ST] = s[1]
        BY <1>3, <3>1 DEF Chain
      <3>3. QED  BY <1>5, <1>9, <3>1, <3>2
    <2>2. ASSUME NEW i \in 1 .. k PROVE q[W(t[i])].to = IF i = k THEN 0 ELSE t[i + 1]
      <3>1. CASE i = k
        BY <1>5, <1>9, <1>10, <3>1
      <3>2. CASE i # k
        <4>1. i \in 1 .. Len(s) /\ i + 1 \in 1 .. k /\ i # Len(s)
          BY <1>2, <1>4, <3>2
        <4>2. s[i] # s[k] /\ s[i] \in 1 .. n
          BY <1>2, <3>2, <4>1
        <4>3. q[W(t[i])].to = m[W(s[i])].to
          BY <1>5, <1>9, <4>2
        <4>4. m[W(s[i])].to = s[i + 1]
          BY <1>3, <4>1 DEF Chain
        <4>5. QED  BY <1>5, <3>2, <4>1, <4>3, <4>4
      <3>3. QED  BY <3>1, <3>2
    <2>3. QED  BY <1>5, <1>6, <2>1, <2>2 DEF Chain
  <1>13. \A c \in Range(f) : c # s[k] /\ c \in 1 .. n
    BY <1>2, <1>3, <1>8
  <1>14. Chain(q, f, q[H].free)
    <2>1. \A i \in 1 .. Len(f) : q[W(f[i])] = m[W(f[i])]
      BY <1>2, <1>9, <1>13
    <2>2. QED  BY <1>3, <1>9, <2>1 DEF Chain
  <1>15. (\A c \in Range(t) \cup Y : ~q[W(c)].free_bit) /\ \A c \in Range(f) : q[W(c)].free_bit
    <2>1. \A c \in Range(t) \cup Y : c \in 1 .. n /\ c \in Range(s) \cup X
      BY <1>2, <1>8
    <2>2. \A c \in Range(s) \cup X : ~m[W(c)].free_bit
      BY <1>3
    <2>3. ASSUME NEW c \in Range(t) \cup Y PROVE ~q[W(c)].free_bit
      <3>1. CASE c = s[k]   BY <1>9, <1>10, <3>1
      <3>2. CASE c # s[k]
        <4>1. q[W(c)] = m[W(c)]  BY <1>9, <2>1, <3>2
        <4>2. QED  BY <2>1, <2>2, <4>1
      <3>3. QED  BY <3>1, <3>2
    <2>4. ASSUME NEW c \in Range(f) PROVE q[W(c)].free_bit
      <3>1. q[W(c)] = m[W(c)]  BY <1>9, <1>13
      <3>2. QED  BY <1>3, <3>1
    <2>5. QED  BY <2>3, <2>4
  <1>16. /\ Range(t) \cap Range(f) = {} /\ Y \cap (Range(t) \cup Range(f)) = {}
         /\ Range(t) \cup Range(f) \cup Y = 1 .. q[H].tail - 1
         /\ Range(t) \cup Y = Range(s) \cup X
    BY <1>3, <1>8, <1>9
  <1>17. H \in DOMAIN q /\ ST \in DOMAIN q /\ (\A c \in 1 .. n : W(c) \in DOMAIN q)
         /\ q[H] \in [tail : 1 .. n + 1, free : Nat, num : Int]
    BY <1>1, <1>3, <1>9
  <1> HIDE DEF Y
  <1>18. Lists(q, n, t, f, Y)
    BY <1>3, <1>5, <1>7, <1>11, <1>12, <1>14, <1>15, <1>16, <1>17, ListsIntro
  <1>19. t[Len(t)] = s[k]
    BY <1>4, <1>5
  <1>20. CutShort(q, n, s, f, X, s[k])
    BY <1>6, <1>8, <1>16, <1>18, <1>19 DEF CutShort
  <1>21. QED  BY <1>20 DEF q

\* The memory p has one more chunk, at the end of a list that may have become
\* shorter: all chunks of C are still taken.
Regrew(p, m, n, C, c) ==
  /\ c \in 1 .. n /\ c \notin C
  /\ \E t, f, Y : /\ Lists(p, n, t, f, Y) /\ c \in Range(t)
                  /\ Range(t) \cup Y = C \cup {c}
  /\ p[MP(c)] = F!FixedChunk
  /\ DOMAIN p = DOMAIN m
  /\ \A d : d # c /\ MP(d) \in DOMAIN m => p[MP(d)] = m[MP(d)]

\* The memory p is q with chunk c linked in: the chunks of C are still taken.
LinkedIn(p, q, n, C, c) ==
  /\ \E t, f, Y : /\ Lists(p, n, t, f, Y) /\ c \in Range(t)
                  /\ Range(t) \cup Y = C \cup {c}
  /\ DOMAIN p = DOMAIN q
  /\ \A d : MP(d) \in DOMAIN q => p[MP(d)] = q[MP(d)]

\* A taken chunk that is not listed is linked in behind the last one.
LEMMA BehindFacts ==
  ASSUME NEW u, NEW n \in Nat, NEW t, NEW g, NEW Z, NEW c \in 1 .. n, c \in Z,
         Lists(u, n, t, g, Z), u[W(c)].to = 0
  PROVE  LinkedIn(F!Appended(u, LastOf(t), c), u, n, Range(t) \cup (Z \ {c}), c)
  <1> DEFINE p == F!Appended(u, LastOf(t), c)
             Y == Z \ {c}
  <1>1. c \notin Y /\ Y \cup {c} = Z
    OBVIOUS
  <1> HIDE DEF Y
  <1>2. Lists(u, n, t, g, Y \cup {c})
    BY <1>1
  <1>3. /\ Lists(p, n, Append(t, c), g, Y)
        /\ DOMAIN p = DOMAIN u
        /\ \A d : MP(d) \in DOMAIN u => p[MP(d)] = u[MP(d)]
    BY <1>1, <1>2, AppendedFacts
  <1> HIDE DEF p
  <1>4. t \in Seq(1 .. n) /\ IsInjective(t) /\ c \notin Range(t)
    BY DEF Lists
  <1>5. Extends(Append(t, c), 1 .. n, t, c)
    BY <1>4, AppendFacts
  <1>6. Range(Append(t, c)) = Range(t) \cup {c}
    BY <1>5 DEF Extends
  <1>7. c \in Range(Append(t, c)) /\ Range(Append(t, c)) \cup Y = Range(t) \cup Y \cup {c}
    BY <1>6
  <1>8. LinkedIn(p, u, n, Range(t) \cup Y, c)
    BY <1>3, <1>7 DEF LinkedIn
  <1>9. QED  BY <1>8 DEF p, Y

\* A new chunk is linked in behind a chunk of the list, whatever followed it.
LEMMA LinkedFacts ==
  ASSUME NEW q, NEW s, NEW g, NEW X, NEW c \in 1 .. SmallChunks, c \notin X,
         Lists(q, SmallChunks, s, g, X \cup {c}), q[W(c)].to = 0,
         NEW last \in Range(s) \cup {0}, q[ST] = 0 \/ last # 0
  PROVE  LinkedIn(F!Appended(q, last, c), q, SmallChunks, Range(s) \cup X, c)
  <1> DEFINE n == SmallChunks
             p == F!Appended(q, last, c)
  <1>1. n \in Nat /\ Null = 0
    BY Bounds
  <1>2. Shape(q, n, s, g, X \cup {c})
    BY <1>1, ListsShape
  <1>3. /\ Len(s) \in Nat /\ (s = <<>> <=> Len(s) = 0)
        /\ \A i \in 1 .. Len(s) : s[i] \in 1 .. n /\ s[i] \in Range(s)
        /\ \A x \in Range(s) : \E i \in 1 .. Len(s) : s[i] = x
    BY <1>2 DEF Shape
  <1>4. q[ST] = 0 <=> s = <<>>
    <2>1. q[ST] = IF s = <<>> THEN 0 ELSE s[1]
      BY DEF Lists, Chain
    <2>2. s # <<>> => s[1] # 0
      BY <1>3
    <2>3. QED  BY <2>1, <2>2
  <1>5. c \notin Range(s)
    BY DEF Lists
  <1>6. CASE s = <<>>
    <2>1. p = F!Appended(q, LastOf(s), c)
      BY <1>1, <1>4, <1>6 DEF F!Appended, ST
    <2>2. LinkedIn(F!Appended(q, LastOf(s), c), q, n, Range(s) \cup ((X \cup {c}) \ {c}), c)
      BY <1>1, BehindFacts
    <2>3. (X \cup {c}) \ {c} = X
      OBVIOUS
    <2> HIDE DEF p
    <2>4. LinkedIn(p, q, n, Range(s) \cup X, c)
      BY <2>1, <2>2, <2>3
    <2>5. QED  BY <2>4 DEF p
  <1>7. CASE s # <<>>
    <2>1. last \in Range(s) /\ q[ST] # 0
      BY <1>4, <1>7
    <2>2. PICK k \in 1 .. Len(s) : s[k] = last
      BY <1>3, <2>1
    <2> DEFINE u == [q EXCEPT ![W(last)] = F!Data(0)]
    <2>3. PICK t, Z : /\ Lists(u, n, t, g, Z) /\ t # <<>> /\ t[Len(t)] = last
                      /\ Range(t) \subseteq Range(s) /\ Range(t) \cup Z = Range(s) \cup (X \cup {c})
      <3>1. CutShort(u, n, s, g, X \cup {c}, last)
        BY <1>1, <2>2, CutFacts
      <3>2. QED  BY <3>1 DEF CutShort
    <2>4. c \in Z /\ Range(t) \cup (Z \ {c}) = Range(s) \cup X
      BY <1>5, <2>3
    <2>5. last # c /\ last \in 1 .. n
      BY <1>3, <1>5, <2>1
    <2>6. /\ DOMAIN u = DOMAIN q /\ u[W(c)] = q[W(c)] /\ u[ST] = q[ST]
          /\ \A d : u[MP(d)] = q[MP(d)]
      BY <2>5, Locations, MapLocations
    <2>7. p = F!Appended(u, LastOf(t), c)
      <3>1. LastOf(t) = last
        BY <2>3 DEF LastOf
      <3>2. F!Appended(u, last, c) = [u EXCEPT ![W(last)] = F!Data(c)]
        BY <1>1, <2>1, <2>6 DEF F!Appended, ST, W
      <3>3. p = [q EXCEPT ![W(last)] = F!Data(c)]
        BY <1>1, <2>1 DEF F!Appended, ST, W
      <3>4. QED  BY <3>1, <3>2, <3>3
    <2> HIDE DEF u, p
    <2>8. LinkedIn(F!Appended(u, LastOf(t), c), u, n, Range(t) \cup (Z \ {c}), c)
      BY <1>1, <2>3, <2>4, <2>6, BehindFacts
    <2>9. LinkedIn(p, u, n, Range(s) \cup X, c)
      BY <2>4, <2>7, <2>8
    <2>10. LinkedIn(p, q, n, Range(s) \cup X, c)
      BY <2>6, <2>9 DEF LinkedIn
    <2>11. QED  BY <2>10 DEF p
  <1>8. QED  BY <1>6, <1>7

\* The inner transaction of alloc(), behind any chunk of the list.
LEMMA RegrewFacts ==
  ASSUME NEW m, NEW s, NEW f, NEW X, Lists(m, SmallChunks, s, f, X), ~F!Exhausted(m),
         \A d \in 1 .. SmallChunks : MP(d) \in DOMAIN m,
         NEW last \in Range(s) \cup {0}, m[ST] = 0 \/ last # 0
  PROVE  Regrew(F!Appended(NewChunk(m), last, F!fa_alloc(m).obj), m, SmallChunks,
                Range(s) \cup X, F!fa_alloc(m).obj)
  <1> DEFINE n == SmallChunks
             c == F!fa_alloc(m).obj
             q == NewChunk(m)
             p == F!Appended(q, last, c)
  <1>1. Made(q, m, n, s, X, c)
    BY MadeFacts
  <1>2. ST \in DOMAIN m
    BY Bounds, ListsMemory
  <1> HIDE DEF c, q
  <1>3. PICK g : Lists(q, n, s, g, X \cup {c})
    BY <1>1 DEF Made
  <1>4. /\ c \in 1 .. n /\ c \notin Range(s) \cup X /\ q[W(c)].to = 0 /\ q[MP(c)] = F!FixedChunk
        /\ DOMAIN q = DOMAIN m
        /\ \A l \in DOMAIN m : l \notin {H, W(c), MP(c)} => q[l] = m[l]
    BY <1>1 DEF Made
  <1>5. q[ST] = 0 \/ last # 0
    BY <1>2, <1>4, Locations, MapLocations
  <1>6. LinkedIn(p, q, n, Range(s) \cup X, c)
    BY <1>3, <1>4, <1>5, LinkedFacts
  <1> HIDE DEF p
  <1>7. MP(c) \in DOMAIN q
    BY <1>4
  <1>8. \A d : d # c /\ MP(d) \in DOMAIN m => p[MP(d)] = m[MP(d)]
    BY <1>4, <1>6, MapLocations DEF LinkedIn
  <1>9. p[MP(c)] = F!FixedChunk
    BY <1>4, <1>6, <1>7 DEF LinkedIn
  <1>10. Regrew(p, m, n, Range(s) \cup X, c)
    BY <1>4, <1>6, <1>8, <1>9 DEF Regrew, LinkedIn
  <1>11. QED  BY <1>10 DEF p, q, c

-----------------------------------------------------------------------------
(***************************************************************************)
(* The bitmaps of the chunks.                                              *)
(***************************************************************************)
SP == F!Spots

\* The bitmap b of a chunk says that the spots U are in use.
Fits(b, U) ==
  /\ b \in [free_spots : Int, next_index : Int, occupants : SUBSET SP]
  /\ b.occupants = U
  /\ b.free_spots = MaxSpots - Cardinality(U)

\* The spots of a chunk, counted.
LEMMA SpotsCounted ==
  ASSUME NEW U, U \subseteq SP
  PROVE  /\ IsFiniteSet(U) /\ Cardinality(U) \in Nat /\ Cardinality(U) <= MaxSpots
         /\ Cardinality(U) = MaxSpots <=> U = SP
         /\ Cardinality(U) = 0 <=> U = {}
  <1>1. MaxSpots \in Nat /\ SP = 0 .. MaxSpots - 1 /\ MaxSpots >= 2
    BY Bounds DEF SP, F!Spots
  <1>2. IsFiniteSet(SP) /\ Cardinality(SP) = MaxSpots
    <2>1. 0 \in Int /\ MaxSpots - 1 \in Int /\ ~(0 > MaxSpots - 1)
      BY <1>1
    <2>2. /\ IsFiniteSet(0 .. MaxSpots - 1)
          /\ Cardinality(0 .. MaxSpots - 1) = IF 0 > MaxSpots - 1 THEN 0 ELSE MaxSpots - 1 - 0 + 1
      BY <2>1, FS_Interval
    <2>3. QED  BY <1>1, <2>1, <2>2
  <1>3. IsFiniteSet(U) /\ Cardinality(U) <= Cardinality(SP) /\ (Cardinality(U) = Cardinality(SP) => U = SP)
    BY <1>2, FS_Subset
  <1>4. Cardinality(U) \in Nat /\ (Cardinality(U) = 0 <=> U = {})
    BY <1>3, FS_CardinalityType, FS_EmptySet
  <1>5. QED  BY <1>2, <1>3, <1>4

\* A chunk is full, empty or neither.
LEMMA RoomIs ==
  ASSUME NEW U, U \subseteq SP, NEW b, Fits(b, U)
  PROVE  /\ b.free_spots \in Int
         /\ b.free_spots > 0 <=> U # SP
         /\ b.free_spots = 0 <=> U = SP
         /\ b.free_spots = MaxSpots <=> U = {}
  <1>1. Cardinality(U) \in Nat /\ Cardinality(U) <= MaxSpots /\ (Cardinality(U) = MaxSpots <=> U = SP)
        /\ (Cardinality(U) = 0 <=> U = {})
    BY SpotsCounted
  <1>2. MaxSpots \in Nat /\ b.free_spots = MaxSpots - Cardinality(U)
    BY Bounds DEF Fits
  <1>3. QED  BY <1>1, <1>2

\* FixedChunk::alloc finds a free spot and marks it.
LEMMA AllocSpot ==
  ASSUME NEW U, U \subseteq SP, U # SP, NEW b, Fits(b, U)
  PROVE  LET r == F!FixedChunk_alloc(b)
         IN r.spot \in SP \ U /\ Fits(r.map, U \cup {r.spot}) /\ r.map.free_spots = b.free_spots - 1
  <1> DEFINE ahead == {i \in SP \ U : i >= b.next_index}
             x == IF ahead # {} THEN F!Min(ahead) ELSE F!Min(SP \ U)
             r == F!FixedChunk_alloc(b)
             mp == [free_spots |-> b.free_spots - 1, next_index |-> x + 1, occupants |-> U \cup {x}]
  <1>1. SP \subseteq Nat
    BY Bounds DEF SP, F!Spots
  <1>2. ASSUME NEW T, T \subseteq SP, T # {} PROVE F!Min(T) \in T
    <2>1. T \subseteq Nat
      BY <1>1, <1>2
    <2>2. PICK y \in T : \A z \in T : y <= z
      BY <1>2, <2>1, LeastNat
    <2>3. F!Min(T) = y
      BY <2>1, <2>2, MinIs
    <2>4. QED  BY <2>3
  <1>3. ahead \subseteq SP \ U /\ SP \ U # {} /\ SP \ U \subseteq SP
    OBVIOUS
  <1>4. x \in SP \ U
    <2>1. ahead # {} => F!Min(ahead) \in ahead
      BY <1>2, <1>3
    <2>2. F!Min(SP \ U) \in SP \ U
      BY <1>2, <1>3
    <2>3. QED  BY <1>3, <2>1, <2>2
  <1>5. r = [spot |-> x, map |-> mp]
    BY DEF F!FixedChunk_alloc, SP, Fits
  <1> HIDE DEF x
  <1>6. b.free_spots \in Int /\ b.free_spots = MaxSpots - Cardinality(U)
    BY DEF Fits
  <1>7. Cardinality(U \cup {x}) = Cardinality(U) + 1 /\ Cardinality(U) \in Nat
    <2>1. IsFiniteSet(U) /\ Cardinality(U) \in Nat
      BY SpotsCounted
    <2>2. QED  BY <1>4, <2>1, FS_AddElement
  <1>8. Fits(mp, U \cup {x}) /\ mp.free_spots = b.free_spots - 1
    <2>1. MaxSpots \in Nat /\ x \in Nat
      BY <1>1, <1>4, Bounds
    <2>2. mp.free_spots = MaxSpots - Cardinality(U \cup {x})
      BY <1>6, <1>7, <2>1
    <2>3. U \cup {x} \in SUBSET SP
      BY <1>4
    <2>4. QED  BY <1>6, <2>1, <2>2, <2>3 DEF Fits
  <1>9. r.spot = x /\ r.map = mp
    BY <1>5
  <1>10. QED  BY <1>4, <1>8, <1>9

\* FixedChunk::free unmarks a spot.
LEMMA FreeSpot ==
  ASSUME NEW U, U \subseteq SP, NEW x \in U, NEW b, Fits(b, U)
  PROVE  Fits(F!FixedChunk_free(b, x), U \ {x})
  <1> DEFINE mp == F!FixedChunk_free(b, x)
  <1>1. /\ b.free_spots \in Int /\ b.free_spots = MaxSpots - Cardinality(U) /\ b.next_index \in Int
        /\ b.occupants = U
    BY DEF Fits
  <1>2. mp = [free_spots |-> b.free_spots + 1,
              next_index |-> IF b.free_spots = 0 THEN x ELSE b.next_index,
              occupants |-> U \ {x}]
    BY <1>1 DEF F!FixedChunk_free
  <1>3. Cardinality(U \ {x}) = Cardinality(U) - 1 /\ Cardinality(U) \in Nat
    <2>1. IsFiniteSet(U) /\ Cardinality(U) \in Nat
      BY SpotsCounted
    <2>2. QED  BY <2>1, FS_RemoveElement
  <1>4. x \in Int /\ MaxSpots \in Nat
    BY Bounds DEF SP, F!Spots
  <1> HIDE DEF mp
  <1>5. mp.free_spots = MaxSpots - Cardinality(U \ {x}) /\ mp.free_spots \in Int
    BY <1>1, <1>2, <1>3, <1>4
  <1>6. mp \in [free_spots : Int, next_index : Int, occupants : SUBSET SP] /\ mp.occupants = U \ {x}
    <2>1. (IF b.free_spots = 0 THEN x ELSE b.next_index) \in Int /\ b.free_spots + 1 \in Int /\ U \ {x} \in SUBSET SP
      BY <1>1, <1>4
    <2>2. QED  BY <1>2, <2>1
  <1>7. QED  BY <1>5, <1>6 DEF Fits, mp

\* A new chunk is empty.
LEMMA NewFits == Fits(F!FixedChunk, {})
  <1>1. Cardinality({}) = 0
    BY FS_EmptySet
  <1>2. QED  BY <1>1, Bounds DEF Fits, F!FixedChunk

\* The spots that the objects in O take of chunk c, and whether one is left.
On(O, c) == {i \in SP : <<c, i>> \in O}
Room(O, c) == On(O, c) # SP

\* The bitmaps of the chunks in C hold the objects O and no other.
Maps(m, C, O) ==
  /\ \A c \in C : Fits(m[MP(c)], On(O, c))
  /\ \A o \in O : o[1] \in C /\ o[2] \in SP /\ o = <<o[1], o[2]>>

\* The bitmaps depend on what is at their locations.
LEMMA MapsFrame ==
  ASSUME NEW m, NEW C, NEW O, Maps(m, C, O), NEW q, \A c \in C : q[MP(c)] = m[MP(c)]
  PROVE  Maps(q, C, O)
  BY DEF Maps

\* An object goes into a chunk.
LEMMA MapsTake ==
  ASSUME NEW m, NEW C, NEW O, Maps(m, C, O), NEW c \in C, Room(O, c),
         \A d \in C : MP(d) \in DOMAIN m
  PROVE  LET r == F!FixedChunk_alloc(m[MP(c)])
         IN /\ Maps([m EXCEPT ![MP(c)] = r.map], C, O \cup {<<c, r.spot>>})
            /\ <<c, r.spot>> \notin O /\ r.spot \in SP
            /\ Room(O \cup {<<c, r.spot>>}, c) <=> m[MP(c)].free_spots # 1
            /\ \A d : d # c => On(O \cup {<<c, r.spot>>}, d) = On(O, d)
  <1> DEFINE b == m[MP(c)]
             U == On(O, c)
             r == F!FixedChunk_alloc(b)
             q == [m EXCEPT ![MP(c)] = r.map]
             P == O \cup {<<c, r.spot>>}
  <1>1. Fits(b, U) /\ U \subseteq SP /\ U # SP
    BY DEF Maps, Room, On
  <1>2. r.spot \in SP \ U /\ Fits(r.map, U \cup {r.spot}) /\ r.map.free_spots = b.free_spots - 1
    <2> HIDE DEF b, U
    <2>1. QED  BY <1>1, AllocSpot
  <1>3. <<c, r.spot>> \notin O
    BY <1>2 DEF On
  <1> DEFINE x == r.spot
             y == r.map
  <1> HIDE DEF x, y, r
  <1>4. /\ On(P, c) = U \cup {x}
        /\ \A d : d # c => On(P, d) = On(O, d)
    BY <1>2 DEF On, x
  <1>5. DOMAIN q = DOMAIN m /\ q[MP(c)] = y /\ \A d \in C : d # c => q[MP(d)] = m[MP(d)]
    BY MapLocations DEF y
  <1>6. Maps(q, C, P)
    <2>1. \A d \in C : Fits(q[MP(d)], On(P, d))
      <3>1. Fits(q[MP(c)], On(P, c))
        BY <1>2, <1>4, <1>5 DEF x, y
      <3>2. \A d \in C : d # c => Fits(q[MP(d)], On(P, d))
        BY <1>4, <1>5 DEF Maps
      <3>3. QED  BY <3>1, <3>2
    <2>2. \A o \in P : o[1] \in C /\ o[2] \in SP /\ o = <<o[1], o[2]>>
      BY <1>2 DEF Maps
    <2>3. QED  BY <2>1, <2>2 DEF Maps
  <1>7. Room(P, c) <=> b.free_spots # 1
    <2>1. U \cup {x} \subseteq SP /\ Fits(y, U \cup {x})
      BY <1>1, <1>2 DEF x, y
    <2>2. y.free_spots = 0 <=> U \cup {x} = SP
      BY <2>1, RoomIs
    <2>3. b.free_spots \in Int /\ y.free_spots = b.free_spots - 1
      BY <1>1, <1>2 DEF Fits, y
    <2>4. Room(P, c) <=> U \cup {x} # SP
      BY <1>4 DEF Room
    <2> HIDE DEF P, U, b
    <2>5. QED  BY <2>2, <2>3, <2>4
  <1>8. QED  BY <1>2, <1>3, <1>4, <1>6, <1>7 DEF r, x

\* An object leaves its chunk.
LEMMA MapsFree ==
  ASSUME NEW m, NEW C, NEW O, Maps(m, C, O), NEW o \in O,
         \A d \in C : MP(d) \in DOMAIN m
  PROVE  LET c == o[1]
             q == [m EXCEPT ![MP(c)] = F!FixedChunk_free(m[MP(c)], o[2])]
         IN /\ Maps(q, C, O \ {o})
            /\ c \in C
            /\ Room(O \ {o}, c)
            /\ q[MP(c)].free_spots = MaxSpots <=> On(O \ {o}, c) = {}
            /\ m[MP(c)].free_spots = 0 <=> ~Room(O, c)
            /\ \A d : d # c => On(O \ {o}, d) = On(O, d)
  <1> DEFINE c == o[1]
             i == o[2]
             b == m[MP(c)]
             U == On(O, c)
             y == F!FixedChunk_free(b, i)
             q == [m EXCEPT ![MP(c)] = y]
             P == O \ {o}
  <1>1. c \in C /\ i \in SP /\ o = <<c, i>> /\ Fits(b, U)
    BY DEF Maps
  <1>2. U \subseteq SP /\ i \in U
    BY <1>1 DEF On
  <1>3. Fits(y, U \ {i})
    <2> HIDE DEF b, U, i
    <2>1. QED  BY <1>1, <1>2, FreeSpot
  <1>4. /\ On(P, c) = U \ {i}
        /\ \A d : d # c => On(P, d) = On(O, d)
    <2>1. P = O \ {<<c, i>>}
      BY <1>1
    <2> HIDE DEF c, i, P
    <2>2. QED  BY <1>1, <2>1 DEF On
  <1> HIDE DEF y
  <1>5. q[MP(c)] = y /\ \A d \in C : d # c => q[MP(d)] = m[MP(d)]
    BY <1>1, MapLocations
  <1>6. Maps(q, C, P)
    <2>1. \A d \in C : Fits(q[MP(d)], On(P, d))
      <3>1. Fits(q[MP(c)], On(P, c))
        BY <1>3, <1>4, <1>5
      <3>2. \A d \in C : d # c => Fits(q[MP(d)], On(P, d))
        BY <1>4, <1>5 DEF Maps
      <3>3. QED  BY <3>1, <3>2
    <2>2. \A e \in P : e[1] \in C /\ e[2] \in SP /\ e = <<e[1], e[2]>>
      BY DEF Maps
    <2>3. QED  BY <2>1, <2>2 DEF Maps
  <1>7. U \ {i} \subseteq SP /\ U \ {i} # SP
    BY <1>2
  <1>8. y.free_spots = MaxSpots <=> U \ {i} = {}
    BY <1>3, <1>7, RoomIs
  <1>9. b.free_spots = 0 <=> U = SP
    <2> HIDE DEF b, U
    <2>1. QED  BY <1>1, <1>2, RoomIs
  <1>10. QED  BY <1>1, <1>4, <1>5, <1>6, <1>7, <1>8, <1>9 DEF Room, y

-----------------------------------------------------------------------------
(***************************************************************************)
(* The journal.                                                            *)
(***************************************************************************)
\* What is logged before it changes comes back.
Restores(u, m, L, q) ==
  /\ F!rollback(F!log(u, m, L), q) = F!rollback(u, m)
  /\ DOMAIN F!log(u, m, L) = DOMAIN u \cup L

\* A location that is logged first can be restored.
LEMMA LogFacts ==
  ASSUME NEW u, NEW m, NEW L, DOMAIN u \subseteq DOMAIN m, L \subseteq DOMAIN m,
         NEW q, DOMAIN q = DOMAIN m, \A l \in DOMAIN m : l \notin L => q[l] = m[l]
  PROVE  Restores(u, m, L, q)
  <1> DEFINE v == F!log(u, m, L)
  <1>1. DOMAIN v = DOMAIN u \cup L /\ \A l \in DOMAIN u \cup L : v[l] = IF l \in DOMAIN u THEN u[l] ELSE m[l]
    BY DEF F!log
  <1> HIDE DEF v
  <1>2. F!rollback(v, q) = [l \in DOMAIN m |-> IF l \in DOMAIN v THEN v[l] ELSE q[l]]
    BY DEF F!rollback
  <1>3. F!rollback(u, m) = [l \in DOMAIN m |-> IF l \in DOMAIN u THEN u[l] ELSE m[l]]
    BY DEF F!rollback
  <1>4. \A l \in DOMAIN m : (IF l \in DOMAIN v THEN v[l] ELSE q[l]) = (IF l \in DOMAIN u THEN u[l] ELSE m[l])
    BY <1>1
  <1>5. F!rollback(v, q) = F!rollback(u, m)
    BY <1>2, <1>3, <1>4
  <1>6. QED  BY <1>1, <1>5 DEF v, Restores

\* The memory after a rollback.
LEMMA RollbackFacts ==
  ASSUME NEW u, NEW m
  PROVE  /\ DOMAIN F!rollback(u, m) = DOMAIN m
         /\ \A l \in DOMAIN m : F!rollback(u, m)[l] = IF l \in DOMAIN u THEN u[l] ELSE m[l]
  BY DEF F!rollback

-----------------------------------------------------------------------------
(***************************************************************************)
(* What the allocator knows in DRAM of the list s, of which it has scanned *)
(* the first j chunks.                                                     *)
(***************************************************************************)
ScanAt(s, j, scan, last) ==
  /\ j \in 0 .. Len(s)
  /\ scan = IF j < Len(s) THEN s[j + 1] ELSE 0
  /\ j = 0 => last \in Range(s) \cup {0}
  /\ j # 0 => last = s[j]

\* The scan finds the first chunk with room, if there is one.
LEMMA ScanFrom ==
  ASSUME NEW s, NEW f, NEW X, NEW j \in 0 .. Len(s), NEW O, NEW C,
         Lists(pm, SmallChunks, s, f, X), Maps(pm, C, O), Range(s) \subseteq C,
         chunk_to_scan = IF j < Len(s) THEN s[j + 1] ELSE 0
  PROVE  \/ /\ F!NoneHasRoom
            /\ F!LastScanned = IF j < Len(s) THEN LastOf(s) ELSE last_chunk_scanned
            /\ \A i \in j + 1 .. Len(s) : ~Room(O, s[i])
         \/ /\ ~F!NoneHasRoom
            /\ \E k \in j + 1 .. Len(s) :
                 /\ F!LastScanned = s[k] /\ Room(O, s[k])
                 /\ \A i \in j + 1 .. k - 1 : ~Room(O, s[i])
  <1> DEFINE n == SmallChunks
             L == F!ListFrom(pm, chunk_to_scan)
             room == {i \in DOMAIN L : pm[MP(L[i])].free_spots > 0}
             Sc == F!Scanned
  <1>1. n \in Nat /\ Null = 0
    BY Bounds
  <1>2. Shape(pm, n, s, f, X)
    BY <1>1, ListsShape
  <1>3. /\ Len(s) \in Nat /\ DOMAIN s = 1 .. Len(s) /\ (s = <<>> <=> Len(s) = 0)
        /\ \A i \in 1 .. Len(s) : s[i] \in 1 .. n /\ s[i] \in Range(s)
    BY <1>2 DEF Shape
  <1>4. j \in 0 .. Len(s) /\ chunk_to_scan = IF j < Len(s) THEN s[j + 1] ELSE 0
    OBVIOUS
  <1>5. /\ \A k \in 1 .. Len(s) : F!ListFrom(pm, s[k]) = SubSeq(s, k, Len(s))
        /\ F!ListFrom(pm, 0) = <<>>
    BY FromIs
  <1>6. \A i \in 1 .. Len(s) : /\ pm[MP(s[i])].free_spots > 0 <=> Room(O, s[i])
                               /\ pm[MP(s[i])].free_spots = 0 <=> ~Room(O, s[i])
    <2>1. ASSUME NEW i \in 1 .. Len(s)
          PROVE  /\ pm[MP(s[i])].free_spots > 0 <=> Room(O, s[i])
                 /\ pm[MP(s[i])].free_spots = 0 <=> ~Room(O, s[i])
      <3> DEFINE b == pm[MP(s[i])]
                 U == On(O, s[i])
      <3>1. Fits(b, U) /\ U \subseteq SP
        BY <1>3 DEF Maps, On
      <3> HIDE DEF b, U
      <3>2. (b.free_spots > 0 <=> U # SP) /\ (b.free_spots = 0 <=> U = SP)
        BY <3>1, RoomIs
      <3>3. QED  BY <3>2 DEF b, U, Room
    <2>2. QED  BY <2>1
  <1>7. Sc = IF room = {} THEN L ELSE SubSeq(L, 1, F!Min(room))
    BY DEF F!Scanned, MP
  <1>8. F!LastScanned = IF Sc = <<>> THEN last_chunk_scanned ELSE Sc[Len(Sc)]
    BY DEF F!LastScanned
  <1>9. F!NoneHasRoom <=> \A i \in DOMAIN Sc : pm[MP(Sc[i])].free_spots = 0
    BY DEF F!NoneHasRoom, MP
  <1> HIDE DEF Sc
  <1>10. CASE ~(j < Len(s))
    <2>1. L = <<>> /\ j = Len(s)
      <3>1. j = Len(s)
        <4>1. Len(s) \in Nat /\ j \in 0 .. Len(s)
          BY <1>3, <1>4
        <4>2. QED  BY <1>10, <4>1
      <3>2. chunk_to_scan = 0
        BY <1>4, <1>10
      <3>3. QED  BY <1>5, <3>1, <3>2
    <2>2. DOMAIN <<>> = {}
      <3>1. <<>> \in Seq(1 .. n) /\ Len(<<>>) = 0
        BY EmptySeq
      <3>2. DOMAIN <<>> = 1 .. 0
        BY <3>1, SeqFacts
      <3>3. QED  BY <3>2
    <2>3. Sc = <<>>
      BY <1>7, <2>1, <2>2
    <2>4. F!NoneHasRoom /\ F!LastScanned = last_chunk_scanned
      BY <1>8, <1>9, <2>2, <2>3
    <2>5. \A i \in j + 1 .. Len(s) : FALSE
      BY <1>3, <2>1
    <2>6. QED  BY <1>10, <2>4, <2>5
  <1>11. CASE j < Len(s)
    <2>1. j + 1 \in 1 .. Len(s) /\ chunk_to_scan = s[j + 1] /\ s # <<>> /\ j \in Nat
      BY <1>3, <1>4, <1>11
    <2>2. L = SubSeq(s, j + 1, Len(s))
      BY <1>5, <2>1
    <2>3. s \in Seq(1 .. n)
      BY DEF Lists
    <2>4. /\ L \in Seq(1 .. n) /\ Len(L) = Len(s) - j /\ DOMAIN L = 1 .. Len(s) - j
          /\ \A i \in 1 .. Len(s) - j : L[i] = s[j + i]
      <3>1. j + 1 \in 1 .. Len(s) + 1 /\ Len(s) \in j + 1 - 1 .. Len(s)
        BY <1>3, <2>1
      <3>2. j + 1 \in Int /\ Len(s) \in Int /\ \A i \in j + 1 .. Len(s) : s[i] \in 1 .. n
        BY <1>3, <2>1
      <3>3. /\ L \in Seq(1 .. n) /\ Len(L) = Len(s) - (j + 1) + 1
            /\ \A i \in 1 .. Len(s) - (j + 1) + 1 : L[i] = s[j + 1 + i - 1]
        <4>1. PICK a : a = j + 1
          OBVIOUS
        <4>2. /\ s \in Seq(1 .. n) /\ a \in 1 .. Len(s) + 1 /\ Len(s) \in a - 1 .. Len(s)
              /\ a \in Int /\ Len(s) \in Int /\ \A i \in a .. Len(s) : s[i] \in 1 .. n
              /\ L = SubSeq(s, a, Len(s))
          BY <2>2, <2>3, <3>1, <3>2, <4>1
        <4> HIDE DEF L
        <4>3. /\ L \in Seq(1 .. n) /\ Len(L) = Len(s) - a + 1
              /\ \A i \in 1 .. Len(s) - a + 1 : L[i] = s[a + i - 1]
          BY <4>2, SubSeqProperties
        <4>4. QED  BY <4>1, <4>3
      <3>4. Len(s) - (j + 1) + 1 = Len(s) - j /\ \A i \in 1 .. Len(s) - j : j + 1 + i - 1 = j + i
        BY <1>3, <2>1
      <3> HIDE DEF L
      <3>5. DOMAIN L = 1 .. Len(L)
        BY <3>3
      <3>6. QED  BY <3>3, <3>4, <3>5
    <2> HIDE DEF L
    <2>5. \A i \in 1 .. Len(s) - j : j + i \in 1 .. Len(s)
      BY <1>3, <2>1
    <2>6. room \subseteq Nat /\ \A i \in 1 .. Len(s) - j : i \in room <=> Room(O, s[j + i])
      BY <1>6, <2>4, <2>5
    <2>7. Len(s) - j \in 1 .. Len(s) - j /\ j + (Len(s) - j) = Len(s)
      BY <1>3, <1>11, <2>1
    <2>8. CASE room = {}
      <3>1. Sc = L
        BY <1>7, <2>8
      <3>2. L # <<>>
        BY <2>4, <2>7, EmptySeq
      <3>3. F!LastScanned = LastOf(s)
        BY <1>8, <2>1, <2>4, <2>7, <3>1, <3>2 DEF LastOf
      <3>4. \A i \in 1 .. Len(s) - j : ~Room(O, s[j + i])
        BY <2>6, <2>8
      <3>5. F!NoneHasRoom
        BY <1>6, <1>9, <2>4, <2>5, <3>1, <3>4
      <3>6. \A i \in j + 1 .. Len(s) : i - j \in 1 .. Len(s) - j /\ j + (i - j) = i
        BY <1>3, <2>1
      <3>7. \A i \in j + 1 .. Len(s) : ~Room(O, s[i])
        BY <3>4, <3>6
      <3>8. QED  BY <1>11, <3>3, <3>5, <3>7
    <2>9. CASE room # {}
      <3>1. PICK a \in room : \A z \in room : a <= z
        BY <2>6, <2>9, LeastNat
      <3>2. F!Min(room) = a
        BY <2>6, <3>1, MinIs
      <3>3. a \in 1 .. Len(s) - j /\ a \in 1 .. a /\ a \in Nat /\ a <= Len(L)
        BY <1>3, <2>1, <2>4, <3>1
      <3>4. Sc = SubSeq(L, 1, a)
        BY <1>7, <2>9, <3>2
      <3>5. Sc \in Seq(1 .. n) /\ Len(Sc) = a /\ DOMAIN Sc = 1 .. a /\ Sc[a] = L[a]
        <4>1. Len(L) \in Nat
          BY <2>4, <2>7, <1>3, <2>1
        <4>2. 1 \in 1 .. Len(L) + 1 /\ a \in 1 - 1 .. Len(L)
          BY <3>3, <4>1
        <4>3. 1 \in Int /\ a \in Int /\ \A i \in 1 .. a : L[i] \in 1 .. n
          <5>1. \A i \in 1 .. a : i \in 1 .. Len(s) - j
            BY <1>3, <2>1, <3>3
          <5>2. QED  BY <1>3, <2>4, <2>5, <3>3, <5>1
        <4>4. /\ Sc \in Seq(1 .. n) /\ Len(Sc) = a - 1 + 1
              /\ \A i \in 1 .. a - 1 + 1 : Sc[i] = L[1 + i - 1]
          BY <2>4, <3>4, <4>2, <4>3, SubSeqProperties
        <4>5. a - 1 + 1 = a /\ 1 + a - 1 = a
          BY <3>3
        <4>6. DOMAIN Sc = 1 .. Len(Sc)
          BY <4>4
        <4>7. QED  BY <3>3, <4>4, <4>5, <4>6
      <3>6. Sc # <<>>
        BY <3>3, <3>5, EmptySeq
      <3> DEFINE k == j + a
      <3>7. k \in j + 1 .. Len(s) /\ k \in 1 .. Len(s) /\ L[a] = s[k] /\ Room(O, s[k])
        <4>1. k \in j + 1 .. Len(s) /\ k \in 1 .. Len(s)
          BY <1>3, <2>1, <3>3
        <4>2. QED  BY <2>4, <2>6, <3>1, <3>3, <4>1
      <3>8. F!LastScanned = s[k]
        BY <1>8, <3>5, <3>6, <3>7
      <3>9. ~F!NoneHasRoom
        BY <1>6, <1>9, <3>3, <3>5, <3>7
      <3>10. \A i \in j + 1 .. k - 1 : ~Room(O, s[i])
        <4>1. \A i \in j + 1 .. k - 1 : i - j \in 1 .. Len(s) - j /\ j + (i - j) = i /\ ~(a <= i - j)
          BY <1>3, <2>1, <3>3
        <4>2. QED  BY <2>6, <3>1, <4>1
      <3> HIDE DEF k
      <3>11. QED  BY <3>7, <3>8, <3>9, <3>10
    <2>10. QED  BY <2>8, <2>9
  <1>12. QED  BY <1>10, <1>11

\* The same where the last chunk scanned is known to be the one before.
LEMMA ScanFinds ==
  ASSUME NEW s, NEW f, NEW j, NEW O, Lists(pm, SmallChunks, s, f, {}), Maps(pm, Range(s), O),
         ScanAt(s, j, chunk_to_scan, last_chunk_scanned)
  PROVE  \/ /\ F!NoneHasRoom /\ F!LastScanned = LastOf(s)
            /\ \A i \in j + 1 .. Len(s) : ~Room(O, s[i])
         \/ /\ ~F!NoneHasRoom
            /\ \E k \in j + 1 .. Len(s) :
                 /\ F!LastScanned = s[k] /\ Room(O, s[k])
                 /\ \A i \in j + 1 .. k - 1 : ~Room(O, s[i])
  <1>1. j \in 0 .. Len(s) /\ chunk_to_scan = IF j < Len(s) THEN s[j + 1] ELSE 0
    BY DEF ScanAt
  <1>2. \/ /\ F!NoneHasRoom
           /\ F!LastScanned = IF j < Len(s) THEN LastOf(s) ELSE last_chunk_scanned
           /\ \A i \in j + 1 .. Len(s) : ~Room(O, s[i])
        \/ /\ ~F!NoneHasRoom
           /\ \E k \in j + 1 .. Len(s) :
                /\ F!LastScanned = s[k] /\ Room(O, s[k])
                /\ \A i \in j + 1 .. k - 1 : ~Room(O, s[i])
    BY <1>1, ScanFrom
  <1>3. j = Len(s) => last_chunk_scanned = LastOf(s)
    <2>1. Len(s) \in Nat /\ (s = <<>> <=> Len(s) = 0)
      <3>1. Shape(pm, SmallChunks, s, f, {})
        BY Bounds, ListsShape
      <3>2. QED  BY <3>1 DEF Shape
    <2>2. CASE j = 0
      <3>1. Range(<<>>) = {}
        BY DEF Range
      <3>2. QED  BY <2>1, <2>2, <3>1 DEF ScanAt, LastOf
    <2>3. CASE j # 0
      BY <2>1, <2>3 DEF ScanAt, LastOf
    <2>4. QED  BY <2>2, <2>3
  <1>4. ~(j < Len(s)) => j = Len(s)
    <2>1. Len(s) \in Nat
      <3>1. Shape(pm, SmallChunks, s, f, {})
        BY Bounds, ListsShape
      <3>2. QED  BY <3>1 DEF Shape
    <2>2. QED  BY <1>1, <2>1
  <1>5. QED  BY <1>2, <1>3, <1>4

-----------------------------------------------------------------------------
(***************************************************************************)
(* The invariant of the fixed-size allocator.                              *)
(***************************************************************************)
\* What DRAM offers has room, and a chunk with room is offered or not scanned.
Offers(fc, s, j, O) ==
  /\ \A c \in fc : c \in Range(s) /\ Room(O, c)
  /\ \A i \in 1 .. Len(s) : Room(O, s[i]) => s[i] \in fc \/ i > j

\* What an abort undoes: only bitmaps were changed, and a chunk that has room
\* again is noted for the callback.
Undone(u, fix, fc, s, j, O) ==
  /\ DOMAIN u \subseteq {MP(c) : c \in Range(s)}
  /\ DOMAIN fix \subseteq Range(s) /\ \A c \in DOMAIN fix : ~fix[c]
  /\ \A c \in fc : c \in Range(s) /\ Room(O, c)
  /\ \A i \in 1 .. Len(s) : Room(O, s[i]) => s[i] \in fc \/ s[i] \in DOMAIN fix \/ i > j

\* A chunk that the transaction filled is noted.
Filled(fix, s, O, P) == \A c \in Range(s) : Room(P, c) /\ ~Room(O, c) => c \in DOMAIN fix

\* The memory m holds the objects O.
Stored(m, O) == \E s, f : Lists(m, SmallChunks, s, f, {}) /\ Maps(m, Range(s), O)

\* The memory holds the objects in use, and DRAM agrees with it.
Holds(s, f, j) ==
  /\ Lists(pm, SmallChunks, s, f, {}) /\ Maps(pm, Range(s), F!InUse)
  /\ ScanAt(s, j, chunk_to_scan, last_chunk_scanned)
  /\ phase # "failed" => Offers(free_chunks, s, j, F!InUse)
  /\ phase \in {"run", "failed"} => Undone(undo, to_fix, free_chunks, s, j, live)
  /\ phase = "run" => Filled(to_fix, s, F!InUse, live)

Phases ==
  /\ phase \in {"idle", "run", "commit", "failed"}
  /\ DOMAIN undo \subseteq DOMAIN pm
  /\ \A c \in 1 .. SmallChunks : MP(c) \in DOMAIN pm
  /\ freed \subseteq frees /\ frees \subseteq live \cup got
  /\ phase \in {"idle", "run"} => freed = {}
  /\ phase = "idle" => undo = F!Empty /\ to_fix = F!Empty /\ got = {} /\ frees = {}

\* At any time the memory holds the objects in use, and would hold the
\* committed ones if the journal was rolled back.
FInv ==
  /\ Phases
  /\ Stored(F!rollback(undo, pm), live)
  /\ \E s, f, j : Holds(s, f, j)

-----------------------------------------------------------------------------
\* The lists depend on the header, the start and the words only.
LEMMA SameLists ==
  ASSUME NEW m, NEW s, NEW f, NEW X, Lists(m, SmallChunks, s, f, X),
         NEW q, DOMAIN q = DOMAIN m, q[H] = m[H], q[ST] = m[ST],
         \A c \in 1 .. SmallChunks : q[W(c)] = m[W(c)]
  PROVE  Lists(q, SmallChunks, s, f, X)
  <1>1. SmallChunks \in Nat
    BY Bounds
  <1>2. QED  BY <1>1, ListsFrame

\* What a memory holds depends on its contents only.
LEMMA StoredFrame ==
  ASSUME NEW m, NEW O, Stored(m, O), \A c \in 1 .. SmallChunks : MP(c) \in DOMAIN m,
         NEW q, DOMAIN q = DOMAIN m, \A l \in DOMAIN m : q[l] = m[l]
  PROVE  Stored(q, O)
  <1>1. PICK s, f : Lists(m, SmallChunks, s, f, {}) /\ Maps(m, Range(s), O)
    BY DEF Stored
  <1>2. SmallChunks \in Nat
    BY Bounds
  <1>3. H \in DOMAIN m /\ ST \in DOMAIN m /\ \A c \in 1 .. SmallChunks : W(c) \in DOMAIN m
    BY <1>1, <1>2, ListsMemory
  <1>4. Lists(q, SmallChunks, s, f, {})
    BY <1>1, <1>3, SameLists
  <1>5. Shape(m, SmallChunks, s, f, {})
    BY <1>1, <1>2, ListsShape
  <1>6. Range(s) \subseteq 1 .. SmallChunks
    BY <1>5 DEF Shape
  <1>7. Maps(q, Range(s), O)
    BY <1>1, <1>6, MapsFrame
  <1>8. QED  BY <1>4, <1>7 DEF Stored

\* The list in a memory is the only one.
LEMMA OneList ==
  ASSUME NEW m, NEW s, NEW f, Lists(m, SmallChunks, s, f, {}),
         NEW r, NEW g, Lists(m, SmallChunks, r, g, {})
  PROVE  r = s
  <1>1. F!Listed(m) = s
    BY FromIs
  <1>2. F!Listed(m) = r
    BY FromIs
  <1>3. QED  BY <1>1, <1>2

\* The empty journal.
LEMMA EmptyJournal == DOMAIN F!Empty = {}
  BY DEF F!Empty

\* A transaction begins.
LEMMA FBegin == FInv /\ F!begin => FInv'
  <1> SUFFICES ASSUME FInv, F!begin PROVE FInv'
    OBVIOUS
  <1>1. /\ phase = "idle" /\ phase' = "run" /\ pm' = pm /\ undo' = undo
        /\ free_chunks' = free_chunks /\ chunk_to_scan' = chunk_to_scan
        /\ last_chunk_scanned' = last_chunk_scanned
        /\ to_fix' = to_fix /\ live' = live /\ got' = got /\ frees' = frees /\ freed' = freed
    BY DEF F!begin, F!dram
  <1>2. /\ undo = F!Empty /\ to_fix = F!Empty /\ got = {} /\ frees = {} /\ freed = {}
    BY <1>1 DEF FInv, Phases
  <1>3. Phases'
    BY <1>1, <1>2 DEF FInv, Phases
  <1>4. Stored(F!rollback(undo', pm'), live')
    BY <1>1 DEF FInv
  <1>5. PICK s, f, j : Holds(s, f, j)
    BY DEF FInv
  <1>6. F!InUse = live /\ F!InUse' = live
    BY <1>1, <1>2 DEF F!InUse
  <1>7. DOMAIN undo = {} /\ DOMAIN to_fix = {}
    BY <1>2, EmptyJournal
  <1>8. Offers(free_chunks, s, j, live)
    BY <1>1, <1>5, <1>6 DEF Holds
  <1>9. Undone(undo, to_fix, free_chunks, s, j, live)
    BY <1>7, <1>8 DEF Undone, Offers
  <1>10. Filled(to_fix, s, live, live)
    BY DEF Filled
  <1>11. Holds(s, f, j)'
    BY <1>1, <1>5, <1>6, <1>8, <1>9, <1>10 DEF Holds
  <1>12. QED  BY <1>3, <1>4, <1>11 DEF FInv

\* A client frees an object: only noted.
LEMMA FDelayed == FInv /\ F!delayed_free => FInv'
  <1> SUFFICES ASSUME FInv, F!delayed_free PROVE FInv'
    OBVIOUS
  <1>1. /\ phase = "run" /\ phase' = phase /\ pm' = pm /\ undo' = undo
        /\ free_chunks' = free_chunks /\ chunk_to_scan' = chunk_to_scan
        /\ last_chunk_scanned' = last_chunk_scanned
        /\ to_fix' = to_fix /\ live' = live /\ got' = got /\ freed' = freed
    BY DEF F!delayed_free, F!dram
  <1>2. PICK o \in (live \cup got) \ frees : frees' = frees \cup {o}
    BY DEF F!delayed_free
  <1>3. Phases'
    BY <1>1, <1>2 DEF FInv, Phases
  <1>4. Stored(F!rollback(undo', pm'), live')
    BY <1>1 DEF FInv
  <1>5. PICK s, f, j : Holds(s, f, j)
    BY DEF FInv
  <1>6. F!InUse' = F!InUse
    BY <1>1 DEF F!InUse
  <1>7. Holds(s, f, j)'
    BY <1>1, <1>5, <1>6 DEF Holds
  <1>8. QED  BY <1>3, <1>4, <1>7 DEF FInv

\* The commit is complete: the objects in use are the committed ones.
LEMMA FCommit == FInv /\ F!commit => FInv'
  <1> SUFFICES ASSUME FInv, F!commit PROVE FInv'
    OBVIOUS
  <1>1. /\ phase \in {"run", "commit"} /\ phase' = "idle" /\ pm' = pm /\ undo' = F!Empty
        /\ free_chunks' = free_chunks /\ chunk_to_scan' = chunk_to_scan
        /\ last_chunk_scanned' = last_chunk_scanned
        /\ to_fix' = F!Empty /\ got' = {} /\ frees' = {} /\ freed' = {}
        /\ live' = (live \cup got) \ freed
    BY DEF F!commit, F!Done, F!dram
  <1>2. Phases'
    BY <1>1, EmptyJournal DEF FInv, Phases
  <1>3. PICK s, f, j : Holds(s, f, j)
    BY DEF FInv
  <1>4. F!InUse' = live' /\ F!InUse = live'
    BY <1>1 DEF F!InUse
  <1>5. Holds(s, f, j)'
    BY <1>1, <1>3, <1>4 DEF Holds
  <1>6. Stored(pm, live')
    BY <1>3, <1>4 DEF Holds, Stored
  <1>7. Stored(F!rollback(undo', pm'), live')
    <2> DEFINE q == F!rollback(undo', pm')
    <2>1. DOMAIN q = DOMAIN pm /\ \A l \in DOMAIN pm : q[l] = pm[l]
      BY <1>1, EmptyJournal, RollbackFacts
    <2>2. \A c \in 1 .. SmallChunks : MP(c) \in DOMAIN pm
      BY DEF FInv, Phases
    <2> HIDE DEF q
    <2>3. Stored(q, live')
      BY <1>6, <2>1, <2>2, StoredFrame
    <2>4. QED  BY <2>3 DEF q
  <1>8. QED  BY <1>2, <1>5, <1>7 DEF FInv

\* A list that is scanned from its start.
LEMMA RestScan ==
  ASSUME NEW m, NEW s, NEW f, Lists(m, SmallChunks, s, f, {})
  PROVE  ScanAt(s, 0, m[ST], 0)
  <1>1. Shape(m, SmallChunks, s, f, {})
    BY Bounds, ListsShape
  <1>2. Len(s) \in Nat /\ (s = <<>> <=> Len(s) = 0)
    BY <1>1 DEF Shape
  <1>3. m[ST] = IF s = <<>> THEN 0 ELSE s[1]
    BY DEF Lists, Chain
  <1>4. 0 < Len(s) <=> s # <<>>
    BY <1>2
  <1>5. 0 + 1 = 1 /\ 0 \in 0 .. Len(s)
    BY <1>2
  <1>6. QED  BY <1>3, <1>4, <1>5 DEF ScanAt

\* Recovery rolls back the memory, and DRAM starts over.
LEMMA FRestart == FInv /\ F!restart => FInv'
  <1> SUFFICES ASSUME FInv, F!restart PROVE FInv'
    OBVIOUS
  <1> DEFINE q == F!rollback(undo, pm)
  <1>1. /\ phase' = "idle" /\ pm' = q /\ undo' = F!Empty
        /\ free_chunks' = {} /\ chunk_to_scan' = q[ST]
        /\ last_chunk_scanned' = 0
        /\ to_fix' = F!Empty /\ got' = {} /\ frees' = {} /\ freed' = {}
        /\ live' = live
    BY Bounds DEF F!restart, F!Done, F!Construct, ST
  <1>2. DOMAIN q = DOMAIN pm
    BY RollbackFacts
  <1>3. \A c \in 1 .. SmallChunks : MP(c) \in DOMAIN q
    BY <1>2 DEF FInv, Phases
  <1>4. Stored(q, live)
    BY DEF FInv
  <1> HIDE DEF q
  <1>5. Phases'
    BY <1>1, <1>3, EmptyJournal DEF Phases
  <1>6. Stored(F!rollback(undo', pm'), live')
    <2> DEFINE z == F!rollback(undo', pm')
    <2>1. DOMAIN z = DOMAIN q /\ \A l \in DOMAIN q : z[l] = q[l]
      BY <1>1, EmptyJournal, RollbackFacts
    <2> HIDE DEF z
    <2>2. Stored(z, live)
      BY <1>3, <1>4, <2>1, StoredFrame
    <2>3. QED  BY <1>1, <2>2 DEF z
  <1>7. PICK s, f : Lists(q, SmallChunks, s, f, {}) /\ Maps(q, Range(s), live)
    BY <1>4 DEF Stored
  <1>8. ScanAt(s, 0, q[ST], 0)
    BY <1>7, RestScan
  <1>9. F!InUse' = live
    BY <1>1 DEF F!InUse
  <1>10. Offers({}, s, 0, live)
    BY DEF Offers
  <1>11. Holds(s, f, 0)'
    BY <1>1, <1>7, <1>8, <1>9, <1>10 DEF Holds
  <1>12. QED  BY <1>5, <1>6, <1>11 DEF FInv

\* The words and the header are as they were if only bitmaps were logged.
LEMMA OnlyMaps ==
  ASSUME NEW u, NEW m, NEW C, DOMAIN u \subseteq {MP(c) : c \in C},
         NEW s, NEW f, NEW X, Lists(m, SmallChunks, s, f, X)
  PROVE  Lists(F!rollback(u, m), SmallChunks, s, f, X)
  <1> DEFINE q == F!rollback(u, m)
  <1>1. DOMAIN q = DOMAIN m /\ \A l \in DOMAIN m : l \notin DOMAIN u => q[l] = m[l]
    BY RollbackFacts
  <1> HIDE DEF q
  <1>2. SmallChunks \in Nat
    BY Bounds
  <1>3. H \in DOMAIN m /\ ST \in DOMAIN m /\ \A c \in 1 .. SmallChunks : W(c) \in DOMAIN m
    BY <1>2, ListsMemory
  <1>4. H \notin DOMAIN u /\ ST \notin DOMAIN u /\ \A c : W(c) \notin DOMAIN u
    BY MapLocations
  <1>5. q[H] = m[H] /\ q[ST] = m[ST] /\ \A c \in 1 .. SmallChunks : q[W(c)] = m[W(c)]
    BY <1>1, <1>3, <1>4
  <1>6. Lists(q, SmallChunks, s, f, X)
    BY <1>1, <1>5, SameLists
  <1>7. QED  BY <1>6 DEF q

\* restore_dram_chunk() leaves a last chunk that is in the list.
LEMMA RestoredScan ==
  ASSUME NEW m, NEW s, NEW f, Lists(m, SmallChunks, s, f, {}),
         NEW j, NEW scan, NEW last, ScanAt(s, j, scan, last), NEW c \in Range(s)
  PROVE  ScanAt(s, j, scan, F!LastAfterRestore(m, last, c))
  <1> DEFINE z == F!LastAfterRestore(m, last, c)
             n == SmallChunks
  <1>1. n \in Nat /\ Null = 0
    BY Bounds
  <1>2. Shape(m, n, s, f, {})
    BY <1>1, ListsShape
  <1>3. /\ Len(s) \in Nat /\ (s = <<>> <=> Len(s) = 0)
        /\ \A i \in 1 .. Len(s) : s[i] \in 1 .. n /\ s[i] \in Range(s)
        /\ \A x \in Range(s) : \E i \in 1 .. Len(s) : s[i] = x
    BY <1>2 DEF Shape
  <1>4. F!Listed(m) = s
    BY FromIs
  <1>5. PICK k \in 1 .. Len(s) : s[k] = c
    BY <1>3
  <1>6. Len(s) \in 1 .. Len(s) /\ (k # 1 => k - 1 \in 1 .. Len(s))
    BY <1>3, <1>5
  <1>7. F!Before(m, c) \in Range(s) \cup {0}
    <2>1. F!Before(m, s[k]) = IF k = 1 THEN 0 ELSE s[k - 1]
      BY BeforeIs
    <2>2. QED  BY <1>3, <1>5, <1>6, <2>1
  <1>8. z = IF m[ST] = 0 \/ last # 0 THEN last
            ELSE IF m[ST] = c THEN s[Len(s)] ELSE F!Before(m, c)
    BY <1>1, <1>4 DEF F!LastAfterRestore, ST
  <1>9. CASE z = last
    BY <1>9
  <1>10. CASE z # last
    <2>1. last = 0 /\ z \in Range(s) \cup {0}
      BY <1>3, <1>6, <1>7, <1>8, <1>10
    <2>2. j = 0
      <3>1. SUFFICES ASSUME j # 0 PROVE FALSE
        OBVIOUS
      <3>2. last = s[j] /\ j \in 1 .. Len(s)
        <4>1. j \in 0 .. Len(s) /\ last = s[j]
          BY <3>1 DEF ScanAt
        <4>2. QED  BY <1>3, <3>1, <4>1
      <3>3. QED  BY <1>3, <2>1, <3>2
    <2> HIDE DEF z
    <2>3. ScanAt(s, j, scan, z)
      BY <2>1, <2>2 DEF ScanAt
    <2>4. QED  BY <2>3 DEF z
  <1>11. QED  BY <1>9, <1>10

\* A rollback and the abort callbacks: only bitmaps were logged, unless a
\* commit failed after one of its frees, so that the list is what it was.
LEMMA FAbort == ~torn' /\ FInv /\ F!abort => FInv'
  <1> SUFFICES ASSUME ~torn', FInv, F!abort PROVE FInv'
    OBVIOUS
  <1> DEFINE q == F!rollback(undo, pm)
             T == {c \in F!Restored : q[MP(c)].free_spots > 0}
  <1>1. /\ phase \in {"run", "failed"} /\ phase' = "idle" /\ pm' = q /\ undo' = F!Empty
        /\ to_fix' = F!Empty /\ got' = {} /\ frees' = {} /\ freed' = {}
        /\ live' = live /\ F!FixDram(q)
    BY DEF F!abort, F!Done
  <1>2. DOMAIN q = DOMAIN pm
    BY RollbackFacts
  <1>3. \A c \in 1 .. SmallChunks : MP(c) \in DOMAIN q
    BY <1>2 DEF FInv, Phases
  <1>4. Stored(q, live)
    BY DEF FInv
  <1>5. PICK s, f, j : Holds(s, f, j)
    BY DEF FInv
  <1>6. Undone(undo, to_fix, free_chunks, s, j, live) /\ Lists(pm, SmallChunks, s, f, {})
        /\ ScanAt(s, j, chunk_to_scan, last_chunk_scanned)
    BY <1>1, <1>5 DEF Holds
  <1>7. Lists(q, SmallChunks, s, f, {})
    BY <1>6, OnlyMaps DEF Undone
  <1>8. /\ F!Restored = DOMAIN to_fix
        /\ free_chunks' = free_chunks \cup T
        /\ chunk_to_scan' = chunk_to_scan
        /\ \/ last_chunk_scanned' = last_chunk_scanned
           \/ \E c \in F!Restored : last_chunk_scanned' = F!LastAfterRestore(q, last_chunk_scanned, c)
    <2>1. F!Restored = DOMAIN to_fix
      BY <1>6 DEF Undone, F!Restored
    <2>2. free_chunks' = (free_chunks \cup T) \ {c \in DOMAIN to_fix \ F!Restored : q[MP(c)].free_spots = 0}
      BY <1>1 DEF F!FixDram, MP
    <2>3. chunk_to_scan' = chunk_to_scan
      BY <1>1 DEF F!FixDram
    <2>4. \/ last_chunk_scanned' = last_chunk_scanned
          \/ \E c \in F!Restored : last_chunk_scanned' = F!LastAfterRestore(q, last_chunk_scanned, c)
      BY <1>1 DEF F!FixDram
    <2> HIDE DEF q, T
    <2>5. QED  BY <2>1, <2>2, <2>3, <2>4
  <1> HIDE DEF q
  <1>9. Phases'
    BY <1>1, <1>3, EmptyJournal DEF Phases
  <1>10. Stored(F!rollback(undo', pm'), live')
    <2> DEFINE z == F!rollback(undo', pm')
    <2>1. DOMAIN z = DOMAIN q /\ \A l \in DOMAIN q : z[l] = q[l]
      BY <1>1, EmptyJournal, RollbackFacts
    <2> HIDE DEF z
    <2>2. Stored(z, live)
      BY <1>3, <1>4, <2>1, StoredFrame
    <2>3. QED  BY <1>1, <2>2 DEF z
  <1>11. Maps(q, Range(s), live)
    <2>1. PICK r, g : Lists(q, SmallChunks, r, g, {}) /\ Maps(q, Range(r), live)
      BY <1>4 DEF Stored
    <2>2. r = s
      BY <1>7, <2>1, OneList
    <2>3. QED  BY <2>1, <2>2
  <1>12. ScanAt(s, j, chunk_to_scan', last_chunk_scanned')
    <2>1. CASE last_chunk_scanned' = last_chunk_scanned
      BY <1>6, <1>8, <2>1
    <2>2. CASE \E c \in F!Restored : last_chunk_scanned' = F!LastAfterRestore(q, last_chunk_scanned, c)
      <3>1. PICK c \in F!Restored : last_chunk_scanned' = F!LastAfterRestore(q, last_chunk_scanned, c)
        BY <2>2
      <3>2. c \in Range(s)
        BY <1>6, <1>8 DEF Undone
      <3>3. ScanAt(s, j, chunk_to_scan, F!LastAfterRestore(q, last_chunk_scanned, c))
        BY <1>6, <1>7, <3>2, RestoredScan
      <3>4. QED  BY <1>8, <3>1, <3>3
    <2>3. QED  BY <1>8, <2>1, <2>2
  <1>13. \A c \in Range(s) : q[MP(c)].free_spots > 0 <=> Room(live, c)
    <2>1. ASSUME NEW c \in Range(s) PROVE q[MP(c)].free_spots > 0 <=> Room(live, c)
      <3> DEFINE b == q[MP(c)]
                 U == On(live, c)
      <3>1. Fits(b, U) /\ U \subseteq SP
        BY <1>11 DEF Maps, On
      <3> HIDE DEF b, U
      <3>2. b.free_spots > 0 <=> U # SP
        BY <3>1, RoomIs
      <3>3. QED  BY <3>2 DEF b, U, Room
    <2>2. QED  BY <2>1
  <1>14. Offers(free_chunks', s, j, live)
    <2>1. T = {c \in DOMAIN to_fix : Room(live, c)}
      BY <1>6, <1>8, <1>13 DEF Undone
    <2>2. free_chunks' = free_chunks \cup {c \in DOMAIN to_fix : Room(live, c)}
      BY <1>8, <2>1
    <2>3. /\ DOMAIN to_fix \subseteq Range(s)
          /\ \A c \in free_chunks : c \in Range(s) /\ Room(live, c)
          /\ \A i \in 1 .. Len(s) : Room(live, s[i]) => s[i] \in free_chunks \/ s[i] \in DOMAIN to_fix \/ i > j
      BY <1>6 DEF Undone
    <2>4. \A c \in free_chunks' : c \in Range(s) /\ Room(live, c)
      BY <2>2, <2>3
    <2>5. \A i \in 1 .. Len(s) : Room(live, s[i]) => s[i] \in free_chunks' \/ i > j
      BY <2>2, <2>3
    <2>6. QED  BY <2>4, <2>5 DEF Offers
  <1>15. F!InUse' = live
    BY <1>1 DEF F!InUse
  <1>16. Holds(s, f, j)'
    BY <1>1, <1>7, <1>11, <1>12, <1>14, <1>15 DEF Holds
  <1>17. QED  BY <1>9, <1>10, <1>16 DEF FInv

\* The pool just created.
LEMMA FInit == F!Init => FInv
  <1> SUFFICES ASSUME F!Init PROVE FInv
    OBVIOUS
  <1> DEFINE n == SmallChunks
  <1>1. n \in Nat /\ n >= 1 /\ Null = 0
    BY Bounds
  <1>2. /\ undo = F!Empty
        /\ free_chunks = {} /\ chunk_to_scan = 0 /\ last_chunk_scanned = 0
        /\ to_fix = F!Empty
        /\ live = {} /\ got = {} /\ frees = {} /\ freed = {}
        /\ phase = "idle"
    BY <1>1 DEF F!Init
  <1>3. pm = [l \in {H, ST} \cup {W(c) : c \in 1 .. n} \cup {MP(c) : c \in 1 .. n} |->
               CASE l = H -> F!NewHdr
                 [] l = ST -> 0
                 [] l[1] = "word" -> F!Data(0)
                 [] OTHER -> F!FixedChunk]
    BY <1>1 DEF F!Init, H, ST, W, MP, F!Chunks, F!Pool
  <1>4. /\ DOMAIN pm = {H, ST} \cup {W(c) : c \in 1 .. n} \cup {MP(c) : c \in 1 .. n}
        /\ pm[H] = F!NewHdr /\ pm[ST] = 0
        /\ \A c \in 1 .. n : pm[W(c)] = F!Data(0)
    <2> DEFINE G(l) == CASE l = H -> F!NewHdr
                         [] l = ST -> 0
                         [] l[1] = "word" -> F!Data(0)
                         [] OTHER -> F!FixedChunk
               D == {H, ST} \cup {W(c) : c \in 1 .. n} \cup {MP(c) : c \in 1 .. n}
    <2>1. H[1] = "hdr" /\ ST[1] = "start" /\ H # ST /\ \A c : W(c)[1] = "word" /\ W(c) # H /\ W(c) # ST
      BY DEF H, ST, W, F!Hdr, F!Start, F!Word
    <2>2. G(H) = F!NewHdr
      BY <2>1
    <2>3. G(ST) = 0
      BY <2>1
    <2>4. \A c : G(W(c)) = F!Data(0)
      BY <2>1
    <2>5. pm = [l \in D |-> G(l)]
      BY <1>3, Zenon
    <2> HIDE DEF G
    <2>6. QED  BY <2>2, <2>3, <2>4, <2>5
  <1>5. F!NewHdr = [tail |-> 1, free |-> 0, num |-> 0] /\ F!Data(0) = [to |-> 0, free_bit |-> FALSE]
    BY <1>1 DEF F!NewHdr, F!Data
  <1> DEFINE e == <<>>
  <1>6. e \in Seq(1 .. n) /\ Len(e) = 0 /\ DOMAIN e = {} /\ e = <<>>
    <2>1. e \in Seq(1 .. n) /\ Len(e) = 0
      BY EmptySeq
    <2>2. DOMAIN e = 1 .. Len(e)
      BY <2>1, SeqFacts
    <2>3. QED  BY <2>1, <2>2
  <1>7. Range(e) = {} /\ IsInjective(e)
    BY <1>6 DEF Range, IsInjective
  <1>8. Chain(pm, e, pm[ST]) /\ Chain(pm, e, pm[H].free)
    <2>1. pm[H].free = 0
      BY <1>4, <1>5
    <2>2. \A i \in 1 .. Len(e) : FALSE
      BY <1>6
    <2>3. QED  BY <1>4, <2>1, <2>2 DEF Chain
  <1> HIDE DEF e
  <1>9. Lists(pm, n, e, e, {})
    <2>1. pm[H] \in [tail : 1 .. n + 1, free : Nat, num : Int] /\ 1 .. pm[H].tail - 1 = {}
      BY <1>1, <1>4, <1>5
    <2>2. \A c \in 1 .. n : pm[W(c)] \in Words
      <3>1. F!Data(0) \in Words
        BY DEF F!Data, Words
      <3>2. QED  BY <1>4, <3>1
    <2>3. H \in DOMAIN pm /\ ST \in DOMAIN pm /\ \A c \in 1 .. n : W(c) \in DOMAIN pm
      BY <1>4
    <2>4. QED  BY <1>1, <1>6, <1>7, <1>8, <2>1, <2>2, <2>3, ListsIntro
  <1>10. Maps(pm, Range(e), {})
    BY <1>7 DEF Maps
  <1>11. F!InUse = {}
    BY <1>2 DEF F!InUse
  <1>12. ScanAt(e, 0, 0, 0)
    BY <1>6 DEF ScanAt
  <1>13. Offers({}, e, 0, {})
    BY DEF Offers
  <1>14. Holds(e, e, 0)
    BY <1>2, <1>9, <1>10, <1>11, <1>12, <1>13 DEF Holds
  <1>15. Phases
    BY <1>2, <1>4, EmptyJournal DEF Phases
  <1>16. Stored(F!rollback(undo, pm), live)
    <2> DEFINE z == F!rollback(undo, pm)
    <2>1. DOMAIN z = DOMAIN pm /\ \A l \in DOMAIN pm : z[l] = pm[l]
      BY <1>2, EmptyJournal, RollbackFacts
    <2>2. Stored(pm, {})
      BY <1>9, <1>10 DEF Stored
    <2>3. \A c \in 1 .. SmallChunks : MP(c) \in DOMAIN pm
      BY <1>4
    <2> HIDE DEF z
    <2>4. Stored(z, {})
      BY <2>1, <2>2, <2>3, StoredFrame
    <2>5. QED  BY <1>2, <2>4 DEF z
  <1>17. QED  BY <1>14, <1>15, <1>16 DEF FInv

\* During a transaction what Undone says follows from what DRAM offers.
LEMMA RunUndone ==
  ASSUME NEW u, NEW fix, NEW fc, NEW s, NEW j, NEW O, NEW P, P \subseteq O,
         Offers(fc, s, j, O), Filled(fix, s, O, P),
         \A i \in 1 .. Len(s) : s[i] \in Range(s),
         DOMAIN u \subseteq {MP(c) : c \in Range(s)},
         DOMAIN fix \subseteq Range(s), \A c \in DOMAIN fix : ~fix[c]
  PROVE  Undone(u, fix, fc, s, j, P)
  <1>1. \A c : Room(O, c) => Room(P, c)
    BY DEF Room, On
  <1>2. \A c \in fc : c \in Range(s) /\ Room(P, c)
    BY <1>1 DEF Offers
  <1>3. \A i \in 1 .. Len(s) : Room(P, s[i]) => s[i] \in fc \/ s[i] \in DOMAIN fix \/ i > j
    BY DEF Offers, Filled
  <1>4. QED  BY <1>2, <1>3 DEF Undone

\* An object was taken from chunk c of the list.
Took(s, f, c) ==
  /\ Phases'
  /\ Lists(pm', SmallChunks, s, f, {}) /\ Maps(pm', Range(s), F!InUse')
  /\ F!rollback(undo', pm') = F!rollback(undo, pm)
  /\ DOMAIN undo' = DOMAIN undo \cup {MP(c)}
  /\ live' \subseteq F!InUse'
  /\ Room(F!InUse', c) <=> pm[MP(c)].free_spots # 1
  /\ \A d : d # c => On(F!InUse', d) = On(F!InUse, d)

\* FixedChunk::alloc() sets a bit that was clear, of a chunk with room.
LEMMA TakeFacts ==
  ASSUME FInv, phase = "run", NEW s, NEW f, NEW j, Holds(s, f, j),
         NEW c \in Range(s), Room(F!InUse, c), F!Take(pm, c),
         live' = live, frees' = frees, freed' = freed, phase' = phase
  PROVE  Took(s, f, c)
  <1> DEFINE O == F!InUse
             C == Range(s)
             r == F!FixedChunk_alloc(pm[MP(c)])
             o == <<c, r.spot>>
             q == [pm EXCEPT ![MP(c)] = r.map]
  <1>1. Lists(pm, SmallChunks, s, f, {}) /\ Maps(pm, C, O)
    BY DEF Holds
  <1>2. SmallChunks \in Nat
    BY Bounds
  <1>3. Shape(pm, SmallChunks, s, f, {})
    BY <1>1, <1>2, ListsShape
  <1>4. C \subseteq 1 .. SmallChunks /\ \A d \in C : MP(d) \in DOMAIN pm
    BY <1>3 DEF Shape, FInv, Phases
  <1>5. pm' = q /\ undo' = F!log(undo, pm, {MP(c)}) /\ got' = got \cup {o}
    BY DEF F!Take, MP
  <1>6. /\ Maps(q, C, O \cup {o})
        /\ o \notin O /\ r.spot \in SP
        /\ Room(O \cup {o}, c) <=> pm[MP(c)].free_spots # 1
        /\ \A d : d # c => On(O \cup {o}, d) = On(O, d)
    <2>1. Maps(pm, C, O) /\ Room(O, c) /\ c \in C /\ \A d \in C : MP(d) \in DOMAIN pm
      BY <1>1, <1>4
    <2> HIDE DEF O, C
    <2>2. QED  BY <2>1, MapsTake
  <1> HIDE DEF r
  <1>7. freed = {} /\ O = live \cup got /\ F!InUse' = O \cup {o}
    BY <1>5 DEF FInv, Phases, F!InUse
  <1>8. DOMAIN undo \subseteq DOMAIN pm /\ MP(c) \in DOMAIN pm
    BY <1>4 DEF FInv, Phases
  <1>9. DOMAIN q = DOMAIN pm /\ \A l \in DOMAIN pm : l # MP(c) => q[l] = pm[l]
    OBVIOUS
  <1> HIDE DEF q
  <1>10. /\ F!rollback(F!log(undo, pm, {MP(c)}), q) = F!rollback(undo, pm)
         /\ DOMAIN F!log(undo, pm, {MP(c)}) = DOMAIN undo \cup {MP(c)}
    <2> DEFINE L == {MP(c)}
    <2>1. /\ L \subseteq DOMAIN pm /\ DOMAIN q = DOMAIN pm /\ DOMAIN undo \subseteq DOMAIN pm
          /\ \A l \in DOMAIN pm : l \notin L => q[l] = pm[l]
      BY <1>8, <1>9
    <2> HIDE DEF L
    <2>2. Restores(undo, pm, L, q)
      BY <2>1, LogFacts
    <2>3. QED  BY <2>2 DEF L, Restores
  <1>11. Lists(q, SmallChunks, s, f, {})
    <2>1. H \in DOMAIN pm /\ ST \in DOMAIN pm /\ \A d \in 1 .. SmallChunks : W(d) \in DOMAIN pm
      BY <1>1, <1>2, ListsMemory
    <2>2. q[H] = pm[H] /\ q[ST] = pm[ST] /\ \A d \in 1 .. SmallChunks : q[W(d)] = pm[W(d)]
      BY <1>9, <2>1, MapLocations
    <2>3. QED  BY <1>1, <1>9, <2>2, SameLists
  <1>12. Phases'
    <2>1. DOMAIN undo' = DOMAIN undo \cup {MP(c)} /\ DOMAIN pm' = DOMAIN pm
      BY <1>5, <1>9, <1>10
    <2>2. QED  BY <1>5, <1>7, <1>8, <2>1 DEF FInv, Phases
  <1>13. live' \subseteq F!InUse'
    BY <1>7
  <1> HIDE DEF O, o
  <1>14. QED  BY <1>5, <1>6, <1>7, <1>10, <1>11, <1>12, <1>13 DEF Took, O

\* AllocatorAbortCallback::add.
LEMMA FixFacts ==
  ASSUME NEW fix, NEW c, NEW b
  PROVE  LET x == F!restore_dram_state(fix, {c}, b)
         IN /\ DOMAIN x = DOMAIN fix \cup {c}
            /\ \A d \in DOMAIN fix : x[d] = fix[d]
            /\ c \notin DOMAIN fix => x[c] = b
  BY DEF F!restore_dram_state

\* The step is complete when DRAM is right too.
LEMMA TookInv ==
  ASSUME FInv, phase = "run", phase' = phase, live' = live, NEW s, NEW f, NEW j, Holds(s, f, j),
         NEW c \in Range(s), Took(s, f, c), NEW k,
         ScanAt(s, k, chunk_to_scan', last_chunk_scanned'),
         Offers(free_chunks', s, k, F!InUse'),
         to_fix' = IF pm[MP(c)].free_spots = 1 THEN F!restore_dram_state(to_fix, {c}, FALSE) ELSE to_fix
  PROVE  FInv'
  <1> DEFINE O == F!InUse
             P == F!InUse'
             full == pm[MP(c)].free_spots = 1
  <1>1. /\ Phases'
        /\ Lists(pm', SmallChunks, s, f, {}) /\ Maps(pm', Range(s), P)
        /\ F!rollback(undo', pm') = F!rollback(undo, pm)
        /\ DOMAIN undo' = DOMAIN undo \cup {MP(c)}
        /\ live' \subseteq P
        /\ (Room(P, c) <=> ~full)
        /\ \A d : d # c => On(P, d) = On(O, d)
    BY DEF Took
  <1>2. /\ DOMAIN undo \subseteq {MP(d) : d \in Range(s)}
        /\ DOMAIN to_fix \subseteq Range(s) /\ \A d \in DOMAIN to_fix : ~to_fix[d]
    BY DEF Holds, Undone
  <1>3. Filled(to_fix, s, O, live)
    BY DEF Holds
  <1>4. /\ DOMAIN to_fix \subseteq DOMAIN to_fix' /\ DOMAIN to_fix' \subseteq Range(s)
        /\ \A d \in DOMAIN to_fix' : ~to_fix'[d]
        /\ full => c \in DOMAIN to_fix'
    <2>1. CASE full
      <3> DEFINE x == F!restore_dram_state(to_fix, {c}, FALSE)
      <3>1. to_fix' = x
        BY <2>1
      <3>2. /\ DOMAIN x = DOMAIN to_fix \cup {c}
            /\ \A d \in DOMAIN to_fix : x[d] = to_fix[d]
            /\ c \notin DOMAIN to_fix => x[c] = FALSE
        BY FixFacts
      <3> HIDE DEF x
      <3>3. QED  BY <1>2, <3>1, <3>2
    <2>2. CASE ~full
      BY <1>2, <2>2
    <2>3. QED  BY <2>1, <2>2
  <1>5. Filled(to_fix', s, P, live')
    <2>1. \A d : d # c => (Room(P, d) <=> Room(O, d))
      BY <1>1 DEF Room
    <2> HIDE DEF O, P, full
    <2>2. QED  BY <1>1, <1>3, <1>4, <2>1 DEF Filled
  <1>6. \A i \in 1 .. Len(s) : s[i] \in Range(s)
    <2>1. Shape(pm', SmallChunks, s, f, {})
      BY <1>1, Bounds, ListsShape
    <2>2. QED  BY <2>1 DEF Shape
  <1>7. DOMAIN undo' \subseteq {MP(d) : d \in Range(s)}
    BY <1>1, <1>2
  <1>8. Undone(undo', to_fix', free_chunks', s, k, live')
    <2>1. Offers(free_chunks', s, k, P)
      OBVIOUS
    <2> HIDE DEF P
    <2>2. QED  BY <1>1, <1>4, <1>5, <1>6, <1>7, <2>1, RunUndone
  <1>9. Holds(s, f, k)'
    BY <1>1, <1>5, <1>8 DEF Holds
  <1>10. Stored(F!rollback(undo', pm'), live')
    BY <1>1 DEF FInv
  <1>11. QED  BY <1>1, <1>9, <1>10 DEF FInv

\* alloc() from a chunk known to have room.
LEMMA FAllocListed ==
  ASSUME FInv, phase = "run", F!alloc_listed, live' = live, frees' = frees, freed' = freed, phase' = phase
  PROVE  FInv'
  <1>1. PICK s, f, j : Holds(s, f, j)
    BY DEF FInv
  <1>2. PICK c \in free_chunks :
          /\ F!Take(pm, c)
          /\ to_fix' = IF pm[MP(c)].free_spots = 1 THEN F!restore_dram_state(to_fix, {c}, FALSE) ELSE to_fix
          /\ free_chunks' = IF pm[MP(c)].free_spots = 1 THEN free_chunks \ {c} ELSE free_chunks
          /\ chunk_to_scan' = chunk_to_scan /\ last_chunk_scanned' = last_chunk_scanned
    BY DEF F!alloc_listed, MP
  <1> DEFINE O == F!InUse
             P == F!InUse'
             full == pm[MP(c)].free_spots = 1
  <1>3. /\ \A d \in free_chunks : d \in Range(s) /\ Room(O, d)
        /\ \A i \in 1 .. Len(s) : Room(O, s[i]) => s[i] \in free_chunks \/ i > j
        /\ ScanAt(s, j, chunk_to_scan, last_chunk_scanned)
    BY <1>1 DEF Holds, Offers
  <1>4. c \in Range(s) /\ Room(O, c)
    BY <1>3
  <1>5. Took(s, f, c)
    BY <1>1, <1>2, <1>4, TakeFacts
  <1>6. /\ Room(P, c) <=> ~full
        /\ \A d : d # c => (Room(P, d) <=> Room(O, d))
    BY <1>5 DEF Took, Room
  <1>7. free_chunks' = IF full THEN free_chunks \ {c} ELSE free_chunks
    BY <1>2
  <1> HIDE DEF O, P, full
  <1>8. \A d \in free_chunks' : d \in Range(s) /\ Room(P, d)
    BY <1>3, <1>6, <1>7
  <1>9. \A i \in 1 .. Len(s) : Room(P, s[i]) => s[i] \in free_chunks' \/ i > j
    BY <1>3, <1>6, <1>7
  <1>10. Offers(free_chunks', s, j, P)
    BY <1>8, <1>9 DEF Offers
  <1>11. ScanAt(s, j, chunk_to_scan', last_chunk_scanned')
    BY <1>2, <1>3
  <1>12. QED  BY <1>1, <1>2, <1>4, <1>5, <1>10, <1>11, TookInv DEF P

\* alloc() from a chunk that the scan finds.
LEMMA FAllocScanned ==
  ASSUME FInv, phase = "run", F!alloc_scanned, live' = live, frees' = frees, freed' = freed, phase' = phase
  PROVE  FInv'
  <1>1. PICK s, f, j : Holds(s, f, j)
    BY DEF FInv
  <1> DEFINE O == F!InUse
             P == F!InUse'
             c == F!LastScanned
             n == SmallChunks
  <1>2. free_chunks = {} /\ ~F!NoneHasRoom
    BY DEF F!alloc_scanned
  <1>3. /\ F!Take(pm, c)
        /\ to_fix' = IF pm[MP(c)].free_spots - 1 = 0 THEN F!restore_dram_state(to_fix, {c}, FALSE) ELSE to_fix
        /\ free_chunks' = IF pm[MP(c)].free_spots - 1 > 0 THEN {c} ELSE {}
        /\ last_chunk_scanned' = c /\ chunk_to_scan' = pm[W(c)].to
    BY DEF F!alloc_scanned, MP, W, F!Next_chunk
  <1>4. Lists(pm, n, s, f, {}) /\ Maps(pm, Range(s), O) /\ ScanAt(s, j, chunk_to_scan, last_chunk_scanned)
        /\ Offers(free_chunks, s, j, O)
    BY <1>1 DEF Holds
  <1>5. PICK k \in j + 1 .. Len(s) : /\ c = s[k] /\ Room(O, s[k])
                                    /\ \A i \in j + 1 .. k - 1 : ~Room(O, s[i])
    <2> HIDE DEF O, c
    <2>1. \/ F!NoneHasRoom
          \/ \E k \in j + 1 .. Len(s) : /\ F!LastScanned = s[k] /\ Room(O, s[k])
                                        /\ \A i \in j + 1 .. k - 1 : ~Room(O, s[i])
      BY <1>4, ScanFinds
    <2>2. QED  BY <1>2, <2>1 DEF c
  <1>6. Shape(pm, n, s, f, {})
    BY <1>4, Bounds, ListsShape
  <1>7. /\ Len(s) \in Nat
        /\ \A i \in 1 .. Len(s) : s[i] \in 1 .. n /\ s[i] \in Range(s)
        /\ \A i, h \in 1 .. Len(s) : s[i] = s[h] => i = h
    BY <1>6 DEF Shape
  <1>8. j \in 0 .. Len(s)
    BY <1>4 DEF ScanAt
  <1>9. k \in 1 .. Len(s) /\ c \in Range(s) /\ Room(O, c) /\ j \in Nat /\ k \in Nat
    <2>1. Len(s) \in Nat /\ j \in 0 .. Len(s) /\ k \in j + 1 .. Len(s)
      BY <1>7, <1>8
    <2>2. k \in 1 .. Len(s) /\ j \in Nat /\ k \in Nat
      BY <2>1
    <2>3. QED  BY <1>5, <1>7, <2>2
  <1> DEFINE b == pm[MP(c)]
  <1>10. b.free_spots \in Int /\ b.free_spots > 0
    <2> DEFINE U == On(O, c)
    <2>1. Fits(b, U) /\ U \subseteq SP /\ U # SP
      BY <1>4, <1>9 DEF Maps, On, Room
    <2> HIDE DEF b, U
    <2>2. QED  BY <2>1, RoomIs
  <1>11. (b.free_spots - 1 = 0 <=> b.free_spots = 1) /\ (b.free_spots - 1 > 0 <=> b.free_spots # 1)
    <2> HIDE DEF b
    <2>1. QED  BY <1>10
  <1>12. Took(s, f, c)
    <2> HIDE DEF c
    <2>1. QED  BY <1>1, <1>3, <1>9, TakeFacts
  <1>13. /\ Room(P, c) <=> b.free_spots # 1
         /\ \A d : d # c => (Room(P, d) <=> Room(O, d))
    BY <1>12 DEF Took, Room
  <1>14. free_chunks' = IF b.free_spots # 1 THEN {c} ELSE {}
    BY <1>3, <1>11
  <1>15. ScanAt(s, k, chunk_to_scan', last_chunk_scanned')
    <2>1. pm[W(s[k])].to = IF k = Len(s) THEN 0 ELSE s[k + 1]
      BY <1>4, <1>9 DEF Lists, Chain
    <2>2. chunk_to_scan' = IF k = Len(s) THEN 0 ELSE s[k + 1]
      BY <1>3, <1>5, <2>1
    <2>3. k \in 0 .. Len(s) /\ k # 0 /\ (k < Len(s) <=> k # Len(s))
      <3>1. Len(s) \in Nat /\ k \in 1 .. Len(s)
        BY <1>7, <1>9
      <3>2. QED  BY <3>1
    <2>4. last_chunk_scanned' = s[k]
      BY <1>3, <1>5
    <2>5. QED  BY <2>2, <2>3, <2>4 DEF ScanAt
  <1> HIDE DEF O, P, c, b
  <1>16. Offers(free_chunks', s, k, P)
    <2>1. \A d \in free_chunks' : d \in Range(s) /\ Room(P, d)
      BY <1>9, <1>13, <1>14
    <2>2. ASSUME NEW i \in 1 .. Len(s), Room(P, s[i]), ~(i > k) PROVE s[i] \in free_chunks'
      <3>1. CASE i = k
        BY <1>5, <1>13, <1>14, <2>2, <3>1
      <3>2. CASE i # k
        <4>1. s[i] # c
          BY <1>5, <1>7, <1>9, <3>2
        <4>2. Room(O, s[i])
          BY <1>13, <2>2, <4>1
        <4>3. i > j
          BY <1>2, <1>4, <4>2 DEF Offers
        <4>4. i \in j + 1 .. k - 1
          <5>1. i \in Nat /\ j \in Nat /\ k \in Nat /\ i > j /\ ~(i > k) /\ i # k
            BY <1>7, <1>9, <2>2, <3>2, <4>3
          <5>2. QED  BY <5>1
        <4>5. QED  BY <1>5, <4>2, <4>4
      <3>3. QED  BY <3>1, <3>2
    <2>3. QED  BY <2>1, <2>2 DEF Offers
  <1>17. to_fix' = IF pm[MP(c)].free_spots = 1 THEN F!restore_dram_state(to_fix, {c}, FALSE) ELSE to_fix
    BY <1>3, <1>11 DEF b
  <1>18. QED  BY <1>1, <1>9, <1>12, <1>15, <1>16, <1>17, TookInv DEF P

\* The chunks in a memory that has one more.
OneMore(q, D, m, C, c) ==
  /\ c \notin C /\ D = C \cup {c}
  /\ q[MP(c)] = F!FixedChunk
  /\ \A d \in C : q[MP(d)] = m[MP(d)]

\* A new chunk holds nothing.
LEMMA MapsGrow ==
  ASSUME NEW m, NEW C, NEW O, Maps(m, C, O), NEW c, NEW q, NEW D, OneMore(q, D, m, C, c)
  PROVE  Maps(q, D, O) /\ On(O, c) = {}
  <1>1. On(O, c) = {}
    <2>1. SUFFICES ASSUME NEW i \in SP, <<c, i>> \in O PROVE FALSE
      BY DEF On
    <2> DEFINE o == <<c, i>>
    <2>2. o[1] \in C /\ o[1] = c
      BY <2>1 DEF Maps
    <2>3. QED  BY <2>2 DEF OneMore
  <1>2. Fits(q[MP(c)], On(O, c))
    BY <1>1, NewFits DEF OneMore
  <1>3. QED  BY <1>1, <1>2 DEF Maps, OneMore

\* alloc() with a new chunk.
LEMMA FAllocGrown ==
  ASSUME FInv, phase = "run", live' = live, frees' = frees, freed' = freed, phase' = phase, to_fix' = to_fix,
         NEW s, NEW f, NEW j, Holds(s, f, j), free_chunks = {},
         \A i \in j + 1 .. Len(s) : ~Room(F!InUse, s[i]),
         NEW G, NEW c, Grew(G, pm, SmallChunks, s, c), F!Take(G, c),
         last_chunk_scanned' = c, free_chunks' = {c}, chunk_to_scan' = 0
  PROVE  FInv'
  <1> DEFINE O == F!InUse
             P == F!InUse'
             n == SmallChunks
             C == Range(s)
             D == C \cup {c}
             r == F!FixedChunk_alloc(G[MP(c)])
             o == <<c, r.spot>>
             q == [G EXCEPT ![MP(c)] = r.map]
             t == Append(s, c)
  <1>1. n \in Nat /\ MaxSpots \in Nat /\ MaxSpots # 1 /\ MaxSpots # 0
    BY Bounds
  <1>2. Lists(pm, n, s, f, {}) /\ Maps(pm, C, O) /\ ScanAt(s, j, chunk_to_scan, last_chunk_scanned)
        /\ Offers({}, s, j, O) /\ Undone(undo, to_fix, {}, s, j, live)
        /\ Filled(to_fix, s, O, live)
    BY DEF Holds
  <1>3. Shape(pm, n, s, f, {})
    BY <1>1, <1>2, ListsShape
  <1>4. /\ C \subseteq 1 .. n /\ Len(s) \in Nat
        /\ \A i \in 1 .. Len(s) : s[i] \in C
    BY <1>3 DEF Shape
  <1>5. \A d \in 1 .. n : MP(d) \in DOMAIN pm
    BY DEF FInv, Phases
  <1>6. /\ c \in 1 .. n /\ c \notin C
        /\ G[MP(c)] = F!FixedChunk
        /\ DOMAIN G = DOMAIN pm
        /\ \A d : d # c /\ MP(d) \in DOMAIN pm => G[MP(d)] = pm[MP(d)]
    BY DEF Grew
  <1>7. PICK g : Lists(G, n, t, g, {})
    BY DEF Grew
  <1>8. \A d \in C : G[MP(d)] = pm[MP(d)]
    BY <1>4, <1>5, <1>6
  <1>9. Maps(G, D, O) /\ On(O, c) = {}
    <2>1. Maps(pm, C, O) /\ OneMore(G, D, pm, C, c)
      BY <1>2, <1>6, <1>8 DEF OneMore
    <2> HIDE DEF O, C, D
    <2>2. QED  BY <2>1, MapsGrow
  <1>10. Room(O, c)
    <2>1. SP # {}
      BY <1>1 DEF SP, F!Spots
    <2>2. QED  BY <1>9, <2>1 DEF Room
  <1>11. D \subseteq 1 .. n /\ \A d \in D : MP(d) \in DOMAIN G
    BY <1>4, <1>5, <1>6
  <1>12. /\ Maps(q, D, O \cup {o})
         /\ o \notin O /\ r.spot \in SP
         /\ Room(O \cup {o}, c) <=> G[MP(c)].free_spots # 1
         /\ \A d : d # c => On(O \cup {o}, d) = On(O, d)
    <2>1. c \in D
      OBVIOUS
    <2> HIDE DEF O, D
    <2>2. QED  BY <1>9, <1>10, <1>11, <2>1, MapsTake
  <1>13. pm' = q /\ undo' = F!log(undo, G, {MP(c)}) /\ got' = got \cup {o}
    BY DEF F!Take, MP
  <1>14. Room(O \cup {o}, c)
    <2>1. G[MP(c)].free_spots # 1
      BY <1>1, <1>6 DEF F!FixedChunk
    <2>2. QED  BY <1>12, <2>1
  <1> HIDE DEF r
  <1>15. freed = {} /\ O = live \cup got /\ P = O \cup {o} /\ live' \subseteq P
    BY <1>13 DEF FInv, Phases, F!InUse
  <1>16. DOMAIN undo \subseteq DOMAIN G /\ MP(c) \in DOMAIN G
    BY <1>5, <1>6 DEF FInv, Phases
  <1>17. DOMAIN q = DOMAIN G /\ \A l \in DOMAIN G : l # MP(c) => q[l] = G[l]
    OBVIOUS
  <1> HIDE DEF q
  <1>18. F!rollback(undo', pm') = F!rollback(undo, G) /\ DOMAIN undo' = DOMAIN undo \cup {MP(c)}
    <2> DEFINE L == {MP(c)}
    <2>1. /\ L \subseteq DOMAIN G /\ DOMAIN q = DOMAIN G /\ DOMAIN undo \subseteq DOMAIN G
          /\ \A l \in DOMAIN G : l \notin L => q[l] = G[l]
      BY <1>16, <1>17
    <2> HIDE DEF L
    <2>2. Restores(undo, G, L, q)
      BY <2>1, LogFacts
    <2>3. QED  BY <1>13, <2>2 DEF L, Restores
  <1>19. Lists(q, n, t, g, {})
    <2>1. H \in DOMAIN G /\ ST \in DOMAIN G /\ \A d \in 1 .. n : W(d) \in DOMAIN G
      BY <1>1, <1>7, ListsMemory
    <2>2. q[H] = G[H] /\ q[ST] = G[ST] /\ \A d \in 1 .. n : q[W(d)] = G[W(d)]
      BY <1>17, <2>1, MapLocations
    <2>3. QED  BY <1>7, <1>17, <2>2, SameLists
  <1>20. /\ t \in Seq(1 .. n) /\ Range(t) = D
         /\ Len(t) = Len(s) + 1 /\ t[Len(s) + 1] = c /\ \A i \in 1 .. Len(s) : t[i] = s[i]
    <2>1. s \in Seq(1 .. n) /\ IsInjective(s) /\ c \in 1 .. n /\ c \notin Range(s)
      BY <1>2, <1>6 DEF Lists
    <2> HIDE DEF n
    <2>2. Extends(t, 1 .. n, s, c)
      BY <2>1, AppendFacts
    <2>3. QED  BY <2>2 DEF Extends
  <1> HIDE DEF t
  <1>21. DOMAIN undo \subseteq {MP(d) : d \in C} /\ DOMAIN to_fix \subseteq C /\ \A d \in DOMAIN to_fix : ~to_fix[d]
    BY <1>2 DEF Undone
  <1>22. Stored(F!rollback(undo', pm'), live')
    <2> DEFINE R == F!rollback(undo, pm)
               Q == F!rollback(undo, G)
    <2>1. Lists(Q, n, t, g, {})
      BY <1>7, <1>21, OnlyMaps
    <2>2. Lists(R, n, s, f, {})
      BY <1>2, <1>21, OnlyMaps
    <2>3. PICK s2, f2 : Lists(R, n, s2, f2, {}) /\ Maps(R, Range(s2), live)
      BY DEF FInv, Stored
    <2>4. s2 = s
      BY <2>2, <2>3, OneList
    <2>5. MP(c) \notin DOMAIN undo
      BY <1>6, <1>21, MapLocations
    <2>6. Q[MP(c)] = F!FixedChunk
      BY <1>6, <1>16, <2>5, RollbackFacts
    <2>7. \A d \in C : Q[MP(d)] = R[MP(d)]
      <3>1. \A d \in C : MP(d) \in DOMAIN pm /\ MP(d) \in DOMAIN G
        BY <1>4, <1>5, <1>6
      <3>2. \A d \in C : Q[MP(d)] = IF MP(d) \in DOMAIN undo THEN undo[MP(d)] ELSE G[MP(d)]
        BY <3>1, RollbackFacts
      <3>3. \A d \in C : R[MP(d)] = IF MP(d) \in DOMAIN undo THEN undo[MP(d)] ELSE pm[MP(d)]
        BY <3>1, RollbackFacts
      <3> HIDE DEF Q, R, C
      <3>4. QED  BY <1>8, <3>2, <3>3
    <2>8. Maps(R, C, live)
      BY <2>3, <2>4
    <2> HIDE DEF R, Q, C
    <2>9. Maps(Q, D, live)
      <3>1. OneMore(Q, D, R, C, c)
        BY <1>6, <2>6, <2>7 DEF OneMore
      <3> HIDE DEF D
      <3>2. QED  BY <2>8, <3>1, MapsGrow
    <2>10. Stored(Q, live)
      BY <1>20, <2>1, <2>9 DEF Stored
    <2>11. QED  BY <1>18, <2>10 DEF Q
  <1>23. Phases'
    <2>1. DOMAIN pm' = DOMAIN pm
      BY <1>6, <1>13, <1>17
    <2>2. DOMAIN undo' \subseteq DOMAIN pm'
      BY <1>6, <1>16, <1>18, <2>1
    <2>3. frees \subseteq live \cup got
      BY DEF FInv, Phases
    <2>4. freed' \subseteq frees' /\ frees' \subseteq live' \cup got'
      BY <1>13, <1>15, <2>3
    <2>5. \A d \in 1 .. SmallChunks : MP(d) \in DOMAIN pm'
      BY <1>5, <2>1
    <2>6. QED  BY <1>15, <2>2, <2>4, <2>5 DEF Phases
  <1>24. \A d : d # c => (Room(P, d) <=> Room(O, d))
    BY <1>12, <1>15 DEF Room
  <1>25. Room(P, c)
    BY <1>14, <1>15
  <1>26. Maps(q, D, P)
    BY <1>12, <1>15
  <1> HIDE DEF O, P, C, D, o
  <1> DEFINE k == Len(s) + 1
  <1>27. k \in 1 .. Len(t) /\ k = Len(t) /\ \A i \in 1 .. Len(t) : i = k \/ i \in 1 .. Len(s)
    BY <1>4, <1>20
  <1>28. ScanAt(t, k, chunk_to_scan', last_chunk_scanned')
    <2>1. k \in 0 .. Len(t) /\ ~(k < Len(t)) /\ k # 0
      BY <1>4, <1>27
    <2>2. QED  BY <1>20, <2>1 DEF ScanAt
  <1>29. Offers({c}, t, k, P)
    <2>1. c \in Range(t)
      BY <1>20 DEF D
    <2>2. ASSUME NEW i \in 1 .. Len(t), Room(P, t[i]) PROVE t[i] \in {c}
      <3>1. CASE i = k
        BY <1>20, <3>1
      <3>2. CASE i # k
        <4>1. i \in 1 .. Len(s) /\ t[i] = s[i] /\ s[i] # c
          BY <1>4, <1>6, <1>20, <1>27, <3>2
        <4>2. Room(O, s[i])
          BY <1>24, <2>2, <4>1
        <4>3. i > j
          BY <1>2, <4>1, <4>2 DEF Offers
        <4>4. j \in 0 .. Len(s)
          BY <1>2 DEF ScanAt
        <4>5. i \in j + 1 .. Len(s)
          <5>1. Len(s) \in Nat /\ i \in 1 .. Len(s) /\ i > j /\ j \in 0 .. Len(s)
            BY <1>4, <4>1, <4>3, <4>4
          <5>2. QED  BY <5>1
        <4>6. QED  BY <4>2, <4>5 DEF O
      <3>3. QED  BY <3>1, <3>2
    <2>3. QED  BY <1>25, <2>1, <2>2 DEF Offers
  <1>30. Filled(to_fix, t, P, live)
    <2>1. \A d \in C : Room(live, d) /\ ~Room(O, d) => d \in DOMAIN to_fix
      BY <1>2 DEF Filled, C
    <2>2. \A d \in D : d = c \/ (d # c /\ d \in C)
      BY <1>6 DEF D
    <2>3. QED  BY <1>20, <1>24, <1>25, <2>1, <2>2 DEF Filled
  <1>31. Undone(undo', to_fix, {c}, t, k, live)
    <2>1. DOMAIN undo' \subseteq {MP(d) : d \in Range(t)}
      BY <1>18, <1>20, <1>21 DEF D
    <2>2. DOMAIN to_fix \subseteq Range(t)
      BY <1>20, <1>21 DEF D
    <2>3. \A i \in 1 .. Len(t) : t[i] \in Range(t)
      BY <1>20, SeqFacts
    <2>4. live \subseteq P
      BY <1>15
    <2> HIDE DEF k
    <2>5. QED  BY <1>21, <1>29, <1>30, <2>1, <2>2, <2>3, <2>4, RunUndone
  <1>32. Holds(t, g, k)'
    <2>1. Lists(pm', n, t, g, {}) /\ Maps(pm', Range(t), F!InUse')
      BY <1>13, <1>19, <1>20, <1>26 DEF P
    <2>2. Offers(free_chunks', t, k, F!InUse') /\ Undone(undo', to_fix', free_chunks', t, k, live')
          /\ Filled(to_fix', t, F!InUse', live')
      BY <1>29, <1>30, <1>31 DEF P
    <2> HIDE DEF k
    <2>3. QED  BY <1>28, <2>1, <2>2 DEF Holds
  <1> HIDE DEF k
  <1>33. \E x, y, z : Holds(x, y, z)'
    BY <1>32
  <1>34. QED  BY <1>22, <1>23, <1>33 DEF FInv

\* alloc(), the growth of the list and its failure included.  That the chunk it
\* found or added cannot be written to sets torn.
LEMMA FAlloc == ~torn' /\ FInv /\ F!alloc => FInv'
  <1> SUFFICES ASSUME ~torn', FInv, F!alloc PROVE FInv'
    OBVIOUS
  <1>1. phase = "run" /\ live' = live /\ frees' = frees /\ freed' = freed /\ phase' = phase
    BY DEF F!alloc
  <1>2. CASE F!alloc_listed
    BY <1>1, <1>2, FAllocListed
  <1>3. CASE F!alloc_scanned
    BY <1>1, <1>3, FAllocScanned
  <1>4. CASE F!alloc_grown
    <2>1. PICK s, f, j : Holds(s, f, j)
      BY DEF FInv
    <2> DEFINE O == F!InUse
               n == SmallChunks
    <2>2. free_chunks = {} /\ F!NoneHasRoom /\ chunk_to_scan' = 0 /\ to_fix' = to_fix
      BY <1>4, Bounds DEF F!alloc_grown
    <2>3. Lists(pm, n, s, f, {}) /\ Maps(pm, Range(s), O) /\ ScanAt(s, j, chunk_to_scan, last_chunk_scanned)
          /\ Offers(free_chunks, s, j, O)
      BY <1>1, <2>1 DEF Holds
    <2>4. F!LastScanned = LastOf(s) /\ \A i \in j + 1 .. Len(s) : ~Room(O, s[i])
      <3> HIDE DEF O
      <3>1. \/ /\ F!LastScanned = LastOf(s)
               /\ \A i \in j + 1 .. Len(s) : ~Room(O, s[i])
            \/ ~F!NoneHasRoom
        BY <2>3, ScanFinds
      <3>2. QED  BY <2>2, <3>1
    <2>5. CASE /\ ~F!Exhausted(pm) /\ F!Take(F!Grown.pm, F!Grown.chunk)
               /\ last_chunk_scanned' = F!Grown.chunk /\ free_chunks' = {F!Grown.chunk}
      <3>1. PICK G, c : G = F!Grown.pm /\ c = F!Grown.chunk
        OBVIOUS
      <3>2. c = F!fa_alloc(pm).obj /\ G = F!Appended(NewChunk(pm), F!LastScanned, c)
        BY <3>1 DEF F!Grown, NewChunk, W, MP
      <3>3. \A d \in 1 .. n : MP(d) \in DOMAIN pm
        BY DEF FInv, Phases
      <3>4. Grew(G, pm, n, s, c)
        <4>1. G = F!Appended(NewChunk(pm), LastOf(s), F!fa_alloc(pm).obj)
          BY <2>4, <3>2
        <4>2. Grew(F!Appended(NewChunk(pm), LastOf(s), F!fa_alloc(pm).obj), pm, n, s, F!fa_alloc(pm).obj)
          BY <2>3, <2>5, <3>3, GrewFacts
        <4>3. QED  BY <3>2, <4>1, <4>2
      <3>5. F!Take(G, c) /\ last_chunk_scanned' = c /\ free_chunks' = {c}
        BY <2>5, <3>1
      <3>6. QED  BY <1>1, <2>1, <2>2, <2>4, <3>4, <3>5, FAllocGrown
    <2>6. CASE last_chunk_scanned' = F!LastScanned /\ UNCHANGED <<pm, undo, free_chunks, got>>
      <3>1. pm' = pm /\ undo' = undo /\ free_chunks' = free_chunks /\ got' = got /\ last_chunk_scanned' = LastOf(s)
        BY <2>4, <2>6
      <3>2. Phases'
        BY <1>1, <3>1 DEF FInv, Phases
      <3>3. Stored(F!rollback(undo', pm'), live')
        BY <1>1, <3>1 DEF FInv
      <3>4. F!InUse' = O
        BY <1>1, <3>1 DEF F!InUse
      <3>5. Shape(pm, n, s, f, {})
        BY <2>3, Bounds, ListsShape
      <3>6. Len(s) \in Nat /\ (s = <<>> <=> Len(s) = 0) /\ \A i \in 1 .. Len(s) : s[i] \in Range(s)
        BY <3>5 DEF Shape
      <3> DEFINE k == Len(s)
      <3>7. ScanAt(s, k, 0, LastOf(s))
        <4>1. k \in 0 .. Len(s) /\ ~(k < Len(s))
          BY <3>6
        <4>2. k = 0 => LastOf(s) = 0
          BY <3>6 DEF LastOf
        <4>3. k # 0 => LastOf(s) = s[k]
          BY <3>6 DEF LastOf
        <4>4. QED  BY <4>1, <4>2, <4>3 DEF ScanAt
      <3>8. Offers({}, s, k, O)
        <4>1. ASSUME NEW i \in 1 .. Len(s), Room(O, s[i]) PROVE FALSE
          <5>1. i > j
            BY <2>2, <2>3, <4>1 DEF Offers
          <5>2. i \in j + 1 .. Len(s)
            <6>1. j \in 0 .. Len(s) /\ Len(s) \in Nat
              BY <2>3, <3>6 DEF ScanAt
            <6>2. QED  BY <5>1, <6>1
          <5>3. QED  BY <2>4, <4>1, <5>2
        <4>2. QED  BY <4>1 DEF Offers
      <3>9. /\ Filled(to_fix, s, O, live)
            /\ DOMAIN undo \subseteq {MP(c) : c \in Range(s)}
            /\ DOMAIN to_fix \subseteq Range(s) /\ \A c \in DOMAIN to_fix : ~to_fix[c]
        BY <1>1, <2>1 DEF Holds, Undone
      <3>10. live \subseteq O
        BY <1>1 DEF FInv, Phases, F!InUse
      <3>11. Undone(undo, to_fix, {}, s, k, live)
        <4> HIDE DEF O, k
        <4>1. QED  BY <3>6, <3>8, <3>9, <3>10, RunUndone
      <3>12. Holds(s, f, k)'
        <4>1. Lists(pm', n, s, f, {}) /\ Maps(pm', Range(s), F!InUse')
          BY <2>3, <3>1, <3>4
        <4>2. Offers(free_chunks', s, k, F!InUse') /\ Undone(undo', to_fix', free_chunks', s, k, live')
              /\ Filled(to_fix', s, F!InUse', live')
          BY <1>1, <2>2, <3>1, <3>4, <3>8, <3>9, <3>11
        <4>3. ScanAt(s, k, chunk_to_scan', last_chunk_scanned')
          BY <2>2, <3>1, <3>7
        <4> HIDE DEF k
        <4>4. QED  BY <4>1, <4>2, <4>3 DEF Holds
      <3> HIDE DEF k
      <3>13. \E x, y, z : Holds(x, y, z)'
        BY <3>12
      <3>14. QED  BY <3>2, <3>3, <3>13 DEF FInv
    <2>7. QED  BY <1>4, <2>5, <2>6 DEF F!alloc_grown, F!MayGrow
  <1>5. ~F!alloc_fails
    BY DEF F!alloc_fails
  <1>6. QED  BY <1>2, <1>3, <1>4, <1>5 DEF F!alloc

-----------------------------------------------------------------------------
\* The memory after the bitmap of an object's chunk has changed.
Fixed(o) == [pm EXCEPT ![MP(o[1])] = F!FixedChunk_free(pm[MP(o[1])], o[2])]

Loosened(m, s, f, o, c, O, P) ==
  /\ Lists(m, SmallChunks, s, f, {}) /\ Maps(m, Range(s), P)
  /\ c \in Range(s) /\ Room(P, c)
  /\ m[MP(c)].free_spots = MaxSpots <=> On(P, c) = {}
  /\ pm[MP(c)].free_spots = 0 <=> ~Room(O, c)
  /\ \A d : d # c => On(P, d) = On(O, d)
  /\ DOMAIN m = DOMAIN pm /\ MP(c) \in DOMAIN pm
  /\ \A l \in DOMAIN pm : l # MP(c) => m[l] = pm[l]

\* FixedChunk::free() clears one bit of one chunk.
LEMMA FreeMemory ==
  ASSUME FInv, NEW s, NEW f, NEW j, Holds(s, f, j), NEW o \in frees \ freed,
         live' = live, got' = got, freed' = freed \cup {o}
  PROVE  Loosened(Fixed(o), s, f, o, o[1], F!InUse, F!InUse')
  <1> DEFINE O == F!InUse
             P == F!InUse'
             C == Range(s)
             c == o[1]
             q == Fixed(o)
             n == SmallChunks
  <1>1. o \in O /\ P = O \ {o}
    <2>1. frees \subseteq live \cup got
      BY DEF FInv, Phases
    <2>2. QED  BY <2>1 DEF F!InUse
  <1>2. Lists(pm, n, s, f, {}) /\ Maps(pm, C, O)
    BY DEF Holds
  <1>3. n \in Nat
    BY Bounds
  <1>4. Shape(pm, n, s, f, {})
    BY <1>2, <1>3, ListsShape
  <1>5. \A d \in C : MP(d) \in DOMAIN pm
    BY <1>4 DEF Shape, FInv, Phases
  <1>6. /\ Maps(q, C, O \ {o})
        /\ c \in C
        /\ Room(O \ {o}, c)
        /\ q[MP(c)].free_spots = MaxSpots <=> On(O \ {o}, c) = {}
        /\ pm[MP(c)].free_spots = 0 <=> ~Room(O, c)
        /\ \A d : d # c => On(O \ {o}, d) = On(O, d)
    <2> HIDE DEF O, C
    <2>1. QED  BY <1>1, <1>2, <1>5, MapsFree DEF Fixed
  <1>7. DOMAIN q = DOMAIN pm /\ MP(c) \in DOMAIN pm /\ \A l \in DOMAIN pm : l # MP(c) => q[l] = pm[l]
    BY <1>5, <1>6 DEF Fixed
  <1>8. Lists(q, n, s, f, {})
    <2>1. H \in DOMAIN pm /\ ST \in DOMAIN pm /\ \A d \in 1 .. n : W(d) \in DOMAIN pm
      BY <1>2, <1>3, ListsMemory
    <2> HIDE DEF q, c
    <2>2. q[H] = pm[H] /\ q[ST] = pm[ST] /\ \A d \in 1 .. n : q[W(d)] = pm[W(d)]
      BY <1>7, <2>1, MapLocations
    <2>3. QED  BY <1>2, <1>7, <2>2, SameLists
  <1> HIDE DEF O, P, c, q
  <1>9. Loosened(q, s, f, o, c, O, P)
    BY <1>1, <1>6, <1>7, <1>8 DEF Loosened
  <1>10. QED  BY <1>9 DEF q, c, O, P

\* The journal and the objects, after an object was freed.
LEMMA FreePhases ==
  ASSUME FInv, NEW o \in frees \ freed, live' = live, got' = got, frees' = frees, freed' = freed \cup {o},
         phase' \in {"commit", "failed"}, NEW L, L \subseteq DOMAIN pm,
         undo' = F!log(undo, pm, L), DOMAIN pm' = DOMAIN pm,
         \A l \in DOMAIN pm : l \notin L => pm'[l] = pm[l]
  PROVE  Phases' /\ Stored(F!rollback(undo', pm'), live') /\ DOMAIN undo' = DOMAIN undo \cup L
  <1>1. DOMAIN undo \subseteq DOMAIN pm
    BY DEF FInv, Phases
  <1>2. PICK q : q = pm'
    OBVIOUS
  <1>3. Restores(undo, pm, L, q)
    BY <1>1, <1>2, LogFacts
  <1>4. F!rollback(undo', pm') = F!rollback(undo, pm) /\ DOMAIN undo' = DOMAIN undo \cup L
    BY <1>2, <1>3 DEF Restores
  <1>5. Phases'
    <2>1. DOMAIN undo' \subseteq DOMAIN pm'
      BY <1>1, <1>4
    <2>2. freed' \subseteq frees' /\ frees' \subseteq live' \cup got'
      BY DEF FInv, Phases
    <2>3. \A d \in 1 .. SmallChunks : MP(d) \in DOMAIN pm'
      BY DEF FInv, Phases
    <2>4. QED  BY <2>1, <2>2, <2>3 DEF Phases
  <1>6. Stored(F!rollback(undo', pm'), live')
    BY <1>4 DEF FInv
  <1>7. QED  BY <1>4, <1>5, <1>6

\* The first free() of a commit throws before it changes the list.
LEMMA FCleanFails == ~torn' /\ FInv /\ F!clean_fails => FInv'
  <1> SUFFICES ASSUME ~torn', FInv, F!clean_fails PROVE FInv'
    OBVIOUS
  <1>2. PICK o \in frees \ freed :
          /\ pm' = Fixed(o)
          /\ undo' = F!log(undo, pm, {MP(o[1])})
          /\ to_fix' = F!restore_dram_state(to_fix, {o[1]}, FALSE)
          /\ free_chunks' = free_chunks \ {o[1]}
          /\ freed' = freed \cup {o}
          /\ chunk_to_scan' = chunk_to_scan /\ last_chunk_scanned' = last_chunk_scanned
          /\ phase # "commit"
    <2>1. PICK o \in frees \ freed, late \in BOOLEAN :
            /\ pm' = IF late THEN F!Unlinked(Fixed(o), o[1]).pm ELSE Fixed(o)
            /\ undo' = F!log(undo, pm, {MP(o[1])} \cup IF late THEN F!Unlinked(Fixed(o), o[1]).logs ELSE {})
            /\ to_fix' = F!restore_dram_state(to_fix, {o[1]}, FALSE)
            /\ free_chunks' = free_chunks \ {o[1]}
            /\ IF late THEN F!Forget(o[1]) ELSE UNCHANGED <<chunk_to_scan, last_chunk_scanned>>
            /\ torn' = (torn \/ late \/ phase = "commit")
            /\ freed' = freed \cup {o}
      BY DEF F!clean_fails, MP, Fixed
    <2>2. ~late /\ phase # "commit"
      BY <2>1
    <2>3. {MP(o[1])} \cup {} = {MP(o[1])}
      OBVIOUS
    <2>4. QED  BY <2>1, <2>2, <2>3
  <1>1. /\ phase = "run" /\ phase' = "failed" /\ chunk_to_scan' = chunk_to_scan
        /\ last_chunk_scanned' = last_chunk_scanned /\ live' = live /\ got' = got /\ frees' = frees
    BY <1>2 DEF F!clean_fails
  <1>3. PICK s, f, j : Holds(s, f, j)
    BY DEF FInv
  <1>4. PICK c : c = o[1]
    OBVIOUS
  <1>5. Loosened(pm', s, f, o, c, F!InUse, F!InUse')
    BY <1>1, <1>2, <1>3, <1>4, FreeMemory
  <1>6. /\ Lists(pm', SmallChunks, s, f, {}) /\ Maps(pm', Range(s), F!InUse')
        /\ c \in Range(s) /\ DOMAIN pm' = DOMAIN pm /\ MP(c) \in DOMAIN pm
        /\ \A l \in DOMAIN pm : l # MP(c) => pm'[l] = pm[l]
    BY <1>5 DEF Loosened
  <1>7. Phases' /\ Stored(F!rollback(undo', pm'), live') /\ DOMAIN undo' = DOMAIN undo \cup {MP(c)}
    <2> DEFINE L == {MP(c)}
    <2>1. L \subseteq DOMAIN pm /\ undo' = F!log(undo, pm, L) /\ \A l \in DOMAIN pm : l \notin L => pm'[l] = pm[l]
      BY <1>2, <1>4, <1>6
    <2> HIDE DEF L
    <2>2. Phases' /\ Stored(F!rollback(undo', pm'), live') /\ DOMAIN undo' = DOMAIN undo \cup L
      BY <1>1, <1>2, <1>6, <2>1, FreePhases
    <2>3. QED  BY <2>2 DEF L
  <1>8. Undone(undo, to_fix, free_chunks, s, j, live) /\ ScanAt(s, j, chunk_to_scan, last_chunk_scanned)
    BY <1>1, <1>3 DEF Holds
  <1>9. Undone(undo', to_fix', free_chunks', s, j, live')
    <2> DEFINE x == F!restore_dram_state(to_fix, {c}, FALSE)
    <2>1. to_fix' = x /\ free_chunks' = free_chunks \ {c}
      BY <1>2, <1>4
    <2>2. /\ DOMAIN x = DOMAIN to_fix \cup {c}
          /\ \A d \in DOMAIN to_fix : x[d] = to_fix[d]
          /\ c \notin DOMAIN to_fix => x[c] = FALSE
      BY FixFacts
    <2> HIDE DEF x
    <2>3. DOMAIN to_fix' \subseteq Range(s) /\ \A d \in DOMAIN to_fix' : ~to_fix'[d]
      BY <1>6, <1>8, <2>1, <2>2 DEF Undone
    <2>4. DOMAIN undo' \subseteq {MP(d) : d \in Range(s)}
      BY <1>6, <1>7, <1>8 DEF Undone
    <2>5. \A d \in free_chunks' : d \in Range(s) /\ Room(live', d)
      BY <1>1, <1>8, <2>1 DEF Undone
    <2>6. \A i \in 1 .. Len(s) : Room(live', s[i]) => s[i] \in free_chunks' \/ s[i] \in DOMAIN to_fix' \/ i > j
      BY <1>1, <1>8, <2>1, <2>2 DEF Undone
    <2>7. QED  BY <2>3, <2>4, <2>5, <2>6 DEF Undone
  <1>10. Holds(s, f, j)'
    BY <1>1, <1>6, <1>8, <1>9 DEF Holds
  <1>11. QED  BY <1>7, <1>10 DEF FInv

\* Where the scan stands once chunk k has left the list.
ScanLeft(j, k) == IF k <= j THEN j - 1 ELSE j

\* The scan steps back when a chunk it has passed leaves the list.
LEMMA RemovedScan ==
  ASSUME NEW m, NEW s, NEW f, Lists(m, SmallChunks, s, f, {}), NEW k \in 1 .. Len(s),
         NEW j, NEW scan, NEW last, ScanAt(s, j, scan, last)
  PROVE  ScanAt(Without(s, k), ScanLeft(j, k),
                IF scan = s[k] THEN m[W(s[k])].to ELSE scan,
                IF last = s[k] THEN F!Before(m, s[k]) ELSE last)
  <1> DEFINE n == SmallChunks
             t == Without(s, k)
             i == ScanLeft(j, k)
             c == s[k]
             x == IF scan = c THEN m[W(c)].to ELSE scan
             y == IF last = c THEN F!Before(m, c) ELSE last
  <1>1. Shape(m, n, s, f, {})
    BY Bounds, ListsShape
  <1>2. /\ Len(s) \in Nat
        /\ \A h \in 1 .. Len(s) : s[h] \in 1 .. n /\ s[h] \in Range(s)
        /\ \A h, l \in 1 .. Len(s) : s[h] = s[l] => h = l
    BY <1>1 DEF Shape
  <1>3. m[W(c)].to = IF k = Len(s) THEN 0 ELSE s[k + 1]
    BY DEF Lists, Chain
  <1>4. F!Before(m, c) = IF k = 1 THEN 0 ELSE s[k - 1]
    BY BeforeIs
  <1>5. /\ Len(t) = Len(s) - 1 /\ Range(t) = Range(s) \ {c}
        /\ \A h \in 1 .. Len(s) - 1 : t[h] = s[IF h < k THEN h ELSE h + 1]
    <2>1. s \in Seq(1 .. n) /\ IsInjective(s)
      BY DEF Lists
    <2>2. QED  BY <2>1, WithoutFacts
  <1>6. c # 0 /\ c \in Range(s)
    BY <1>2
  <1>7. /\ j \in 0 .. Len(s)
        /\ scan = IF j < Len(s) THEN s[j + 1] ELSE 0
        /\ j = 0 => last \in Range(s) \cup {0}
        /\ j # 0 => last = s[j]
    BY DEF ScanAt
  <1>8. Len(s) \in Nat /\ j \in 0 .. Len(s) /\ k \in 1 .. Len(s) /\ j \in Nat /\ k \in Nat
    BY <1>2, <1>7
  <1> HIDE DEF t
  <1>9. CASE k <= j
    <2>1. /\ i = j - 1 /\ j # 0 /\ i \in 0 .. Len(t) /\ (i < Len(t) <=> j < Len(s))
          /\ i + 1 = j /\ j \in 1 .. Len(s)
      BY <1>5, <1>8, <1>9 DEF ScanLeft
    <2>2. scan # c
      <3>1. j < Len(s) => j + 1 \in 1 .. Len(s) /\ j + 1 # k
        BY <1>8, <1>9
      <3>2. QED  BY <1>2, <1>6, <1>7, <3>1
    <2>3. j < Len(s) => t[i + 1] = s[j + 1]
      <3>1. j < Len(s) => j \in 1 .. Len(s) - 1 /\ ~(j < k)
        BY <1>8, <1>9
      <3>2. QED  BY <1>5, <2>1, <3>1
    <2>4. x = IF i < Len(t) THEN t[i + 1] ELSE 0
      BY <1>7, <2>1, <2>2, <2>3
    <2>5. last = s[j]
      BY <1>7, <2>1
    <2>6. CASE k = j
      <3>1. y = IF k = 1 THEN 0 ELSE s[k - 1]
        BY <1>4, <2>5, <2>6
      <3>2. i = k - 1 /\ (i = 0 <=> k = 1)
        BY <1>8, <2>1, <2>6
      <3>3. i # 0 => i \in 1 .. Len(s) - 1 /\ i < k
        BY <1>8, <2>6, <3>2
      <3>4. i # 0 => t[i] = s[k - 1]
        BY <1>5, <3>2, <3>3
      <3>5. (i = 0 => y \in Range(t) \cup {0}) /\ (i # 0 => y = t[i])
        BY <3>1, <3>2, <3>4
      <3>6. QED  BY <2>1, <2>4, <3>5 DEF ScanAt, t
    <2>7. CASE k # j
      <3>1. last # c
        BY <1>2, <2>1, <2>5, <2>7
      <3>2. i # 0 /\ i \in 1 .. Len(s) - 1 /\ ~(i < k)
        BY <1>8, <1>9, <2>1, <2>7
      <3>3. t[i] = s[i + 1]
        BY <1>5, <3>2
      <3>4. y = t[i]
        BY <2>1, <2>5, <3>1, <3>3
      <3>5. QED  BY <2>1, <2>4, <3>2, <3>4 DEF ScanAt, t
    <2>8. QED  BY <2>6, <2>7
  <1>10. CASE ~(k <= j)
    <2>1. i = j /\ i \in 0 .. Len(t) /\ j + 1 \in 1 .. Len(s) /\ j < Len(s)
      BY <1>5, <1>8, <1>10 DEF ScanLeft
    <2>2. scan = s[j + 1]
      BY <1>7, <2>1
    <2>3. x = IF i < Len(t) THEN t[i + 1] ELSE 0
      <3>1. CASE k = j + 1
        <4>1. x = IF k = Len(s) THEN 0 ELSE s[k + 1]
          BY <1>3, <2>2, <3>1
        <4>2. i < Len(t) <=> k # Len(s)
          BY <1>5, <1>8, <2>1, <3>1
        <4>3. k # Len(s) => k \in 1 .. Len(s) - 1 /\ ~(k < k)
          BY <1>8
        <4>4. k # Len(s) => t[i + 1] = s[k + 1]
          BY <1>5, <2>1, <3>1, <4>3
        <4>5. QED  BY <4>1, <4>2, <4>4
      <3>2. CASE k # j + 1
        <4>1. scan # c
          BY <1>2, <2>1, <2>2, <3>2
        <4>2. i < Len(t) /\ j + 1 \in 1 .. Len(s) - 1 /\ j + 1 < k
          BY <1>5, <1>8, <1>10, <2>1, <3>2
        <4>3. t[i + 1] = s[j + 1]
          BY <1>5, <2>1, <4>2
        <4>4. QED  BY <2>2, <4>1, <4>2, <4>3
      <3>3. QED  BY <3>1, <3>2
    <2>4. CASE j = 0
      <3>1. last \in Range(s) \cup {0}
        BY <1>7, <2>4
      <3>2. F!Before(m, c) \in (Range(s) \ {c}) \cup {0}
        <4>1. k # 1 => k - 1 \in 1 .. Len(s) /\ k - 1 # k
          BY <1>8
        <4>2. k # 1 => s[k - 1] \in Range(s) /\ s[k - 1] # c
          BY <1>2, <4>1
        <4>3. QED  BY <1>4, <4>2
      <3>3. y \in Range(t) \cup {0}
        BY <1>5, <3>1, <3>2
      <3>4. QED  BY <2>1, <2>3, <2>4, <3>3 DEF ScanAt, t
    <2>5. CASE j # 0
      <3>1. j \in 1 .. Len(s) /\ j # k /\ j \in 1 .. Len(s) - 1 /\ j < k
        BY <1>8, <1>10, <2>1, <2>5
      <3>2. last = s[j] /\ last # c
        BY <1>2, <1>7, <2>5, <3>1
      <3>3. t[j] = s[j]
        BY <1>5, <3>1
      <3>4. y = t[i]
        BY <2>1, <3>2, <3>3
      <3>5. QED  BY <2>1, <2>3, <2>5, <3>4 DEF ScanAt, t
    <2>6. QED  BY <2>4, <2>5
  <1>11. QED  BY <1>9, <1>10

\* What DRAM offers once chunk k, empty, has left the list.
LEMMA RemovedOffers ==
  ASSUME NEW m, NEW s, NEW f, Lists(m, SmallChunks, s, f, {}), NEW k \in 1 .. Len(s),
         NEW j \in 0 .. Len(s), NEW fc, NEW O, Offers(fc, s, j, O),
         NEW P, \A d : d # s[k] => On(P, d) = On(O, d)
  PROVE  Offers(fc \ {s[k]}, Without(s, k), ScanLeft(j, k), P)
  <1> DEFINE n == SmallChunks
             t == Without(s, k)
             i == ScanLeft(j, k)
             c == s[k]
  <1>1. Shape(m, n, s, f, {})
    BY Bounds, ListsShape
  <1>2. /\ Len(s) \in Nat
        /\ \A h, l \in 1 .. Len(s) : s[h] = s[l] => h = l
    BY <1>1 DEF Shape
  <1>3. /\ Len(t) = Len(s) - 1 /\ Range(t) = Range(s) \ {c}
        /\ \A h \in 1 .. Len(s) - 1 : t[h] = s[IF h < k THEN h ELSE h + 1]
    <2>1. s \in Seq(1 .. n) /\ IsInjective(s)
      BY DEF Lists
    <2>2. QED  BY <2>1, WithoutFacts
  <1> HIDE DEF t
  <1>4. \A d : d # c => (Room(P, d) <=> Room(O, d))
    BY DEF Room
  <1>5. \A d \in fc \ {c} : d \in Range(t) /\ Room(P, d)
    BY <1>3, <1>4 DEF Offers
  <1>6. ASSUME NEW h \in 1 .. Len(t), Room(P, t[h]) PROVE t[h] \in fc \ {c} \/ h > i
    <2> DEFINE l == IF h < k THEN h ELSE h + 1
    <2>1. Len(s) \in Nat /\ k \in 1 .. Len(s) /\ j \in 0 .. Len(s) /\ h \in 1 .. Len(s) - 1
      BY <1>2, <1>3
    <2>2. l \in 1 .. Len(s) /\ l # k /\ t[h] = s[l]
      BY <1>3, <2>1
    <2>3. s[l] # c
      BY <1>2, <2>2
    <2>4. Room(O, s[l])
      BY <1>4, <1>6, <2>2, <2>3
    <2>5. s[l] \in fc \/ l > j
      BY <2>2, <2>4 DEF Offers
    <2>6. l > j => h > i
      BY <2>1 DEF ScanLeft
    <2>7. QED  BY <2>2, <2>3, <2>5, <2>6
  <1>7. QED  BY <1>5, <1>6 DEF Offers, t

\* What a free leaves of the memory and of DRAM.
Dropped(q, L, s, k, P) ==
  /\ \E g : Lists(q, SmallChunks, Without(s, k), g, {})
  /\ Maps(q, Range(Without(s, k)), P)
  /\ DOMAIN q = DOMAIN pm /\ L \subseteq DOMAIN pm
  /\ \A l \in DOMAIN pm : l \notin L => q[l] = pm[l]

\* An emptied chunk leaves the list, the others keep their bitmaps.
LEMMA DroppedFacts ==
  ASSUME NEW m, NEW s, NEW f, NEW o, NEW k \in 1 .. Len(s), NEW O, NEW P,
         Loosened(m, s, f, o, s[k], O, P), On(P, s[k]) = {},
         \A d \in 1 .. SmallChunks : MP(d) \in DOMAIN pm
  PROVE  Dropped(F!Removed(m, s[k]).pm, {MP(s[k])} \cup F!Removed(m, s[k]).logs, s, k, P)
  <1> DEFINE n == SmallChunks
             c == s[k]
             q == F!Removed(m, c).pm
             R == F!Removed(m, c).logs
             t == Without(s, k)
  <1>1. Lists(m, n, s, f, {}) /\ Maps(m, Range(s), P)
    BY DEF Loosened
  <1>2. /\ \E g : Lists(q, n, t, g, {})
        /\ DOMAIN q = DOMAIN m
        /\ R \subseteq {H, ST} \cup {W(d) : d \in 1 .. n}
        /\ \A l \in DOMAIN m : l \notin R => q[l] = m[l]
    <2>1. LeftList(F!Removed(m, c), m, s, {}, k)
      BY <1>1, RemovedFacts
    <2>2. QED  BY <2>1 DEF LeftList
  <1> HIDE DEF q, R
  <1>3. DOMAIN m = DOMAIN pm /\ MP(c) \in DOMAIN pm /\ \A l \in DOMAIN pm : l # MP(c) => m[l] = pm[l]
    BY DEF Loosened
  <1>4. H \in DOMAIN m /\ ST \in DOMAIN m /\ \A d \in 1 .. n : W(d) \in DOMAIN m
    BY <1>1, Bounds, ListsMemory
  <1>5. {MP(c)} \cup R \subseteq DOMAIN pm
    BY <1>2, <1>3, <1>4
  <1>6. \A l \in DOMAIN pm : l \notin {MP(c)} \cup R => q[l] = pm[l]
    BY <1>2, <1>3
  <1>7. Shape(m, n, s, f, {})
    BY <1>1, Bounds, ListsShape
  <1>8. Range(s) \subseteq 1 .. n
    BY <1>7 DEF Shape
  <1>9. Range(t) = Range(s) \ {c}
    <2>1. s \in Seq(1 .. n) /\ IsInjective(s)
      BY <1>1 DEF Lists
    <2>2. QED  BY <2>1, WithoutFacts
  <1>10. \A d \in Range(s) : q[MP(d)] = m[MP(d)]
    <2>1. ASSUME NEW d \in Range(s) PROVE q[MP(d)] = m[MP(d)]
      <3>1. MP(d) \in DOMAIN m
        BY <1>3, <1>8, <2>1
      <3>2. MP(d) \notin R
        BY <1>2, MapLocations
      <3>3. QED  BY <1>2, <3>1, <3>2
    <2>2. QED  BY <2>1
  <1>11. Maps(q, Range(s), P)
    BY <1>1, <1>10, MapsFrame
  <1>12. Maps(q, Range(t), P)
    <2>1. \A x \in P : x[1] # c
      <3>1. ASSUME NEW x \in P, x[1] = c PROVE FALSE
        <4>1. x[2] \in SP /\ x = <<x[1], x[2]>>
          BY <1>11 DEF Maps
        <4>2. x[2] \in On(P, c)
          BY <3>1, <4>1 DEF On
        <4>3. QED  BY <4>2
      <3>2. QED  BY <3>1
    <2> HIDE DEF t, c
    <2>2. QED  BY <1>9, <1>11, <2>1 DEF Maps
  <1>13. QED  BY <1>2, <1>3, <1>5, <1>6, <1>12 DEF Dropped, q, R

\* free() at commit: the chunk stays, or leaves as it became empty.
LEMMA FCleanOne == FInv /\ F!clean_one => FInv'
  <1> SUFFICES ASSUME FInv, F!clean_one PROVE FInv'
    OBVIOUS
  <1>1. phase \in {"run", "commit"} /\ phase' = "commit" /\ live' = live /\ got' = got /\ frees' = frees
    BY DEF F!clean_one
  <1>2. PICK o \in frees \ freed : F!free(o) /\ freed' = freed \cup {o}
    BY DEF F!clean_one
  <1>3. PICK s, f, j : Holds(s, f, j)
    BY DEF FInv
  <1>4. PICK c, m : c = o[1] /\ m = Fixed(o)
    OBVIOUS
  <1> DEFINE n == SmallChunks
             O == F!InUse
             P == F!InUse'
             whole == m[MP(c)].free_spots = MaxSpots
             was == pm[MP(c)].free_spots = 0
  <1>5. /\ pm' = IF whole THEN F!Removed(m, c).pm ELSE m
        /\ undo' = F!log(undo, pm, {MP(c)} \cup IF whole THEN F!Removed(m, c).logs ELSE {})
        /\ free_chunks' = IF whole THEN free_chunks \ {c}
                          ELSE IF was THEN free_chunks \cup {c} ELSE free_chunks
        /\ last_chunk_scanned' = IF whole /\ last_chunk_scanned = c THEN F!Before(pm, c)
                                 ELSE last_chunk_scanned
        /\ chunk_to_scan' = IF whole /\ chunk_to_scan = c THEN pm[W(c)].to ELSE chunk_to_scan
    BY <1>2, <1>4 DEF F!free, F!FreeLogs, F!Forget, Fixed, MP, W, F!Next_chunk
  <1>6. Loosened(m, s, f, o, c, O, P)
    BY <1>1, <1>2, <1>3, <1>4, FreeMemory
  <1>7. /\ Lists(m, n, s, f, {}) /\ Maps(m, Range(s), P)
        /\ c \in Range(s) /\ Room(P, c)
        /\ whole <=> On(P, c) = {}
        /\ was <=> ~Room(O, c)
        /\ \A d : d # c => On(P, d) = On(O, d)
        /\ DOMAIN m = DOMAIN pm /\ MP(c) \in DOMAIN pm
        /\ \A l \in DOMAIN pm : l # MP(c) => m[l] = pm[l]
    BY <1>6 DEF Loosened
  <1>8. /\ Lists(pm, n, s, f, {}) /\ ScanAt(s, j, chunk_to_scan, last_chunk_scanned)
        /\ Offers(free_chunks, s, j, O)
    BY <1>1, <1>3 DEF Holds
  <1>9. \A d \in 1 .. n : MP(d) \in DOMAIN pm
    BY DEF FInv, Phases
  <1>10. Shape(pm, n, s, f, {})
    BY <1>8, Bounds, ListsShape
  <1> HIDE DEF O
  <1>11. CASE ~whole
    <2>1. /\ pm' = m /\ undo' = F!log(undo, pm, {MP(c)})
          /\ free_chunks' = IF was THEN free_chunks \cup {c} ELSE free_chunks
          /\ last_chunk_scanned' = last_chunk_scanned /\ chunk_to_scan' = chunk_to_scan
      BY <1>5, <1>11
    <2>2. Phases' /\ Stored(F!rollback(undo', pm'), live')
      <3> DEFINE L == {MP(c)}
      <3>1. L \subseteq DOMAIN pm /\ undo' = F!log(undo, pm, L) /\ DOMAIN pm' = DOMAIN pm
            /\ \A l \in DOMAIN pm : l \notin L => pm'[l] = pm[l]
        BY <1>7, <2>1
      <3> HIDE DEF L
      <3>2. QED  BY <1>1, <1>2, <3>1, FreePhases
    <2>3. Offers(free_chunks', s, j, P)
      <3>1. \A d : d # c => (Room(P, d) <=> Room(O, d))
        BY <1>7 DEF Room
      <3>2. \A d \in free_chunks' : d \in Range(s) /\ Room(P, d)
        BY <1>7, <1>8, <2>1, <3>1 DEF Offers
      <3>3. ASSUME NEW i \in 1 .. Len(s), Room(P, s[i]) PROVE s[i] \in free_chunks' \/ i > j
        <4>1. CASE Room(O, s[i])
          BY <1>8, <2>1, <4>1 DEF Offers
        <4>2. CASE ~Room(O, s[i])
          <5>1. s[i] = c
            BY <3>1, <3>3, <4>2
          <5>2. QED  BY <1>7, <2>1, <4>2, <5>1
        <4>3. QED  BY <4>1, <4>2
      <3>4. QED  BY <3>2, <3>3 DEF Offers
    <2>4. Holds(s, f, j)'
      BY <1>1, <1>7, <1>8, <2>1, <2>3 DEF Holds
    <2>5. QED  BY <2>2, <2>4 DEF FInv
  <1>12. CASE whole
    <2>1. PICK k \in 1 .. Len(s) : s[k] = c
      BY <1>7, <1>10 DEF Shape
    <2> DEFINE L == {MP(c)} \cup F!Removed(m, c).logs
               t == Without(s, k)
               i == ScanLeft(j, k)
    <2>2. /\ pm' = F!Removed(m, c).pm /\ undo' = F!log(undo, pm, L)
          /\ free_chunks' = free_chunks \ {c}
          /\ last_chunk_scanned' = IF last_chunk_scanned = c THEN F!Before(pm, c) ELSE last_chunk_scanned
          /\ chunk_to_scan' = IF chunk_to_scan = c THEN pm[W(c)].to ELSE chunk_to_scan
      BY <1>5, <1>12
    <2>3. Dropped(F!Removed(m, c).pm, L, s, k, P)
      BY <1>6, <1>7, <1>9, <1>12, <2>1, DroppedFacts
    <2> HIDE DEF L
    <2>4. /\ \E g : Lists(pm', n, t, g, {})
          /\ Maps(pm', Range(t), P)
          /\ DOMAIN pm' = DOMAIN pm /\ L \subseteq DOMAIN pm
          /\ \A l \in DOMAIN pm : l \notin L => pm'[l] = pm[l]
      BY <2>2, <2>3 DEF Dropped
    <2>5. Phases' /\ Stored(F!rollback(undo', pm'), live')
      BY <1>1, <1>2, <2>2, <2>4, FreePhases
    <2>6. ScanAt(t, i, chunk_to_scan', last_chunk_scanned')
      BY <1>8, <2>1, <2>2, RemovedScan
    <2>7. Offers(free_chunks', t, i, P)
      <3>1. j \in 0 .. Len(s)
        BY <1>8 DEF ScanAt
      <3>2. \A d : d # s[k] => On(P, d) = On(O, d)
        BY <1>7, <2>1
      <3> HIDE DEF P
      <3>3. Offers(free_chunks \ {s[k]}, t, i, P)
        BY <1>8, <3>1, <3>2, RemovedOffers
      <3>4. QED  BY <2>1, <2>2, <3>3
    <2>8. PICK g : Lists(pm', n, t, g, {})
      BY <2>4
    <2> HIDE DEF t, i
    <2>9. Holds(t, g, i)'
      BY <1>1, <2>4, <2>6, <2>7, <2>8 DEF Holds
    <2>10. \E x, y, z : Holds(x, y, z)'
      BY <2>9
    <2>11. QED  BY <2>5, <2>10 DEF FInv
  <1>13. QED  BY <1>11, <1>12

\* Every step keeps the invariant.
LEMMA FNext == ~torn' /\ FInv /\ F!Next => FInv'
  <1> SUFFICES ASSUME ~torn', FInv, F!Next PROVE FInv'
    OBVIOUS
  <1>1. CASE F!begin
    BY <1>1, FBegin
  <1>2. CASE F!alloc
    BY <1>2, FAlloc
  <1>3. CASE F!delayed_free
    BY <1>3, FDelayed
  <1>4. CASE F!clean_one
    BY <1>4, FCleanOne
  <1>5. CASE F!clean_fails
    BY <1>5, FCleanFails
  <1>6. CASE F!commit
    BY <1>6, FCommit
  <1>7. CASE F!abort
    BY <1>7, FAbort
  <1>8. CASE F!restart
    BY <1>8, FRestart
  <1>9. QED  BY <1>1, <1>2, <1>3, <1>4, <1>5, <1>6, <1>7, <1>8 DEF F!Next

\* And so does a step that changes nothing.
LEMMA FStutter == FInv /\ UNCHANGED unit_vars => FInv'
  BY DEF FInv, Phases, Holds, F!InUse, unit_vars

-----------------------------------------------------------------------------
(***************************************************************************)
(* What holds whatever an exception has interrupted: a chunk may be taken  *)
(* and not listed, and the scan may stand anywhere in the list.            *)
(***************************************************************************)
\* The memory m lists s, has taken the chunks of C, and holds the objects O.
Keeps(m, s, C, O) ==
  /\ \E f, X : Lists(m, SmallChunks, s, f, X) /\ C = Range(s) \cup X
  /\ Maps(m, C, O)

\* What DRAM knows: O are the objects in use, P the committed ones.
Knows(s, C, D, O, P, fc, scan, last, fix) ==
  /\ scan \in Range(s) \cup {0} /\ last \in Range(s) \cup {0}
  /\ \A c \in fc : c \in C /\ Room(O, c)
  /\ DOMAIN fix \subseteq D
  /\ \A c \in DOMAIN fix : fix[c] \/ Room(P, c)
  /\ \A c : Room(O, c) => Room(P, c) \/ (c \in DOMAIN fix /\ fix[c])

\* s and C are what memory lists and what is taken; r and D would be after a
\* rollback.
WHolds(s, C, r, D) ==
  /\ Keeps(pm, s, C, F!InUse)
  /\ Keeps(F!rollback(undo, pm), r, D, live)
  /\ Range(s) \subseteq Range(r) /\ C \subseteq D
  /\ phase \in {"idle", "run"} => DOMAIN undo \subseteq {MP(c) : c \in C} /\ C = D /\ s = r
  /\ Knows(s, C, D, F!InUse, live, free_chunks, chunk_to_scan, last_chunk_scanned, to_fix)

WInv == Phases /\ \E s, C, r, D : WHolds(s, C, r, D)

\* What is listed is taken, from the pool.
LEMMA KeepsShape ==
  ASSUME NEW m, NEW s, NEW C, NEW O, Keeps(m, s, C, O)
  PROVE  /\ Range(s) \subseteq C /\ C \subseteq 1 .. SmallChunks
         /\ H \in DOMAIN m /\ ST \in DOMAIN m /\ \A c \in 1 .. SmallChunks : W(c) \in DOMAIN m
         /\ Maps(m, C, O)
  <1>1. PICK f, X : Lists(m, SmallChunks, s, f, X) /\ C = Range(s) \cup X
    BY DEF Keeps
  <1>2. SmallChunks \in Nat
    BY Bounds
  <1>3. Shape(m, SmallChunks, s, f, X)
    BY <1>1, <1>2, ListsShape
  <1>4. H \in DOMAIN m /\ ST \in DOMAIN m /\ \A c \in 1 .. SmallChunks : W(c) \in DOMAIN m
    BY <1>1, <1>2, ListsMemory
  <1>5. QED  BY <1>1, <1>3, <1>4 DEF Shape, Keeps

\* It depends on the lists and on the bitmaps.
LEMMA KeepsFrame ==
  ASSUME NEW m, NEW s, NEW C, NEW O, Keeps(m, s, C, O), \A c \in 1 .. SmallChunks : MP(c) \in DOMAIN m,
         NEW q, DOMAIN q = DOMAIN m, \A l \in DOMAIN m : q[l] = m[l]
  PROVE  Keeps(q, s, C, O)
  <1>1. PICK f, X : Lists(m, SmallChunks, s, f, X) /\ C = Range(s) \cup X
    BY DEF Keeps
  <1>2. /\ C \subseteq 1 .. SmallChunks /\ H \in DOMAIN m /\ ST \in DOMAIN m
        /\ \A c \in 1 .. SmallChunks : W(c) \in DOMAIN m
        /\ Maps(m, C, O)
    BY KeepsShape
  <1>3. Lists(q, SmallChunks, s, f, X)
    BY <1>1, <1>2, SameLists
  <1>4. Maps(q, C, O)
    BY <1>2, MapsFrame
  <1>5. QED  BY <1>1, <1>3, <1>4 DEF Keeps

\* A rollback that only concerns bitmaps keeps what is listed and taken.
LEMMA KeepsLists ==
  ASSUME NEW m, NEW s, NEW C, NEW O, Keeps(m, s, C, O), NEW u, NEW B, DOMAIN u \subseteq {MP(c) : c \in B},
         NEW P, Maps(F!rollback(u, m), C, P)
  PROVE  Keeps(F!rollback(u, m), s, C, P)
  <1>1. PICK f, X : Lists(m, SmallChunks, s, f, X) /\ C = Range(s) \cup X
    BY DEF Keeps
  <1>2. Lists(F!rollback(u, m), SmallChunks, s, f, X)
    BY <1>1, OnlyMaps
  <1>3. QED  BY <1>1, <1>2 DEF Keeps

\* What a memory lists and has taken.
LEMMA KeepsOne ==
  ASSUME NEW m, NEW s, NEW C, NEW O, Keeps(m, s, C, O)
  PROVE  /\ F!Listed(m) = s
         /\ C = {c \in 1 .. SmallChunks : c < m[H].tail /\ ~m[W(c)].free_bit}
  <1>1. PICK f, X : Lists(m, SmallChunks, s, f, X) /\ C = Range(s) \cup X
    BY DEF Keeps
  <1>2. F!Listed(m) = s
    BY <1>1, FromIs
  <1>3. Range(s) \cup X = {c \in 1 .. SmallChunks : c < m[H].tail /\ ~m[W(c)].free_bit}
    <2>1. SmallChunks \in Nat
      BY Bounds
    <2>2. QED  BY <1>1, <2>1, TakenIs
  <1>4. QED  BY <1>1, <1>2, <1>3

\* The empty journal changes nothing.
LEMMA KeepsIdle ==
  ASSUME NEW m, NEW s, NEW C, NEW O, Keeps(m, s, C, O), \A c \in 1 .. SmallChunks : MP(c) \in DOMAIN m
  PROVE  Keeps(F!rollback(F!Empty, m), s, C, O)
  <1> DEFINE q == F!rollback(F!Empty, m)
  <1>1. DOMAIN q = DOMAIN m /\ \A l \in DOMAIN m : q[l] = m[l]
    BY EmptyJournal, RollbackFacts
  <1> HIDE DEF q
  <1>2. Keeps(q, s, C, O)
    BY <1>1, KeepsFrame
  <1>3. QED  BY <1>2 DEF q

\* A transaction begins.
LEMMA WBegin == WInv /\ F!begin => WInv'
  <1> SUFFICES ASSUME WInv, F!begin PROVE WInv'
    OBVIOUS
  <1>1. /\ phase = "idle" /\ phase' = "run" /\ pm' = pm /\ undo' = undo
        /\ free_chunks' = free_chunks /\ chunk_to_scan' = chunk_to_scan
        /\ last_chunk_scanned' = last_chunk_scanned
        /\ to_fix' = to_fix /\ live' = live /\ got' = got /\ frees' = frees /\ freed' = freed
    BY DEF F!begin, F!dram
  <1>2. Phases'
    BY <1>1 DEF WInv, Phases
  <1>3. PICK s, C, r, D : WHolds(s, C, r, D)
    BY DEF WInv
  <1>4. F!InUse' = F!InUse
    BY <1>1 DEF F!InUse
  <1>5. WHolds(s, C, r, D)'
    BY <1>1, <1>3, <1>4 DEF WHolds
  <1>6. QED  BY <1>2, <1>5 DEF WInv

\* A client frees an object: only noted.
LEMMA WDelayed == WInv /\ F!delayed_free => WInv'
  <1> SUFFICES ASSUME WInv, F!delayed_free PROVE WInv'
    OBVIOUS
  <1>1. /\ phase = "run" /\ phase' = phase /\ pm' = pm /\ undo' = undo
        /\ free_chunks' = free_chunks /\ chunk_to_scan' = chunk_to_scan
        /\ last_chunk_scanned' = last_chunk_scanned
        /\ to_fix' = to_fix /\ live' = live /\ got' = got /\ freed' = freed
    BY DEF F!delayed_free, F!dram
  <1>2. PICK o \in (live \cup got) \ frees : frees' = frees \cup {o}
    BY DEF F!delayed_free
  <1>3. Phases'
    BY <1>1, <1>2 DEF WInv, Phases
  <1>4. PICK s, C, r, D : WHolds(s, C, r, D)
    BY DEF WInv
  <1>5. F!InUse' = F!InUse
    BY <1>1 DEF F!InUse
  <1>6. WHolds(s, C, r, D)'
    BY <1>1, <1>4, <1>5 DEF WHolds
  <1>7. QED  BY <1>3, <1>6 DEF WInv

\* The memory is as DRAM knows it when there is no open transaction.
LEMMA WIdle ==
  ASSUME phase' = "idle", undo' = F!Empty, to_fix' = F!Empty, got' = {}, frees' = {}, freed' = {},
         \A c \in 1 .. SmallChunks : MP(c) \in DOMAIN pm',
         NEW s, NEW C, Keeps(pm', s, C, live'),
         chunk_to_scan' \in Range(s) \cup {0}, last_chunk_scanned' \in Range(s) \cup {0},
         \A c \in free_chunks' : c \in C /\ Room(live', c)
  PROVE  WInv'
  <1>1. Phases'
    BY EmptyJournal DEF Phases
  <1>2. F!InUse' = live'
    BY DEF F!InUse
  <1>3. Keeps(F!rollback(undo', pm'), s, C, live')
    <2>1. PICK q : q = pm'
      OBVIOUS
    <2>2. Keeps(F!rollback(F!Empty, q), s, C, live')
      BY <2>1, KeepsIdle
    <2>3. QED  BY <2>1, <2>2
  <1>4. Knows(s, C, C, live', live', free_chunks', chunk_to_scan', last_chunk_scanned', to_fix')
    BY EmptyJournal DEF Knows
  <1>5. WHolds(s, C, s, C)'
    BY <1>2, <1>3, <1>4, EmptyJournal DEF WHolds
  <1>6. QED  BY <1>1, <1>5 DEF WInv

\* The commit is complete.
LEMMA WCommit == WInv /\ F!commit => WInv'
  <1> SUFFICES ASSUME WInv, F!commit PROVE WInv'
    OBVIOUS
  <1>1. /\ phase' = "idle" /\ pm' = pm /\ undo' = F!Empty
        /\ free_chunks' = free_chunks /\ chunk_to_scan' = chunk_to_scan
        /\ last_chunk_scanned' = last_chunk_scanned
        /\ to_fix' = F!Empty /\ got' = {} /\ frees' = {} /\ freed' = {}
        /\ live' = F!InUse
    BY DEF F!commit, F!Done, F!dram, F!InUse
  <1>2. PICK s, C, r, D : WHolds(s, C, r, D)
    BY DEF WInv
  <1>3. \A c \in 1 .. SmallChunks : MP(c) \in DOMAIN pm
    BY DEF WInv, Phases
  <1>4. /\ Keeps(pm', s, C, live')
        /\ chunk_to_scan' \in Range(s) \cup {0} /\ last_chunk_scanned' \in Range(s) \cup {0}
        /\ \A c \in free_chunks' : c \in C /\ Room(live', c)
    BY <1>1, <1>2 DEF WHolds, Knows
  <1>5. QED  BY <1>1, <1>3, <1>4, WIdle

\* Recovery rolls back the memory, and DRAM starts over.
LEMMA WRestart == WInv /\ F!restart => WInv'
  <1> SUFFICES ASSUME WInv, F!restart PROVE WInv'
    OBVIOUS
  <1> DEFINE q == F!rollback(undo, pm)
  <1>1. /\ phase' = "idle" /\ pm' = q /\ undo' = F!Empty
        /\ free_chunks' = {} /\ chunk_to_scan' = q[ST] /\ last_chunk_scanned' = 0
        /\ to_fix' = F!Empty /\ got' = {} /\ frees' = {} /\ freed' = {}
        /\ live' = live
    BY Bounds DEF F!restart, F!Done, F!Construct, ST
  <1>2. \A c \in 1 .. SmallChunks : MP(c) \in DOMAIN q
    BY RollbackFacts DEF WInv, Phases
  <1>3. PICK r, D : Keeps(q, r, D, live)
    BY DEF WInv, WHolds
  <1> HIDE DEF q
  <1>4. q[ST] \in Range(r) \cup {0}
    <2>1. PICK f, X : Lists(q, SmallChunks, r, f, X)
      BY <1>3 DEF Keeps
    <2>2. q[ST] = IF r = <<>> THEN 0 ELSE r[1]
      BY <2>1 DEF Lists, Chain
    <2>3. Shape(q, SmallChunks, r, f, X)
      BY <2>1, Bounds, ListsShape
    <2>4. r # <<>> => r[1] \in Range(r)
      BY <2>3 DEF Shape
    <2>5. QED  BY <2>2, <2>4
  <1>5. QED  BY <1>1, <1>2, <1>3, <1>4, WIdle

\* An object was taken from chunk c of the memory G.
WTook(G, s, C, c) ==
  /\ Keeps(pm', s, C, F!InUse')
  /\ DOMAIN pm' = DOMAIN G
  /\ F!rollback(undo', pm') = F!rollback(undo, G) /\ DOMAIN undo' = DOMAIN undo \cup {MP(c)}
  /\ F!InUse \subseteq F!InUse' /\ frees \subseteq live \cup got'
  /\ Room(F!InUse', c) <=> G[MP(c)].free_spots # 1
  /\ \A d : d # c => On(F!InUse', d) = On(F!InUse, d)

\* FixedChunk::alloc() sets a bit that was clear, of a chunk with room.
LEMMA TakeMemory ==
  ASSUME Phases, phase = "run", NEW G, NEW s, NEW C, Keeps(G, s, C, F!InUse), DOMAIN G = DOMAIN pm,
         NEW c \in C, Room(F!InUse, c), F!Take(G, c), live' = live, freed' = freed
  PROVE  WTook(G, s, C, c)
  <1> DEFINE O == F!InUse
             n == SmallChunks
             r == F!FixedChunk_alloc(G[MP(c)])
             o == <<c, r.spot>>
             q == [G EXCEPT ![MP(c)] = r.map]
  <1>1. PICK f, X : Lists(G, n, s, f, X) /\ C = Range(s) \cup X
    BY DEF Keeps
  <1>2. /\ C \subseteq 1 .. n /\ H \in DOMAIN G /\ ST \in DOMAIN G /\ (\A d \in 1 .. n : W(d) \in DOMAIN G)
        /\ Maps(G, C, O)
    BY KeepsShape
  <1>3. /\ \A d \in C : MP(d) \in DOMAIN G
        /\ DOMAIN undo \subseteq DOMAIN G /\ freed = {} /\ frees \subseteq live \cup got
    BY <1>2 DEF Phases
  <1>4. pm' = q /\ undo' = F!log(undo, G, {MP(c)}) /\ got' = got \cup {o}
    BY DEF F!Take, MP
  <1>5. /\ Maps(q, C, O \cup {o})
        /\ Room(O \cup {o}, c) <=> G[MP(c)].free_spots # 1
        /\ \A d : d # c => On(O \cup {o}, d) = On(O, d)
    <2>1. Maps(G, C, O) /\ Room(O, c) /\ c \in C /\ \A d \in C : MP(d) \in DOMAIN G
      BY <1>2, <1>3
    <2> HIDE DEF O
    <2>2. QED  BY <2>1, MapsTake
  <1> HIDE DEF r
  <1>6. F!InUse' = O \cup {o}
    BY <1>3, <1>4 DEF F!InUse
  <1>7. DOMAIN q = DOMAIN G /\ (\A l \in DOMAIN G : l # MP(c) => q[l] = G[l]) /\ MP(c) \in DOMAIN G
    BY <1>3
  <1> HIDE DEF q, O, o
  <1>8. F!rollback(undo', pm') = F!rollback(undo, G) /\ DOMAIN undo' = DOMAIN undo \cup {MP(c)}
    <2> DEFINE L == {MP(c)}
    <2>1. /\ L \subseteq DOMAIN G /\ DOMAIN undo \subseteq DOMAIN G
          /\ \A l \in DOMAIN G : l \notin L => q[l] = G[l]
      BY <1>3, <1>7
    <2> HIDE DEF L
    <2>2. Restores(undo, G, L, q)
      BY <1>7, <2>1, LogFacts
    <2>3. QED  BY <1>4, <2>2 DEF L, Restores
  <1>9. Lists(q, n, s, f, X)
    <2>1. q[H] = G[H] /\ q[ST] = G[ST] /\ \A d \in 1 .. n : q[W(d)] = G[W(d)]
      BY <1>2, <1>7, MapLocations
    <2>2. QED  BY <1>1, <1>7, <2>1, SameLists
  <1>10. Keeps(q, s, C, O \cup {o})
    BY <1>1, <1>5, <1>9 DEF Keeps
  <1>11. O \subseteq F!InUse' /\ frees \subseteq live \cup got'
    BY <1>3, <1>4, <1>6
  <1>12. QED  BY <1>4, <1>5, <1>6, <1>7, <1>8, <1>10, <1>11 DEF WTook, O

\* The journal and the objects after an allocation.
LEMMA TookPhases ==
  ASSUME Phases, phase = "run", phase' = phase, live' = live, frees' = frees, freed' = freed,
         NEW G, DOMAIN G = DOMAIN pm, NEW s, NEW C, NEW c \in 1 .. SmallChunks, WTook(G, s, C, c)
  PROVE  Phases'
  <1>1. MP(c) \in DOMAIN pm /\ DOMAIN pm' = DOMAIN pm
    BY DEF Phases, WTook
  <1>2. DOMAIN undo' \subseteq DOMAIN pm'
    BY <1>1 DEF Phases, WTook
  <1>3. QED  BY <1>1, <1>2 DEF Phases, WTook

\* The objects Q are O and some of chunk c.
GrowsAt(O, Q, c) == O \subseteq Q /\ \A d : d # c => On(Q, d) = On(O, d)

\* What DRAM knows after an allocation.
LEMMA TookKnows ==
  ASSUME NEW s, NEW C, NEW D, NEW O, NEW Q, NEW P, NEW fc, NEW scan, NEW last, NEW fix,
         Knows(s, C, D, O, P, fc, scan, last, fix), NEW c \in C, C \subseteq D, Room(P, c), GrowsAt(O, Q, c),
         NEW scan2 \in Range(s) \cup {0}, NEW last2 \in Range(s) \cup {0},
         NEW fc2, fc2 \subseteq fc \cup {c}, c \in fc2 => Room(Q, c),
         NEW fix2, fix2 = fix \/ fix2 = F!restore_dram_state(fix, {c}, FALSE)
  PROVE  Knows(s, C, D, Q, P, fc2, scan2, last2, fix2)
  <1>1. \A d : Room(Q, d) => Room(O, d)
    BY DEF Room, On, GrowsAt
  <1>2. \A d \in fc2 : d \in C /\ Room(Q, d)
    <2>1. ASSUME NEW d \in fc2, d # c PROVE d \in C /\ Room(Q, d)
      BY <2>1 DEF Knows, Room, GrowsAt
    <2>2. QED  BY <2>1
  <1>3. /\ DOMAIN fix \subseteq DOMAIN fix2 /\ DOMAIN fix2 \subseteq DOMAIN fix \cup {c}
        /\ \A d \in DOMAIN fix : fix2[d] = fix[d]
    <2>1. CASE fix2 = fix
      BY <2>1
    <2>2. CASE fix2 = F!restore_dram_state(fix, {c}, FALSE)
      <3> DEFINE x == F!restore_dram_state(fix, {c}, FALSE)
      <3>1. /\ DOMAIN x = DOMAIN fix \cup {c}
            /\ \A d \in DOMAIN fix : x[d] = fix[d]
            /\ c \notin DOMAIN fix => x[c] = FALSE
        BY FixFacts
      <3> HIDE DEF x
      <3>2. QED  BY <2>2, <3>1 DEF x
    <2>3. QED  BY <2>1, <2>2
  <1>4. \A d \in DOMAIN fix2 : fix2[d] \/ Room(P, d)
    BY <1>3 DEF Knows
  <1>5. \A d : Room(Q, d) => Room(P, d) \/ (d \in DOMAIN fix2 /\ fix2[d])
    BY <1>1, <1>3 DEF Knows
  <1>6. DOMAIN fix2 \subseteq D
    BY <1>3 DEF Knows
  <1>7. QED  BY <1>2, <1>4, <1>5, <1>6 DEF Knows

\* In a transaction that has not begun to free, a chunk with room had room at
\* the last commit.
LEMMA RoomBefore ==
  ASSUME Phases, phase = "run", NEW c, Room(F!InUse, c)
  PROVE  Room(live, c)
  BY DEF Phases, F!InUse, Room, On

\* alloc() from chunk c of the list, or of those that have left it.
LEMMA WTaken ==
  ASSUME WInv, phase = "run", phase' = phase, live' = live, frees' = frees, freed' = freed,
         NEW s, NEW C, WHolds(s, C, s, C), NEW c \in C, Room(F!InUse, c), F!Take(pm, c),
         chunk_to_scan' \in Range(s) \cup {0}, last_chunk_scanned' \in Range(s) \cup {0},
         free_chunks' \subseteq free_chunks \cup {c}, c \in free_chunks' => pm[MP(c)].free_spots # 1,
         to_fix' = to_fix \/ to_fix' = F!restore_dram_state(to_fix, {c}, FALSE)
  PROVE  WInv'
  <1>1. /\ Keeps(pm, s, C, F!InUse) /\ Keeps(F!rollback(undo, pm), s, C, live)
        /\ DOMAIN undo \subseteq {MP(d) : d \in C}
        /\ Knows(s, C, C, F!InUse, live, free_chunks, chunk_to_scan, last_chunk_scanned, to_fix)
    BY DEF WHolds
  <1>2. Phases /\ C \subseteq 1 .. SmallChunks
    BY <1>1, KeepsShape DEF WInv
  <1>3. WTook(pm, s, C, c)
    BY <1>1, <1>2, TakeMemory
  <1>4. Phases'
    BY <1>2, <1>3, TookPhases
  <1>5. Room(live, c)
    BY <1>2, RoomBefore
  <1>6. /\ Keeps(pm', s, C, F!InUse') /\ Keeps(F!rollback(undo', pm'), s, C, live')
        /\ DOMAIN undo' \subseteq {MP(d) : d \in C}
        /\ F!InUse \subseteq F!InUse' /\ (Room(F!InUse', c) <=> pm[MP(c)].free_spots # 1)
        /\ \A d : d # c => On(F!InUse', d) = On(F!InUse, d)
    BY <1>1, <1>3 DEF WTook
  <1>7. Knows(s, C, C, F!InUse', live', free_chunks', chunk_to_scan', last_chunk_scanned', to_fix')
    <2> DEFINE O == F!InUse
               Q == F!InUse'
    <2>1. PICK fc, scan, last, fix : /\ fc = free_chunks' /\ scan = chunk_to_scan'
                                     /\ last = last_chunk_scanned' /\ fix = to_fix'
      OBVIOUS
    <2>2. /\ Knows(s, C, C, O, live, free_chunks, chunk_to_scan, last_chunk_scanned, to_fix)
          /\ GrowsAt(O, Q, c) /\ (c \in fc => Room(Q, c))
      BY <1>1, <1>6, <2>1 DEF GrowsAt
    <2>3. /\ scan \in Range(s) \cup {0} /\ last \in Range(s) \cup {0} /\ fc \subseteq free_chunks \cup {c}
          /\ fix = to_fix \/ fix = F!restore_dram_state(to_fix, {c}, FALSE)
      BY <2>1
    <2> HIDE DEF O, Q
    <2>4. Knows(s, C, C, Q, live, fc, scan, last, fix)
      BY <1>5, <2>2, <2>3, TookKnows
    <2>5. QED  BY <1>6, <2>1, <2>4 DEF Q
  <1>8. WHolds(s, C, s, C)'
    BY <1>6, <1>7 DEF WHolds
  <1>9. QED  BY <1>4, <1>8 DEF WInv

\* What an allocation finds before it does anything.
LEMMA WRun ==
  ASSUME WInv, phase = "run"
  PROVE  \E s, C : WHolds(s, C, s, C)
  BY DEF WInv, WHolds

\* alloc() from a chunk known to have room.
LEMMA WAllocListed ==
  ASSUME WInv, phase = "run", phase' = phase, live' = live, frees' = frees, freed' = freed, F!alloc_listed
  PROVE  WInv'
  <1>1. PICK s, C : WHolds(s, C, s, C)
    BY WRun
  <1>2. PICK c \in free_chunks :
          /\ F!Take(pm, c)
          /\ to_fix' = IF pm[MP(c)].free_spots = 1 THEN F!restore_dram_state(to_fix, {c}, FALSE) ELSE to_fix
          /\ free_chunks' = IF pm[MP(c)].free_spots = 1 THEN free_chunks \ {c} ELSE free_chunks
          /\ chunk_to_scan' = chunk_to_scan /\ last_chunk_scanned' = last_chunk_scanned
    BY DEF F!alloc_listed, MP
  <1>3. /\ c \in C /\ Room(F!InUse, c)
        /\ chunk_to_scan' \in Range(s) \cup {0} /\ last_chunk_scanned' \in Range(s) \cup {0}
    BY <1>1, <1>2 DEF WHolds, Knows
  <1>4. free_chunks' \subseteq free_chunks \cup {c} /\ (c \in free_chunks' => pm[MP(c)].free_spots # 1)
    BY <1>2
  <1>5. to_fix' = to_fix \/ to_fix' = F!restore_dram_state(to_fix, {c}, FALSE)
    BY <1>2
  <1>6. QED  BY <1>1, <1>2, <1>3, <1>4, <1>5, WTaken

\* Where a scan that may start anywhere in the list ends.
Scans(s, O) ==
  \/ F!NoneHasRoom /\ F!LastScanned \in Range(s) \cup {0}
  \/ ~F!NoneHasRoom /\ F!LastScanned \in Range(s) /\ Room(O, F!LastScanned)

LEMMA WScan ==
  ASSUME NEW s, NEW C, NEW O, Keeps(pm, s, C, O),
         chunk_to_scan \in Range(s) \cup {0}, last_chunk_scanned \in Range(s) \cup {0}
  PROVE  Scans(s, O)
  <1>1. PICK f, X : Lists(pm, SmallChunks, s, f, X) /\ C = Range(s) \cup X
    BY DEF Keeps
  <1>2. Maps(pm, C, O) /\ Range(s) \subseteq C
    BY KeepsShape
  <1>3. Shape(pm, SmallChunks, s, f, X)
    BY <1>1, Bounds, ListsShape
  <1>4. /\ Len(s) \in Nat /\ (s = <<>> <=> Len(s) = 0)
        /\ \A i \in 1 .. Len(s) : s[i] \in Range(s)
        /\ \A x \in Range(s) : \E i \in 1 .. Len(s) : s[i] = x
    BY <1>3 DEF Shape
  <1>5. PICK j \in 0 .. Len(s) : chunk_to_scan = IF j < Len(s) THEN s[j + 1] ELSE 0
    <2>1. CASE chunk_to_scan = 0
      <3>1. Len(s) \in 0 .. Len(s) /\ ~(Len(s) < Len(s))
        BY <1>4
      <3>2. QED  BY <2>1, <3>1
    <2>2. CASE chunk_to_scan \in Range(s)
      <3>1. PICK i \in 1 .. Len(s) : s[i] = chunk_to_scan
        BY <1>4, <2>2
      <3>2. i - 1 \in 0 .. Len(s) /\ i - 1 < Len(s) /\ i - 1 + 1 = i
        BY <1>4, <3>1
      <3>3. QED  BY <3>1, <3>2
    <2>3. QED  BY <2>1, <2>2
  <1>6. \/ /\ F!NoneHasRoom
           /\ F!LastScanned = IF j < Len(s) THEN LastOf(s) ELSE last_chunk_scanned
           /\ \A i \in j + 1 .. Len(s) : ~Room(O, s[i])
        \/ /\ ~F!NoneHasRoom
           /\ \E k \in j + 1 .. Len(s) :
                /\ F!LastScanned = s[k] /\ Room(O, s[k])
                /\ \A i \in j + 1 .. k - 1 : ~Room(O, s[i])
    BY <1>1, <1>2, <1>5, ScanFrom
  <1>7. LastOf(s) \in Range(s) \cup {0}
    <2>1. s # <<>> => Len(s) \in 1 .. Len(s)
      BY <1>4
    <2>2. QED  BY <1>4, <2>1 DEF LastOf
  <1>8. \A k \in j + 1 .. Len(s) : k \in 1 .. Len(s)
    BY <1>4
  <1> DEFINE l == F!LastScanned
             z == F!NoneHasRoom
  <1>9. \/ z /\ (l = LastOf(s) \/ l = last_chunk_scanned)
        \/ ~z /\ \E k \in 1 .. Len(s) : l = s[k] /\ Room(O, s[k])
    BY <1>6, <1>8
  <1> HIDE DEF l, z
  <1>10. (z /\ l \in Range(s) \cup {0}) \/ (~z /\ l \in Range(s) /\ Room(O, l))
    BY <1>4, <1>7, <1>9
  <1>11. QED  BY <1>10 DEF Scans, l, z

\* The chunk behind one of the list.
LEMMA NextListed ==
  ASSUME NEW m, NEW s, NEW C, NEW O, Keeps(m, s, C, O), NEW c \in Range(s)
  PROVE  m[W(c)].to \in Range(s) \cup {0} /\ m[W(c)].to # c
  <1>1. PICK f, X : Lists(m, SmallChunks, s, f, X) /\ C = Range(s) \cup X
    BY DEF Keeps
  <1>2. Shape(m, SmallChunks, s, f, X)
    BY <1>1, Bounds, ListsShape
  <1>3. /\ Len(s) \in Nat
        /\ \A i \in 1 .. Len(s) : s[i] \in Range(s) /\ s[i] \in 1 .. SmallChunks
        /\ \A i, j \in 1 .. Len(s) : s[i] = s[j] => i = j
    BY <1>2 DEF Shape
  <1>4. PICK k \in 1 .. Len(s) : s[k] = c
    BY <1>2 DEF Shape
  <1>5. m[W(c)].to = IF k = Len(s) THEN 0 ELSE s[k + 1]
    BY <1>1, <1>4 DEF Lists, Chain
  <1>6. k # Len(s) => k + 1 \in 1 .. Len(s) /\ k + 1 # k
    BY <1>3, <1>4
  <1>7. c # 0
    BY <1>3, <1>4
  <1>8. QED  BY <1>3, <1>4, <1>5, <1>6, <1>7

\* alloc() from a chunk that the scan finds.
LEMMA WAllocScanned ==
  ASSUME WInv, phase = "run", phase' = phase, live' = live, frees' = frees, freed' = freed, F!alloc_scanned
  PROVE  WInv'
  <1>1. PICK s, C : WHolds(s, C, s, C)
    BY WRun
  <1>2. PICK c : c = F!LastScanned
    OBVIOUS
  <1>3. /\ F!Take(pm, c) /\ ~F!NoneHasRoom /\ free_chunks = {}
        /\ to_fix' = IF pm[MP(c)].free_spots - 1 = 0 THEN F!restore_dram_state(to_fix, {c}, FALSE) ELSE to_fix
        /\ free_chunks' = IF pm[MP(c)].free_spots - 1 > 0 THEN {c} ELSE {}
        /\ last_chunk_scanned' = c /\ chunk_to_scan' = pm[W(c)].to
    BY <1>2 DEF F!alloc_scanned, MP, W, F!Next_chunk
  <1>4. Keeps(pm, s, C, F!InUse) /\ Range(s) \subseteq C
    BY <1>1, KeepsShape DEF WHolds
  <1>5. c \in Range(s) /\ Room(F!InUse, c)
    <2>1. Scans(s, F!InUse)
      BY <1>1, WScan DEF WHolds, Knows
    <2>2. QED  BY <1>2, <1>3, <2>1 DEF Scans
  <1>6. chunk_to_scan' \in Range(s) \cup {0} /\ last_chunk_scanned' \in Range(s) \cup {0}
    BY <1>3, <1>4, <1>5, NextListed
  <1>7. free_chunks' \subseteq free_chunks \cup {c} /\ (c \in free_chunks' => pm[MP(c)].free_spots # 1)
    BY <1>3
  <1>8. to_fix' = to_fix \/ to_fix' = F!restore_dram_state(to_fix, {c}, FALSE)
    BY <1>3
  <1>9. c \in C
    BY <1>4, <1>5
  <1>10. QED  BY <1>1, <1>3, <1>5, <1>6, <1>7, <1>8, <1>9, WTaken

\* The memory G is pm with one more chunk, in a list that may have become shorter.
GrownFrom(G, C, c) ==
  /\ c \in 1 .. SmallChunks /\ c \notin C /\ DOMAIN G = DOMAIN pm
  /\ G[MP(c)] = F!FixedChunk /\ Room(F!InUse, c) /\ Room(live, c)
  /\ \E t : /\ c \in Range(t)
            /\ Keeps(G, t, C \cup {c}, F!InUse)
            /\ Keeps(F!rollback(undo, G), t, C \cup {c}, live)

\* The inner transaction of alloc().
LEMMA GrowMemory ==
  ASSUME WInv, NEW s, NEW C, WHolds(s, C, s, C), DOMAIN undo \subseteq {MP(d) : d \in C},
         F!MayGrow, F!LastScanned \in Range(s) \cup {0}
  PROVE  GrownFrom(F!Grown.pm, C, F!Grown.chunk)
  <1> DEFINE n == SmallChunks
             O == F!InUse
             last == F!LastScanned
             D == C \cup {F!Grown.chunk}
  <1>1. PICK G, c : G = F!Grown.pm /\ c = F!Grown.chunk
    OBVIOUS
  <1>2. c = F!fa_alloc(pm).obj /\ G = F!Appended(NewChunk(pm), last, c)
    BY <1>1 DEF F!Grown, NewChunk, W, MP
  <1>3. ~F!Exhausted(pm) /\ (pm[ST] = 0 \/ last # 0)
    BY Bounds DEF F!MayGrow, ST
  <1> HIDE DEF last
  <1>4. Keeps(pm, s, C, O) /\ Keeps(F!rollback(undo, pm), s, C, live)
    BY DEF WHolds
  <1>5. PICK f, X : Lists(pm, n, s, f, X) /\ C = Range(s) \cup X
    BY <1>4 DEF Keeps
  <1>6. \A d \in 1 .. n : MP(d) \in DOMAIN pm
    BY DEF WInv, Phases
  <1>7. Regrew(G, pm, n, C, c)
    <2>1. last \in Range(s) \cup {0}
      BY DEF last
    <2>2. Regrew(F!Appended(NewChunk(pm), last, F!fa_alloc(pm).obj), pm, n, Range(s) \cup X, F!fa_alloc(pm).obj)
      BY <1>3, <1>5, <1>6, <2>1, RegrewFacts
    <2>3. QED  BY <1>2, <1>5, <2>2
  <1>8. /\ c \in 1 .. n /\ c \notin C /\ G[MP(c)] = F!FixedChunk /\ DOMAIN G = DOMAIN pm
        /\ \A d : d # c /\ MP(d) \in DOMAIN pm => G[MP(d)] = pm[MP(d)]
    BY <1>7 DEF Regrew
  <1>9. PICK t, g, Y : Lists(G, n, t, g, Y) /\ c \in Range(t) /\ Range(t) \cup Y = D
    BY <1>1, <1>7 DEF Regrew
  <1>10. C \subseteq 1 .. n /\ Maps(pm, C, O) /\ Maps(F!rollback(undo, pm), C, live)
    BY <1>4, KeepsShape
  <1>11. \A d \in C : G[MP(d)] = pm[MP(d)] /\ MP(d) \in DOMAIN pm /\ MP(d) \in DOMAIN G
    BY <1>6, <1>8, <1>10
  <1>12. Maps(G, D, O) /\ On(O, c) = {}
    <2>1. OneMore(G, D, pm, C, c)
      BY <1>1, <1>8, <1>11 DEF OneMore
    <2> HIDE DEF O, D
    <2>2. QED  BY <1>10, <2>1, MapsGrow
  <1>13. Maps(F!rollback(undo, G), D, live) /\ On(live, c) = {}
    <2> DEFINE R == F!rollback(undo, pm)
               Q == F!rollback(undo, G)
    <2>1. MP(c) \notin DOMAIN undo
      BY <1>8, MapLocations
    <2>2. MP(c) \in DOMAIN G
      BY <1>6, <1>8
    <2>3. Q[MP(c)] = F!FixedChunk
      BY <1>8, <2>1, <2>2, RollbackFacts
    <2>4. \A d \in C : Q[MP(d)] = R[MP(d)]
      <3>1. \A d \in C : Q[MP(d)] = IF MP(d) \in DOMAIN undo THEN undo[MP(d)] ELSE G[MP(d)]
        BY <1>11, RollbackFacts
      <3>2. \A d \in C : R[MP(d)] = IF MP(d) \in DOMAIN undo THEN undo[MP(d)] ELSE pm[MP(d)]
        BY <1>11, RollbackFacts
      <3> HIDE DEF Q, R
      <3>3. QED  BY <1>11, <3>1, <3>2
    <2>5. Maps(R, C, live)
      BY <1>10
    <2> HIDE DEF R, Q
    <2>6. OneMore(Q, D, R, C, c)
      BY <1>1, <1>8, <2>3, <2>4 DEF OneMore
    <2> HIDE DEF D
    <2>7. Maps(Q, D, live) /\ On(live, c) = {}
      BY <2>5, <2>6, MapsGrow
    <2>8. QED  BY <2>7 DEF Q
  <1>14. Room(O, c) /\ Room(live, c)
    <2>1. SP # {}
      <3>1. MaxSpots \in Nat /\ MaxSpots # 0 /\ SP = 0 .. MaxSpots - 1
        BY Bounds DEF SP, F!Spots
      <3>2. 0 \in 0 .. MaxSpots - 1
        BY <3>1
      <3>3. QED  BY <3>1, <3>2
    <2>2. QED  BY <1>12, <1>13, <2>1 DEF Room
  <1>15. Keeps(G, t, D, O)
    BY <1>9, <1>12 DEF Keeps
  <1>16. Keeps(F!rollback(undo, G), t, D, live)
    BY <1>13, <1>15, KeepsLists
  <1>17. GrownFrom(G, C, c)
    BY <1>1, <1>8, <1>9, <1>14, <1>15, <1>16 DEF GrownFrom
  <1>18. QED  BY <1>1, <1>17

\* DRAM knows nothing of the chunks before the new one but where it is.
LEMMA GrownKnows ==
  ASSUME NEW s, NEW C, NEW O, NEW P, NEW scan, NEW last, NEW fix, Knows(s, C, C, O, P, {}, scan, last, fix),
         NEW t, NEW c \in Range(t)
  PROVE  Knows(t, C \cup {c}, C \cup {c}, O, P, {}, 0, c, fix)
  BY DEF Knows

\* alloc() with a new chunk.
LEMMA WGrown ==
  ASSUME WInv, phase = "run", phase' = phase, live' = live, frees' = frees, freed' = freed, to_fix' = to_fix,
         NEW s, NEW C, WHolds(s, C, s, C), free_chunks = {}, NEW G, NEW c, GrownFrom(G, C, c), F!Take(G, c),
         last_chunk_scanned' = c, free_chunks' = {c}, chunk_to_scan' = 0
  PROVE  WInv'
  <1> DEFINE D == C \cup {c}
             O == F!InUse
             Q == F!InUse'
  <1>1. /\ c \in 1 .. SmallChunks /\ DOMAIN G = DOMAIN pm
        /\ G[MP(c)] = F!FixedChunk /\ Room(O, c) /\ Room(live, c)
    BY DEF GrownFrom
  <1>2. PICK t : c \in Range(t) /\ Keeps(G, t, D, O) /\ Keeps(F!rollback(undo, G), t, D, live)
    BY DEF GrownFrom
  <1>3. Phases /\ c \in D
    BY DEF WInv
  <1> HIDE DEF D
  <1>4. WTook(G, t, D, c)
    BY <1>1, <1>2, <1>3, TakeMemory
  <1>5. Phases'
    BY <1>1, <1>3, <1>4, TookPhases
  <1>6. /\ Keeps(pm', t, D, Q) /\ Keeps(F!rollback(undo', pm'), t, D, live')
        /\ DOMAIN undo' = DOMAIN undo \cup {MP(c)}
        /\ GrowsAt(O, Q, c) /\ (Room(Q, c) <=> G[MP(c)].free_spots # 1)
    BY <1>2, <1>4 DEF WTook, GrowsAt
  <1>7. Room(Q, c)
    <2>1. MaxSpots # 1
      BY Bounds
    <2>2. QED  BY <1>1, <1>6, <2>1 DEF F!FixedChunk
  <1>8. DOMAIN undo' \subseteq {MP(d) : d \in D}
    <2>1. DOMAIN undo \subseteq {MP(d) : d \in C}
      BY DEF WHolds
    <2>2. QED  BY <1>6, <2>1 DEF D
  <1>9. Knows(t, D, D, Q, live', free_chunks', chunk_to_scan', last_chunk_scanned', to_fix')
    <2>1. PICK fc, scan, last, fix : /\ fc = free_chunks' /\ scan = chunk_to_scan'
                                     /\ last = last_chunk_scanned' /\ fix = to_fix'
      OBVIOUS
    <2>2. Knows(t, D, D, O, live, {}, 0, c, to_fix)
      <3>1. Knows(s, C, C, O, live, {}, chunk_to_scan, last_chunk_scanned, to_fix)
        BY DEF WHolds
      <3> HIDE DEF O
      <3>2. QED  BY <1>2, <3>1, GrownKnows DEF D
    <2>3. fc = {c} /\ scan = 0 /\ last = c /\ fix = to_fix
      BY <2>1
    <2> HIDE DEF O, Q
    <2>4. fc \subseteq {} \cup {c} /\ scan \in Range(t) \cup {0} /\ last \in Range(t) \cup {0}
      BY <1>2, <2>3
    <2>5. Knows(t, D, D, Q, live, fc, scan, last, fix)
      BY <1>1, <1>3, <1>6, <1>7, <2>2, <2>3, <2>4, TookKnows
    <2>6. QED  BY <2>1, <2>5
  <1>10. WHolds(t, D, t, D)'
    BY <1>6, <1>8, <1>9 DEF WHolds
  <1>11. QED  BY <1>5, <1>10 DEF WInv

\* The scan moves, and no more.
LEMMA WMoved ==
  ASSUME WInv, phase = "run", phase' = phase, live' = live, frees' = frees, freed' = freed, to_fix' = to_fix,
         pm' = pm, undo' = undo, free_chunks' = free_chunks, got' = got,
         NEW s, NEW C, WHolds(s, C, s, C),
         chunk_to_scan' \in Range(s) \cup {0}, last_chunk_scanned' \in Range(s) \cup {0}
  PROVE  WInv'
  <1>1. Phases'
    BY DEF WInv, Phases
  <1>2. F!InUse' = F!InUse
    BY DEF F!InUse
  <1>3. WHolds(s, C, s, C)'
    BY <1>2 DEF WHolds, Knows
  <1>4. QED  BY <1>1, <1>3 DEF WInv

\* The memory grows, and the allocation fails.
LEMMA WGrownOnly ==
  ASSUME WInv, phase = "run", phase' = phase, live' = live, frees' = frees, freed' = freed, to_fix' = to_fix,
         undo' = undo, free_chunks' = free_chunks, got' = got, free_chunks = {},
         NEW s, NEW C, WHolds(s, C, s, C), NEW c, GrownFrom(pm', C, c),
         chunk_to_scan' = 0, last_chunk_scanned' = c
  PROVE  WInv'
  <1> DEFINE D == C \cup {c}
             O == F!InUse
  <1>1. DOMAIN pm' = DOMAIN pm
    BY DEF GrownFrom
  <1>2. PICK t : c \in Range(t) /\ Keeps(pm', t, D, O) /\ Keeps(F!rollback(undo, pm'), t, D, live)
    BY DEF GrownFrom
  <1>3. Phases'
    BY <1>1 DEF WInv, Phases
  <1>4. F!InUse' = O
    BY DEF F!InUse
  <1>5. Knows(t, D, D, O, live, {}, 0, c, to_fix)
    <2>1. Knows(s, C, C, O, live, {}, chunk_to_scan, last_chunk_scanned, to_fix)
      BY DEF WHolds
    <2> HIDE DEF O
    <2>2. QED  BY <1>2, <2>1, GrownKnows
  <1>6. DOMAIN undo' \subseteq {MP(d) : d \in D}
    BY DEF WHolds
  <1>7. WHolds(t, D, t, D)'
    BY <1>2, <1>4, <1>5, <1>6 DEF WHolds
  <1>8. QED  BY <1>3, <1>7 DEF WInv

\* alloc().
LEMMA WAlloc == WInv /\ F!alloc => WInv'
  <1> SUFFICES ASSUME WInv, F!alloc PROVE WInv'
    OBVIOUS
  <1>1. phase = "run" /\ live' = live /\ frees' = frees /\ freed' = freed /\ phase' = phase
    BY DEF F!alloc
  <1>2. CASE F!alloc_listed
    BY <1>1, <1>2, WAllocListed
  <1>3. CASE F!alloc_scanned
    BY <1>1, <1>3, WAllocScanned
  <1>4. PICK s, C : WHolds(s, C, s, C)
    BY <1>1, WRun
  <1>5. Keeps(pm, s, C, F!InUse) /\ DOMAIN undo \subseteq {MP(d) : d \in C}
    BY <1>1, <1>4 DEF WHolds
  <1>6. Scans(s, F!InUse)
    BY <1>4, WScan DEF WHolds, Knows
  <1>7. PICK G, c : G = F!Grown.pm /\ c = F!Grown.chunk
    OBVIOUS
  <1>8. F!MayGrow => GrownFrom(G, C, c)
    <2>1. F!MayGrow => F!LastScanned \in Range(s) \cup {0}
      BY <1>6 DEF Scans, F!MayGrow
    <2>2. QED  BY <1>4, <1>5, <1>7, <2>1, GrowMemory
  <1>9. CASE F!alloc_grown
    <2>1. free_chunks = {} /\ F!NoneHasRoom /\ chunk_to_scan' = 0 /\ to_fix' = to_fix
      BY <1>9, Bounds DEF F!alloc_grown
    <2>2. CASE /\ F!MayGrow /\ F!Take(G, c)
               /\ last_chunk_scanned' = c /\ free_chunks' = {c}
      BY <1>1, <1>4, <1>8, <2>1, <2>2, WGrown
    <2>3. CASE last_chunk_scanned' = F!LastScanned /\ UNCHANGED <<pm, undo, free_chunks, got>>
      <3>1. F!LastScanned \in Range(s) \cup {0}
        BY <1>6, <2>1 DEF Scans
      <3>2. last_chunk_scanned' \in Range(s) \cup {0} /\ chunk_to_scan' \in Range(s) \cup {0}
        BY <2>1, <2>3, <3>1
      <3>3. pm' = pm /\ undo' = undo /\ free_chunks' = free_chunks /\ got' = got
        BY <2>3
      <3>4. QED  BY <1>1, <1>4, <2>1, <3>2, <3>3, WMoved
    <2>4. QED  BY <1>7, <1>9, <2>2, <2>3 DEF F!alloc_grown
  <1>10. CASE F!alloc_fails
    <2>1. free_chunks = {} /\ undo' = undo /\ free_chunks' = free_chunks /\ got' = got /\ to_fix' = to_fix
      BY <1>10 DEF F!alloc_fails
    <2>2. CASE /\ ~F!NoneHasRoom /\ last_chunk_scanned' = F!LastScanned
               /\ chunk_to_scan' = F!Next_chunk(pm, F!LastScanned) /\ pm' = pm
      <3>1. PICK d : d = F!LastScanned
        OBVIOUS
      <3>2. d \in Range(s)
        BY <1>6, <2>2, <3>1 DEF Scans
      <3>3. last_chunk_scanned' = d /\ chunk_to_scan' = pm[W(d)].to
        BY <2>2, <3>1 DEF F!Next_chunk, W
      <3>4. last_chunk_scanned' \in Range(s) \cup {0} /\ chunk_to_scan' \in Range(s) \cup {0}
        BY <1>5, <3>2, <3>3, NextListed
      <3>5. QED  BY <1>1, <1>4, <2>1, <2>2, <3>4, WMoved
    <2>3. CASE F!MayGrow /\ pm' = G /\ last_chunk_scanned' = c /\ chunk_to_scan' = 0
      <3>1. GrownFrom(pm', C, c)
        BY <1>8, <2>3
      <3>2. QED  BY <1>1, <1>4, <2>1, <2>3, <3>1, WGrownOnly
    <2>4. QED  BY <1>7, <1>10, <2>2, <2>3, Bounds DEF F!alloc_fails
  <1>11. QED  BY <1>2, <1>3, <1>9, <1>10 DEF F!alloc

\* The bitmap of chunk c has lost an object; Q are those that are left.
Loose(m, s, C, c, O, Q) ==
  /\ Keeps(m, s, C, Q) /\ c \in C /\ Room(Q, c)
  /\ m[MP(c)].free_spots = MaxSpots <=> On(Q, c) = {}
  /\ pm[MP(c)].free_spots = 0 <=> ~Room(O, c)
  /\ On(Q, c) = {} => Room(O, c)
  /\ \A d : d # c => On(Q, d) = On(O, d)
  /\ DOMAIN m = DOMAIN pm /\ MP(c) \in DOMAIN pm
  /\ \A l \in DOMAIN pm : l # MP(c) => m[l] = pm[l]

\* FixedChunk::free() clears one bit of one chunk.
LEMMA WFreeMemory ==
  ASSUME WInv, NEW s, NEW C, Keeps(pm, s, C, F!InUse), NEW o \in frees \ freed,
         live' = live, got' = got, freed' = freed \cup {o}
  PROVE  Loose(Fixed(o), s, C, o[1], F!InUse, F!InUse')
  <1> DEFINE O == F!InUse
             Q == F!InUse'
             c == o[1]
             q == Fixed(o)
             n == SmallChunks
  <1>1. o \in O /\ Q = O \ {o}
    <2>1. frees \subseteq live \cup got
      BY DEF WInv, Phases
    <2>2. QED  BY <2>1 DEF F!InUse
  <1>2. PICK f, X : Lists(pm, n, s, f, X) /\ C = Range(s) \cup X
    BY DEF Keeps
  <1>3. /\ C \subseteq 1 .. n /\ H \in DOMAIN pm /\ ST \in DOMAIN pm
        /\ (\A d \in 1 .. n : W(d) \in DOMAIN pm) /\ Maps(pm, C, O)
    BY KeepsShape
  <1>4. \A d \in C : MP(d) \in DOMAIN pm
    BY <1>3 DEF WInv, Phases
  <1>5. /\ Maps(q, C, O \ {o})
        /\ c \in C
        /\ Room(O \ {o}, c)
        /\ q[MP(c)].free_spots = MaxSpots <=> On(O \ {o}, c) = {}
        /\ pm[MP(c)].free_spots = 0 <=> ~Room(O, c)
        /\ \A d : d # c => On(O \ {o}, d) = On(O, d)
    <2> HIDE DEF O
    <2>1. QED  BY <1>1, <1>3, <1>4, MapsFree DEF Fixed
  <1>6. DOMAIN q = DOMAIN pm /\ MP(c) \in DOMAIN pm /\ \A l \in DOMAIN pm : l # MP(c) => q[l] = pm[l]
    BY <1>4, <1>5 DEF Fixed
  <1>7. Lists(q, n, s, f, X)
    <2> HIDE DEF q, c
    <2>1. q[H] = pm[H] /\ q[ST] = pm[ST] /\ \A d \in 1 .. n : q[W(d)] = pm[W(d)]
      BY <1>3, <1>6, MapLocations
    <2>2. QED  BY <1>2, <1>6, <2>1, SameLists
  <1>8. On(O \ {o}, c) = {} => Room(O, c)
    <2>1. SUFFICES ASSUME On(O \ {o}, c) = {}, On(O, c) = SP PROVE FALSE
      BY DEF Room
    <2>2. MaxSpots \in Nat /\ MaxSpots # 0 /\ MaxSpots # 1 /\ SP = 0 .. MaxSpots - 1
      BY Bounds DEF SP, F!Spots
    <2>3. 0 \in SP /\ 1 \in SP
      BY <2>2
    <2>4. <<c, 0>> \in O /\ <<c, 1>> \in O
      BY <2>1, <2>3 DEF On
    <2>5. <<c, 0>> = o /\ <<c, 1>> = o
      <3> HIDE DEF c, O
      <3>1. QED  BY <2>1, <2>3, <2>4 DEF On
    <2>6. <<c, 0>>[2] = 0 /\ <<c, 1>>[2] = 1
      OBVIOUS
    <2> HIDE DEF c
    <2>7. QED  BY <2>5, <2>6
  <1> HIDE DEF O, Q, c, q
  <1>9. Keeps(q, s, C, Q)
    BY <1>1, <1>2, <1>5, <1>7 DEF Keeps
  <1>10. Loose(q, s, C, c, O, Q)
    BY <1>1, <1>5, <1>6, <1>8, <1>9 DEF Loose
  <1>11. QED  BY <1>10 DEF q, c, O, Q

\* The memory r.pm no longer lists chunk c; the chunks of B are taken.
Leaves(r, m, s, c, B, O) ==
  /\ \E t : Keeps(r.pm, t, B, O) /\ Range(t) = Range(s) \ {c}
  /\ DOMAIN r.pm = DOMAIN m
  /\ r.logs \subseteq {H, ST} \cup {W(d) : d \in 1 .. SmallChunks}
  /\ \A l \in DOMAIN m : l \notin r.logs => r.pm[l] = m[l]

\* The bitmaps are the same when only the list has changed.
LEMMA LeftMaps ==
  ASSUME NEW m, NEW C, NEW O, Maps(m, C, O), \A d \in C : MP(d) \in DOMAIN m,
         NEW q, NEW L, L \subseteq {H, ST} \cup {W(d) : d \in 1 .. SmallChunks},
         \A l \in DOMAIN m : l \notin L => q[l] = m[l]
  PROVE  Maps(q, C, O)
  <1>1. \A d \in C : MP(d) \notin L
    BY MapLocations
  <1>2. \A d \in C : q[MP(d)] = m[MP(d)]
    BY <1>1
  <1>3. QED  BY <1>2, MapsFrame

\* An empty chunk is not needed for what the bitmaps hold.
LEMMA MapsWithout ==
  ASSUME NEW m, NEW C, NEW O, Maps(m, C, O), NEW c, On(O, c) = {}
  PROVE  Maps(m, C \ {c}, O)
  <1>1. ASSUME NEW x \in O, x[1] = c PROVE FALSE
    <2>1. x[2] \in SP /\ x = <<x[1], x[2]>>
      BY DEF Maps
    <2>2. x[2] \in On(O, c)
      BY <1>1, <2>1 DEF On
    <2>3. QED  BY <2>2
  <1>2. QED  BY <1>1 DEF Maps

\* free() before the chunk is back in the pool.
LEMMA UnlinkedLeaves ==
  ASSUME NEW m, NEW s, NEW C, NEW O, Keeps(m, s, C, O), NEW c \in C, \A d \in C : MP(d) \in DOMAIN m
  PROVE  Leaves(F!Unlinked(m, c), m, s, c, C, O)
  <1> DEFINE n == SmallChunks
             u == F!Unlinked(m, c)
  <1>1. PICK f, X : Lists(m, n, s, f, X) /\ C = Range(s) \cup X
    BY DEF Keeps
  <1>2. C \subseteq 1 .. n /\ Maps(m, C, O) /\ n \in Nat
    BY KeepsShape, Bounds
  <1>3. CASE c \in Range(s)
    <2>1. PICK k \in 1 .. Len(s) : s[k] = c
      <3>1. Shape(m, n, s, f, X)
        BY <1>1, <1>2, ListsShape
      <3>2. QED  BY <1>3, <3>1 DEF Shape
    <2>2. Unlinks(u, m, s, k)
      BY <1>1, <2>1, UnlinkedIs
    <2> DEFINE t == Without(s, k)
    <2>3. Lists(Unlink(m, s, k), n, t, f, X \cup {s[k]})
      BY <1>1, <1>2, UnlinkFacts
    <2>4. Range(t) = Range(s) \ {c}
      <3>1. s \in Seq(1 .. n) /\ IsInjective(s)
        BY <1>1 DEF Lists
      <3>2. QED  BY <2>1, <3>1, WithoutFacts
    <2> HIDE DEF t, u
    <2>5. /\ u.pm = Unlink(m, s, k) /\ u.logs = {W(c), LinkTo(s, k)}
          /\ LinkTo(s, k) \in {H, ST} \cup {W(d) : d \in 1 .. n}
          /\ DOMAIN u.pm = DOMAIN m /\ \A l \in DOMAIN m : l # LinkTo(s, k) => u.pm[l] = m[l]
      BY <2>1, <2>2 DEF Unlinks
    <2>6. u.logs \subseteq {H, ST} \cup {W(d) : d \in 1 .. n} /\ \A l \in DOMAIN m : l \notin u.logs => u.pm[l] = m[l]
      BY <1>2, <2>5
    <2>7. Maps(u.pm, C, O)
      BY <1>2, <2>6, LeftMaps
    <2>8. Lists(u.pm, n, t, f, X \cup {c}) /\ C = Range(t) \cup (X \cup {c})
      BY <1>1, <1>3, <2>1, <2>3, <2>4, <2>5
    <2>9. Keeps(u.pm, t, C, O)
      BY <2>7, <2>8 DEF Keeps
    <2>10. Leaves(u, m, s, c, C, O)
      BY <2>4, <2>5, <2>6, <2>9 DEF Leaves
    <2>11. QED  BY <2>10 DEF u
  <1>4. CASE c \notin Range(s)
    <2>1. F!Listed(m) = s
      BY KeepsOne
    <2>2. c \notin F!Range(F!Listed(m))
      BY <1>4, <2>1 DEF F!Range, Range
    <2>3. u.pm = m /\ u.logs = {W(c)}
      BY <2>2 DEF F!Unlinked, W
    <2>4. Range(s) = Range(s) \ {c}
      BY <1>4
    <2> HIDE DEF u
    <2>5. Leaves(u, m, s, c, C, O)
      BY <1>2, <2>3, <2>4 DEF Leaves
    <2>6. QED  BY <2>5 DEF u
  <1>5. QED  BY <1>3, <1>4

\* free() of a chunk that became empty.
LEMMA RemovedLeaves ==
  ASSUME NEW m, NEW s, NEW C, NEW O, Keeps(m, s, C, O), NEW c \in C, \A d \in C : MP(d) \in DOMAIN m,
         On(O, c) = {}
  PROVE  Leaves(F!Removed(m, c), m, s, c, C \ {c}, O)
  <1> DEFINE n == SmallChunks
             r == F!Removed(m, c)
             B == C \ {c}
  <1>1. PICK f, X : Lists(m, n, s, f, X) /\ C = Range(s) \cup X
    BY DEF Keeps
  <1>2. C \subseteq 1 .. n /\ Maps(m, C, O) /\ n \in Nat
    BY KeepsShape, Bounds
  <1>3. Maps(m, B, O) /\ \A d \in B : MP(d) \in DOMAIN m
    BY <1>2, MapsWithout
  <1>4. CASE c \in Range(s)
    <2>1. PICK k \in 1 .. Len(s) : s[k] = c
      <3>1. Shape(m, n, s, f, X)
        BY <1>1, <1>2, ListsShape
      <3>2. QED  BY <1>4, <3>1 DEF Shape
    <2>2. LeftList(r, m, s, X, k)
      BY <1>1, <2>1, RemovedFacts
    <2> DEFINE t == Without(s, k)
    <2>3. Range(t) = Range(s) \ {c}
      <3>1. s \in Seq(1 .. n) /\ IsInjective(s)
        BY <1>1 DEF Lists
      <3>2. QED  BY <2>1, <3>1, WithoutFacts
    <2>4. c \notin X
      BY <1>1, <1>4 DEF Lists
    <2> HIDE DEF t, r
    <2>5. /\ \E g : Lists(r.pm, n, t, g, X)
          /\ DOMAIN r.pm = DOMAIN m
          /\ r.logs \subseteq {H, ST} \cup {W(d) : d \in 1 .. n}
          /\ \A l \in DOMAIN m : l \notin r.logs => r.pm[l] = m[l]
      BY <2>2 DEF LeftList, t
    <2>6. Range(t) \cup X = B
      BY <1>1, <2>3, <2>4
    <2> HIDE DEF B
    <2>7. Maps(r.pm, B, O)
      BY <1>3, <2>5, LeftMaps
    <2>8. Keeps(r.pm, t, B, O)
      BY <2>5, <2>6, <2>7 DEF Keeps
    <2>9. Leaves(r, m, s, c, B, O)
      BY <2>3, <2>5, <2>8 DEF Leaves
    <2>10. QED  BY <2>9 DEF r, B
  <1>5. CASE c \notin Range(s)
    <2>1. F!Listed(m) = s
      BY KeepsOne
    <2>2. c \notin F!Range(F!Listed(m))
      BY <1>5, <2>1 DEF F!Range, Range
    <2>3. F!Unlinked(m, c).pm = m /\ F!Unlinked(m, c).logs = {W(c)}
      BY <2>2 DEF F!Unlinked, W
    <2> DEFINE q == F!fa_free(m, c).pm
    <2>4. r.pm = q /\ r.logs = {H, W(c)}
      <3>1. r = [pm |-> F!fa_free(F!Unlinked(m, c).pm, c).pm,
                 logs |-> F!fa_free(F!Unlinked(m, c).pm, c).logs \cup F!Unlinked(m, c).logs]
        BY DEF F!Removed
      <3>2. F!fa_free(m, c).logs = {H}
        BY DEF F!fa_free, H
      <3>3. QED  BY <2>3, <3>1, <3>2
    <2> HIDE DEF q, r
    <2>5. /\ \E g : Lists(q, n, s, g, X \ {c})
          /\ DOMAIN q = DOMAIN m
          /\ \A l \in DOMAIN m : l \notin {H, W(c)} => q[l] = m[l]
      <3>1. c \in X
        BY <1>1, <1>5
      <3>2. GivenBack(q, m, n, s, X, c)
        BY <1>1, <1>2, <3>1, FreeFacts DEF q
      <3>3. QED  BY <3>2 DEF GivenBack
    <2>6. B = Range(s) \cup (X \ {c}) /\ Range(s) = Range(s) \ {c}
      BY <1>1, <1>5
    <2>7. r.logs \subseteq {H, ST} \cup {W(d) : d \in 1 .. n} /\ \A l \in DOMAIN m : l \notin r.logs => r.pm[l] = m[l]
      BY <1>2, <2>4, <2>5
    <2> HIDE DEF B
    <2>8. Maps(r.pm, B, O)
      BY <1>3, <2>7, LeftMaps
    <2>9. Keeps(r.pm, s, B, O)
      BY <2>4, <2>5, <2>6, <2>8 DEF Keeps
    <2>10. Leaves(r, m, s, c, B, O)
      BY <2>4, <2>5, <2>6, <2>7, <2>9 DEF Leaves
    <2>11. QED  BY <2>10 DEF r, B
  <1>6. QED  BY <1>4, <1>5

\* The scan leaves out a chunk that leaves the list.
LEMMA ForgetFacts ==
  ASSUME NEW s, NEW C, NEW O, Keeps(pm, s, C, O), NEW c \in C, F!Forget(c),
         chunk_to_scan \in Range(s) \cup {0}, last_chunk_scanned \in Range(s) \cup {0}
  PROVE  /\ chunk_to_scan' \in (Range(s) \ {c}) \cup {0}
         /\ last_chunk_scanned' \in (Range(s) \ {c}) \cup {0}
  <1>1. PICK f, X : Lists(pm, SmallChunks, s, f, X) /\ C = Range(s) \cup X
    BY DEF Keeps
  <1>2. Shape(pm, SmallChunks, s, f, X)
    BY <1>1, Bounds, ListsShape
  <1>3. c # 0
    BY KeepsShape
  <1>4. /\ last_chunk_scanned' = IF last_chunk_scanned = c THEN F!Before(pm, c) ELSE last_chunk_scanned
        /\ chunk_to_scan' = IF chunk_to_scan = c THEN pm[W(c)].to ELSE chunk_to_scan
    BY DEF F!Forget, F!Next_chunk, W
  <1>5. chunk_to_scan' \in (Range(s) \ {c}) \cup {0}
    <2>1. CASE chunk_to_scan = c
      <3>1. c \in Range(s)
        BY <1>3, <2>1
      <3>2. QED  BY <1>4, <2>1, <3>1, NextListed
    <2>2. CASE chunk_to_scan # c
      BY <1>4, <2>2
    <2>3. QED  BY <2>1, <2>2
  <1>6. last_chunk_scanned' \in (Range(s) \ {c}) \cup {0}
    <2>1. CASE last_chunk_scanned = c
      <3>1. c \in Range(s)
        BY <1>3, <2>1
      <3>2. PICK k \in 1 .. Len(s) : s[k] = c
        BY <1>2, <3>1 DEF Shape
      <3>3. F!Before(pm, c) = IF k = 1 THEN 0 ELSE s[k - 1]
        BY <1>1, <3>2, BeforeIs
      <3>4. k # 1 => k - 1 \in 1 .. Len(s) /\ k - 1 # k
        BY <1>2, <3>2 DEF Shape
      <3>5. k # 1 => s[k - 1] \in Range(s) /\ s[k - 1] # c
        BY <1>2, <3>2, <3>4 DEF Shape
      <3>6. QED  BY <1>4, <2>1, <3>3, <3>5
    <2>2. CASE last_chunk_scanned # c
      BY <1>4, <2>2
    <2>3. QED  BY <2>1, <2>2
  <1>7. QED  BY <1>5, <1>6

\* The journal and the objects, after an object was freed.
LEMMA WFreePhases ==
  ASSUME Phases, NEW o \in frees \ freed, live' = live, got' = got, frees' = frees, freed' = freed \cup {o},
         phase' \in {"commit", "failed"}, NEW L, L \subseteq DOMAIN pm,
         undo' = F!log(undo, pm, L), DOMAIN pm' = DOMAIN pm,
         \A l \in DOMAIN pm : l \notin L => pm'[l] = pm[l]
  PROVE  Phases' /\ F!rollback(undo', pm') = F!rollback(undo, pm)
  <1>1. DOMAIN undo \subseteq DOMAIN pm
    BY DEF Phases
  <1>2. PICK q : q = pm'
    OBVIOUS
  <1>3. Restores(undo, pm, L, q)
    BY <1>1, <1>2, LogFacts
  <1>4. F!rollback(undo', pm') = F!rollback(undo, pm) /\ DOMAIN undo' = DOMAIN undo \cup L
    BY <1>2, <1>3 DEF Restores
  <1>5. Phases'
    <2>1. DOMAIN undo' \subseteq DOMAIN pm'
      BY <1>1, <1>4
    <2>2. freed' \subseteq frees' /\ frees' \subseteq live' \cup got'
      BY DEF Phases
    <2>3. \A d \in 1 .. SmallChunks : MP(d) \in DOMAIN pm'
      BY DEF Phases
    <2>4. QED  BY <2>1, <2>2, <2>3 DEF Phases
  <1>6. QED  BY <1>4, <1>5

\* What DRAM knows when a chunk has lost an object and stays.
LEMMA StaysKnows ==
  ASSUME NEW s, NEW C, NEW D, NEW O, NEW Q, NEW P, NEW fc, NEW scan, NEW last, NEW fix,
         Knows(s, C, D, O, P, fc, scan, last, fix), NEW c \in C, C \subseteq D, Room(Q, c),
         \A d : d # c => On(Q, d) = On(O, d),
         NEW fc2, fc2 \subseteq fc \cup {c},
         NEW fix2, fix2 = IF Room(O, c) THEN fix ELSE F!restore_dram_state(fix, {c}, TRUE)
  PROVE  Knows(s, C, D, Q, P, fc2, scan, last, fix2)
  <1>1. \A d : d # c => (Room(Q, d) <=> Room(O, d))
    BY DEF Room
  <1>2. \A d \in fc2 : d \in C /\ Room(Q, d)
    BY <1>1 DEF Knows
  <1>3. /\ DOMAIN fix \subseteq DOMAIN fix2 /\ DOMAIN fix2 \subseteq DOMAIN fix \cup {c}
        /\ \A d \in DOMAIN fix : fix2[d] = fix[d]
        /\ ~Room(O, c) => c \in DOMAIN fix2 /\ (c \notin DOMAIN fix => fix2[c])
        /\ Room(O, c) => fix2 = fix
    <2>1. CASE Room(O, c)
      BY <2>1
    <2>2. CASE ~Room(O, c)
      <3> DEFINE x == F!restore_dram_state(fix, {c}, TRUE)
      <3>1. /\ DOMAIN x = DOMAIN fix \cup {c}
            /\ \A d \in DOMAIN fix : x[d] = fix[d]
            /\ c \notin DOMAIN fix => x[c] = TRUE
        BY FixFacts
      <3>2. fix2 = x
        BY <2>2
      <3> HIDE DEF x
      <3>3. QED  BY <2>2, <3>1, <3>2
    <2>3. QED  BY <2>1, <2>2
  <1>4. \A d \in DOMAIN fix2 : fix2[d] \/ Room(P, d)
    BY <1>3 DEF Knows
  <1>5. \A d : Room(Q, d) => Room(P, d) \/ (d \in DOMAIN fix2 /\ fix2[d])
    <2>1. ASSUME NEW d, Room(Q, d) PROVE Room(P, d) \/ (d \in DOMAIN fix2 /\ fix2[d])
      <3>1. CASE Room(O, d)
        BY <1>3, <3>1 DEF Knows
      <3>2. CASE ~Room(O, d)
        <4>1. d = c
          BY <1>1, <2>1, <3>2
        <4>2. QED  BY <1>3, <1>4, <3>2, <4>1
      <3>3. QED  BY <3>1, <3>2
    <2>2. QED  BY <2>1
  <1>6. DOMAIN fix2 \subseteq D
    BY <1>3 DEF Knows
  <1>7. QED  BY <1>2, <1>4, <1>5, <1>6 DEF Knows

\* And when the chunk leaves the list, or was to leave it.
LEMMA LeavesKnows ==
  ASSUME NEW s, NEW C, NEW D, NEW O, NEW Q, NEW P, NEW fc, NEW scan, NEW last, NEW fix,
         Knows(s, C, D, O, P, fc, scan, last, fix), NEW c \in C, C \subseteq D, Room(O, c),
         \A d : d # c => On(Q, d) = On(O, d),
         NEW t, NEW scan2 \in Range(t) \cup {0}, NEW last2 \in Range(t) \cup {0},
         NEW fc2, fc2 = fc \ {c}, NEW fix2, fix2 = F!restore_dram_state(fix, {c}, FALSE)
  PROVE  Knows(t, C, D, Q, P, fc2, scan2, last2, fix2)
  <1>1. \A d : d # c => (Room(Q, d) <=> Room(O, d))
    BY DEF Room
  <1>2. \A d \in fc2 : d \in C /\ Room(Q, d)
    BY <1>1 DEF Knows
  <1>3. /\ DOMAIN fix2 = DOMAIN fix \cup {c}
        /\ \A d \in DOMAIN fix : fix2[d] = fix[d]
    <2> DEFINE x == F!restore_dram_state(fix, {c}, FALSE)
    <2>1. /\ DOMAIN x = DOMAIN fix \cup {c}
          /\ \A d \in DOMAIN fix : x[d] = fix[d]
          /\ c \notin DOMAIN fix => x[c] = FALSE
      BY FixFacts
    <2> HIDE DEF x
    <2>2. QED  BY <2>1 DEF x
  <1>4. Room(P, c) \/ (c \in DOMAIN fix /\ fix[c])
    BY DEF Knows
  <1>5. \A d \in DOMAIN fix2 : fix2[d] \/ Room(P, d)
    BY <1>3, <1>4 DEF Knows
  <1>6. \A d : Room(Q, d) => Room(P, d) \/ (d \in DOMAIN fix2 /\ fix2[d])
    <2>1. ASSUME NEW d, Room(Q, d) PROVE Room(P, d) \/ (d \in DOMAIN fix2 /\ fix2[d])
      <3>1. Room(O, d)
        BY <1>1, <2>1
      <3>2. QED  BY <1>3, <3>1 DEF Knows
    <2>2. QED  BY <2>1
  <1>7. DOMAIN fix2 \subseteq D
    BY <1>3 DEF Knows
  <1>8. QED  BY <1>2, <1>5, <1>6, <1>7 DEF Knows

\* free() at commit: the chunk stays, or leaves as it became empty.
LEMMA WCleanOne == WInv /\ F!clean_one => WInv'
  <1> SUFFICES ASSUME WInv, F!clean_one PROVE WInv'
    OBVIOUS
  <1>1. phase' = "commit" /\ live' = live /\ got' = got /\ frees' = frees
    BY DEF F!clean_one
  <1>2. PICK o \in frees \ freed : F!free(o) /\ freed' = freed \cup {o}
    BY DEF F!clean_one
  <1>3. PICK s, C, r, D : WHolds(s, C, r, D)
    BY DEF WInv
  <1>4. PICK c, m : c = o[1] /\ m = Fixed(o)
    OBVIOUS
  <1> DEFINE O == F!InUse
             Q == F!InUse'
             whole == m[MP(c)].free_spots = MaxSpots
             was == pm[MP(c)].free_spots = 0
  <1>5. /\ pm' = IF whole THEN F!Removed(m, c).pm ELSE m
        /\ undo' = F!log(undo, pm, {MP(c)} \cup IF whole THEN F!Removed(m, c).logs ELSE {})
        /\ to_fix' = IF whole \/ was THEN F!restore_dram_state(to_fix, {c}, ~whole) ELSE to_fix
        /\ free_chunks' = IF whole THEN free_chunks \ {c}
                          ELSE IF was THEN free_chunks \cup {c} ELSE free_chunks
        /\ IF whole THEN F!Forget(c) ELSE UNCHANGED <<chunk_to_scan, last_chunk_scanned>>
    BY <1>2, <1>4 DEF F!free, F!FreeLogs, Fixed, MP
  <1>6. /\ Keeps(pm, s, C, O) /\ Keeps(F!rollback(undo, pm), r, D, live)
        /\ Range(s) \subseteq Range(r) /\ C \subseteq D
        /\ Knows(s, C, D, O, live, free_chunks, chunk_to_scan, last_chunk_scanned, to_fix)
    BY <1>3 DEF WHolds
  <1>7. Loose(m, s, C, c, O, Q)
    BY <1>1, <1>2, <1>4, <1>6, WFreeMemory
  <1> HIDE DEF O, Q
  <1>8. /\ Keeps(m, s, C, Q) /\ c \in C /\ Room(Q, c)
        /\ whole <=> On(Q, c) = {}
        /\ was <=> ~Room(O, c)
        /\ On(Q, c) = {} => Room(O, c)
        /\ \A d : d # c => On(Q, d) = On(O, d)
        /\ DOMAIN m = DOMAIN pm /\ MP(c) \in DOMAIN pm
        /\ \A l \in DOMAIN pm : l # MP(c) => m[l] = pm[l]
    BY <1>7 DEF Loose
  <1>9. Phases /\ \A d \in 1 .. SmallChunks : MP(d) \in DOMAIN pm
    BY DEF WInv, Phases
  <1>10. CASE ~whole
    <2>1. /\ pm' = m /\ undo' = F!log(undo, pm, {MP(c)})
          /\ to_fix' = IF was THEN F!restore_dram_state(to_fix, {c}, TRUE) ELSE to_fix
          /\ free_chunks' = IF was THEN free_chunks \cup {c} ELSE free_chunks
          /\ last_chunk_scanned' = last_chunk_scanned /\ chunk_to_scan' = chunk_to_scan
      BY <1>5, <1>10
    <2>2. Phases' /\ F!rollback(undo', pm') = F!rollback(undo, pm)
      <3> DEFINE L == {MP(c)}
      <3>1. L \subseteq DOMAIN pm /\ undo' = F!log(undo, pm, L) /\ DOMAIN pm' = DOMAIN pm
            /\ \A l \in DOMAIN pm : l \notin L => pm'[l] = pm[l]
        BY <1>8, <2>1
      <3> HIDE DEF L
      <3>2. QED  BY <1>1, <1>2, <1>9, <3>1, WFreePhases
    <2>3. Knows(s, C, D, Q, live, free_chunks', chunk_to_scan, last_chunk_scanned, to_fix')
      <3>1. PICK fc, fix : fc = free_chunks' /\ fix = to_fix'
        OBVIOUS
      <3>2. fc \subseteq free_chunks \cup {c}
        BY <2>1, <3>1
      <3>3. fix = IF Room(O, c) THEN to_fix ELSE F!restore_dram_state(to_fix, {c}, TRUE)
        BY <1>8, <2>1, <3>1
      <3>4. /\ Knows(s, C, D, O, live, free_chunks, chunk_to_scan, last_chunk_scanned, to_fix)
            /\ c \in C /\ C \subseteq D /\ Room(Q, c) /\ \A d : d # c => On(Q, d) = On(O, d)
        BY <1>6, <1>8
      <3>5. Knows(s, C, D, Q, live, fc, chunk_to_scan, last_chunk_scanned, fix)
        BY <3>2, <3>3, <3>4, StaysKnows
      <3>6. QED  BY <3>1, <3>5
    <2>4. WHolds(s, C, r, D)'
      BY <1>1, <1>6, <1>8, <2>1, <2>2, <2>3 DEF WHolds, Q
    <2>5. QED  BY <2>2, <2>4 DEF WInv
  <1>11. CASE whole
    <2> DEFINE L == {MP(c)} \cup F!Removed(m, c).logs
               B == C \ {c}
    <2>1. /\ pm' = F!Removed(m, c).pm /\ undo' = F!log(undo, pm, L)
          /\ to_fix' = F!restore_dram_state(to_fix, {c}, FALSE)
          /\ free_chunks' = free_chunks \ {c}
          /\ F!Forget(c)
      BY <1>5, <1>11
    <2>2. Leaves(F!Removed(m, c), m, s, c, B, Q)
      <3>1. \A d \in C : MP(d) \in DOMAIN m
        BY <1>6, <1>8, <1>9, KeepsShape
      <3>2. QED  BY <1>8, <1>11, <3>1, RemovedLeaves
    <2>3. Phases' /\ F!rollback(undo', pm') = F!rollback(undo, pm)
      <3>1. /\ L \subseteq DOMAIN pm /\ DOMAIN pm' = DOMAIN pm
            /\ \A l \in DOMAIN pm : l \notin L => pm'[l] = pm[l]
        <4>1. H \in DOMAIN pm /\ ST \in DOMAIN pm /\ \A d \in 1 .. SmallChunks : W(d) \in DOMAIN pm
          BY <1>6, KeepsShape
        <4>2. QED  BY <1>8, <2>1, <2>2, <4>1 DEF Leaves
      <3> HIDE DEF L
      <3>2. QED  BY <1>1, <1>2, <1>9, <2>1, <3>1, WFreePhases
    <2>4. PICK t : Keeps(pm', t, B, Q) /\ Range(t) = Range(s) \ {c}
      BY <2>1, <2>2 DEF Leaves
    <2>5. chunk_to_scan' \in Range(t) \cup {0} /\ last_chunk_scanned' \in Range(t) \cup {0}
      BY <1>6, <1>8, <2>1, <2>4, ForgetFacts DEF Knows
    <2>6. Knows(t, B, D, Q, live, free_chunks', chunk_to_scan', last_chunk_scanned', to_fix')
      <3>1. PICK fc, fix, scan, last :
              fc = free_chunks' /\ fix = to_fix' /\ scan = chunk_to_scan' /\ last = last_chunk_scanned'
        OBVIOUS
      <3>2. /\ fc = free_chunks \ {c} /\ fix = F!restore_dram_state(to_fix, {c}, FALSE)
            /\ scan \in Range(t) \cup {0} /\ last \in Range(t) \cup {0}
        BY <2>1, <2>5, <3>1
      <3>3. /\ Knows(s, C, D, O, live, free_chunks, chunk_to_scan, last_chunk_scanned, to_fix)
            /\ c \in C /\ C \subseteq D /\ Room(O, c) /\ \A d : d # c => On(Q, d) = On(O, d)
        BY <1>6, <1>8, <1>11
      <3>4. Knows(t, C, D, Q, live, fc, scan, last, fix)
        BY <3>2, <3>3, LeavesKnows
      <3>5. Knows(t, B, D, Q, live, fc, scan, last, fix)
        BY <3>2, <3>4 DEF Knows
      <3>6. QED  BY <3>1, <3>5
    <2>7. Range(t) \subseteq Range(r) /\ B \subseteq D
      BY <1>6, <2>4
    <2> HIDE DEF B, L
    <2>8. WHolds(t, B, r, D)'
      BY <1>1, <1>6, <2>3, <2>4, <2>6, <2>7 DEF WHolds, Q
    <2>9. \E x, y, z, w : WHolds(x, y, z, w)'
      BY <2>8
    <2>10. QED  BY <2>3, <2>9 DEF WInv
  <1>12. QED  BY <1>10, <1>11

\* free() of the last object of a chunk throws, before or after the chunk has
\* left the list.
LEMMA WCleanFails == WInv /\ F!clean_fails => WInv'
  <1> SUFFICES ASSUME WInv, F!clean_fails PROVE WInv'
    OBVIOUS
  <1>1. phase' = "failed" /\ live' = live /\ got' = got /\ frees' = frees
    BY DEF F!clean_fails
  <1>2. PICK o \in frees \ freed, late \in BOOLEAN :
          /\ Fixed(o)[MP(o[1])].free_spots = MaxSpots
          /\ pm' = IF late THEN F!Unlinked(Fixed(o), o[1]).pm ELSE Fixed(o)
          /\ undo' = F!log(undo, pm, {MP(o[1])} \cup IF late THEN F!Unlinked(Fixed(o), o[1]).logs ELSE {})
          /\ to_fix' = F!restore_dram_state(to_fix, {o[1]}, FALSE)
          /\ free_chunks' = free_chunks \ {o[1]}
          /\ IF late THEN F!Forget(o[1]) ELSE UNCHANGED <<chunk_to_scan, last_chunk_scanned>>
          /\ freed' = freed \cup {o}
    BY DEF F!clean_fails, MP, Fixed
  <1>3. PICK s, C, r, D : WHolds(s, C, r, D)
    BY DEF WInv
  <1>4. PICK c, m : c = o[1] /\ m = Fixed(o)
    OBVIOUS
  <1> DEFINE O == F!InUse
             Q == F!InUse'
             R == IF late THEN F!Unlinked(m, c).logs ELSE {}
             L == {MP(c)} \cup R
  <1>5. /\ pm' = IF late THEN F!Unlinked(m, c).pm ELSE m
        /\ undo' = F!log(undo, pm, L)
        /\ to_fix' = F!restore_dram_state(to_fix, {c}, FALSE)
        /\ free_chunks' = free_chunks \ {c}
        /\ IF late THEN F!Forget(c) ELSE UNCHANGED <<chunk_to_scan, last_chunk_scanned>>
    BY <1>2, <1>4
  <1>6. /\ Keeps(pm, s, C, O) /\ Keeps(F!rollback(undo, pm), r, D, live)
        /\ Range(s) \subseteq Range(r) /\ C \subseteq D
        /\ Knows(s, C, D, O, live, free_chunks, chunk_to_scan, last_chunk_scanned, to_fix)
    BY <1>3 DEF WHolds
  <1>7. Loose(m, s, C, c, O, Q)
    BY <1>1, <1>2, <1>4, <1>6, WFreeMemory
  <1> HIDE DEF O, Q
  <1>8. /\ Keeps(m, s, C, Q) /\ c \in C /\ Room(O, c)
        /\ \A d : d # c => On(Q, d) = On(O, d)
        /\ DOMAIN m = DOMAIN pm /\ MP(c) \in DOMAIN pm
        /\ \A l \in DOMAIN pm : l # MP(c) => m[l] = pm[l]
    BY <1>2, <1>4, <1>7 DEF Loose
  <1>9. Phases /\ \A d \in 1 .. SmallChunks : MP(d) \in DOMAIN pm
    BY DEF WInv, Phases
  <1>10. /\ L \subseteq DOMAIN pm /\ DOMAIN pm' = DOMAIN pm
         /\ \A l \in DOMAIN pm : l \notin L => pm'[l] = pm[l]
         /\ \E t : /\ Keeps(pm', t, C, Q) /\ Range(t) \subseteq Range(s)
                   /\ chunk_to_scan' \in Range(t) \cup {0} /\ last_chunk_scanned' \in Range(t) \cup {0}
    <2>1. CASE ~late
      <3>1. R = {} /\ pm' = m /\ chunk_to_scan' = chunk_to_scan /\ last_chunk_scanned' = last_chunk_scanned
        BY <1>5, <2>1
      <3>2. Keeps(pm', s, C, Q) /\ chunk_to_scan' \in Range(s) \cup {0} /\ last_chunk_scanned' \in Range(s) \cup {0}
        BY <1>6, <1>8, <3>1 DEF Knows
      <3> HIDE DEF R
      <3>3. QED  BY <1>8, <3>1, <3>2
    <2>2. CASE late
      <3>1. R = F!Unlinked(m, c).logs /\ pm' = F!Unlinked(m, c).pm /\ F!Forget(c)
        BY <1>5, <2>2
      <3>2. Leaves(F!Unlinked(m, c), m, s, c, C, Q)
        <4>1. \A d \in C : MP(d) \in DOMAIN m
          BY <1>6, <1>8, <1>9, KeepsShape
        <4>2. QED  BY <1>8, <4>1, UnlinkedLeaves
      <3> HIDE DEF R
      <3>3. /\ L \subseteq DOMAIN pm /\ DOMAIN pm' = DOMAIN pm
            /\ \A l \in DOMAIN pm : l \notin L => pm'[l] = pm[l]
        <4>1. H \in DOMAIN pm /\ ST \in DOMAIN pm /\ \A d \in 1 .. SmallChunks : W(d) \in DOMAIN pm
          BY <1>6, KeepsShape
        <4>2. QED  BY <1>8, <3>1, <3>2, <4>1 DEF Leaves
      <3>4. PICK t : Keeps(pm', t, C, Q) /\ Range(t) = Range(s) \ {c}
        BY <3>1, <3>2 DEF Leaves
      <3>5. chunk_to_scan' \in Range(t) \cup {0} /\ last_chunk_scanned' \in Range(t) \cup {0}
        BY <1>6, <1>8, <3>1, <3>4, ForgetFacts DEF Knows
      <3>6. Range(t) \subseteq Range(s)
        BY <3>4
      <3>7. QED  BY <3>3, <3>4, <3>5, <3>6
    <2>3. QED  BY <2>1, <2>2
  <1> HIDE DEF R, L
  <1>11. Phases' /\ F!rollback(undo', pm') = F!rollback(undo, pm)
    BY <1>1, <1>2, <1>5, <1>9, <1>10, WFreePhases
  <1>12. PICK t : /\ Keeps(pm', t, C, Q) /\ Range(t) \subseteq Range(s)
                  /\ chunk_to_scan' \in Range(t) \cup {0} /\ last_chunk_scanned' \in Range(t) \cup {0}
    BY <1>10
  <1>13. Knows(t, C, D, Q, live, free_chunks', chunk_to_scan', last_chunk_scanned', to_fix')
    <2>1. PICK fc, fix, scan, last :
            fc = free_chunks' /\ fix = to_fix' /\ scan = chunk_to_scan' /\ last = last_chunk_scanned'
      OBVIOUS
    <2>2. /\ fc = free_chunks \ {c} /\ fix = F!restore_dram_state(to_fix, {c}, FALSE)
          /\ scan \in Range(t) \cup {0} /\ last \in Range(t) \cup {0}
      BY <1>5, <1>12, <2>1
    <2>3. Knows(t, C, D, Q, live, fc, scan, last, fix)
      BY <1>6, <1>8, <2>2, LeavesKnows
    <2>4. QED  BY <2>1, <2>3
  <1>14. Range(t) \subseteq Range(r)
    BY <1>6, <1>12
  <1>15. WHolds(t, C, r, D)'
    BY <1>1, <1>6, <1>11, <1>12, <1>13, <1>14 DEF WHolds, Q
  <1>16. \E x, y, z, w : WHolds(x, y, z, w)'
    BY <1>15
  <1>17. QED  BY <1>11, <1>16 DEF WInv

\* restore_dram_chunk() finds a chunk of the list, or none.
LEMMA RestoredLast ==
  ASSUME NEW m, NEW r, NEW D, NEW O, Keeps(m, r, D, O), NEW last \in Range(r) \cup {0}, NEW c
  PROVE  F!LastAfterRestore(m, last, c) \in Range(r) \cup {0}
  <1> DEFINE n == SmallChunks
  <1>1. PICK f, X : Lists(m, n, r, f, X)
    BY DEF Keeps
  <1>2. n \in Nat /\ Null = 0
    BY Bounds
  <1>3. Shape(m, n, r, f, X)
    BY <1>1, <1>2, ListsShape
  <1>4. /\ Len(r) \in Nat /\ (r = <<>> <=> Len(r) = 0)
        /\ \A i \in 1 .. Len(r) : r[i] \in Range(r)
        /\ \A x \in Range(r) : \E i \in 1 .. Len(r) : r[i] = x
    BY <1>3 DEF Shape
  <1>5. F!Listed(m) = r
    BY KeepsOne
  <1>6. r # <<>> => r[Len(r)] \in Range(r)
    <2>1. r # <<>> => Len(r) \in 1 .. Len(r)
      BY <1>4
    <2>2. QED  BY <1>4, <2>1
  <1>7. F!Before(m, c) \in Range(r) \cup {0}
    <2>1. CASE c \in Range(r)
      <3>1. PICK k \in 1 .. Len(r) : r[k] = c
        BY <1>4, <2>1
      <3>2. F!Before(m, r[k]) = IF k = 1 THEN 0 ELSE r[k - 1]
        BY <1>1, BeforeIs
      <3>3. k # 1 => k - 1 \in 1 .. Len(r)
        BY <1>4
      <3>4. QED  BY <1>4, <3>1, <3>2, <3>3
    <2>2. CASE c \notin Range(r)
      <3>1. F!Before(m, c) = IF r = <<>> THEN 0 ELSE r[Len(r)]
        BY <1>1, <2>2, BeforeIs
      <3>2. QED  BY <1>6, <3>1
    <2>3. QED  BY <2>1, <2>2
  <1>8. m[ST] = IF r = <<>> THEN 0 ELSE r[1]
    BY <1>1 DEF Lists, Chain
  <1>9. F!LastAfterRestore(m, last, c)
          = IF m[ST] = 0 \/ last # 0 THEN last ELSE IF m[ST] = c THEN r[Len(r)] ELSE F!Before(m, c)
    BY <1>2, <1>5 DEF F!LastAfterRestore, ST
  <1>10. m[ST] # 0 => r # <<>>
    BY <1>8
  <1>11. QED  BY <1>6, <1>7, <1>9, <1>10

\* A rollback and the abort callbacks.
LEMMA WAbort == WInv /\ F!abort => WInv'
  <1> SUFFICES ASSUME WInv, F!abort PROVE WInv'
    OBVIOUS
  <1> DEFINE q == F!rollback(undo, pm)
             Roomy == {c \in F!Restored : q[MP(c)].free_spots > 0}
             Emptied == {c \in DOMAIN to_fix \ F!Restored : q[MP(c)].free_spots = 0}
  <1>1. /\ phase' = "idle" /\ pm' = q /\ undo' = F!Empty
        /\ to_fix' = F!Empty /\ got' = {} /\ frees' = {} /\ freed' = {}
        /\ live' = live /\ F!FixDram(q)
    BY DEF F!abort, F!Done
  <1>2. \A c \in 1 .. SmallChunks : MP(c) \in DOMAIN q
    BY RollbackFacts DEF WInv, Phases
  <1>3. PICK s, C, r, D : WHolds(s, C, r, D)
    BY DEF WInv
  <1>4. /\ Keeps(q, r, D, live) /\ Range(s) \subseteq Range(r) /\ C \subseteq D
        /\ Knows(s, C, D, F!InUse, live, free_chunks, chunk_to_scan, last_chunk_scanned, to_fix)
    BY <1>3 DEF WHolds
  <1>5. /\ free_chunks' = (free_chunks \cup Roomy) \ Emptied
        /\ chunk_to_scan' = chunk_to_scan
        /\ \/ last_chunk_scanned' = last_chunk_scanned
           \/ \E c \in F!Restored : last_chunk_scanned' = F!LastAfterRestore(q, last_chunk_scanned, c)
    BY <1>1 DEF F!FixDram, MP
  <1>6. F!Restored = {c \in DOMAIN to_fix : ~to_fix[c]}
    BY DEF F!Restored
  <1> HIDE DEF q
  <1>7. chunk_to_scan' \in Range(r) \cup {0}
    BY <1>4, <1>5 DEF Knows
  <1>8. last_chunk_scanned \in Range(r) \cup {0}
    BY <1>4 DEF Knows
  <1>9. last_chunk_scanned' \in Range(r) \cup {0}
    <2>1. \A c : F!LastAfterRestore(q, last_chunk_scanned, c) \in Range(r) \cup {0}
      BY <1>4, <1>8, RestoredLast
    <2>2. QED  BY <1>5, <1>8, <2>1
  <1>10. \A c \in D : q[MP(c)].free_spots \in Nat /\ (q[MP(c)].free_spots > 0 <=> Room(live, c))
    <2>1. ASSUME NEW c \in D
          PROVE  q[MP(c)].free_spots \in Nat /\ (q[MP(c)].free_spots > 0 <=> Room(live, c))
      <3> DEFINE b == q[MP(c)]
                 U == On(live, c)
      <3>1. Maps(q, D, live)
        BY <1>4, KeepsShape
      <3>2. Fits(b, U) /\ U \subseteq SP
        BY <3>1 DEF Maps, On
      <3> HIDE DEF b, U
      <3>3. b.free_spots \in Nat /\ (b.free_spots > 0 <=> U # SP)
        BY <3>2, RoomIs DEF Fits
      <3>4. QED  BY <3>3 DEF b, U, Room
    <2>2. QED  BY <2>1
  <1>11. \A c \in free_chunks' : c \in D /\ Room(live, c)
    <2>1. ASSUME NEW c \in free_chunks' PROVE c \in D /\ Room(live, c)
      <3>1. CASE c \in Roomy
        <4>1. c \in D
          BY <1>4, <1>6, <3>1 DEF Knows
        <4>2. QED  BY <1>10, <3>1, <4>1
      <3>2. CASE c \notin Roomy
        <4>1. c \in free_chunks /\ c \notin Emptied
          BY <1>5, <2>1, <3>2
        <4>2. c \in D /\ (Room(live, c) \/ (c \in DOMAIN to_fix /\ to_fix[c]))
          BY <1>4, <4>1 DEF Knows
        <4>3. c \in DOMAIN to_fix /\ to_fix[c] => q[MP(c)].free_spots # 0
          BY <1>6, <4>1
        <4>4. q[MP(c)].free_spots # 0 => q[MP(c)].free_spots > 0
          BY <1>10, <4>2
        <4>5. QED  BY <1>10, <4>2, <4>3, <4>4
      <3>3. QED  BY <3>1, <3>2
    <2>2. QED  BY <2>1
  <1>12. Keeps(pm', r, D, live') /\ \A c \in free_chunks' : c \in D /\ Room(live', c)
    BY <1>1, <1>4, <1>11
  <1>13. \A c \in 1 .. SmallChunks : MP(c) \in DOMAIN pm'
    BY <1>1, <1>2
  <1>14. QED  BY <1>1, <1>7, <1>9, <1>12, <1>13, WIdle

\* The pool just created.
LEMMA WInit == F!Init => WInv
  <1> SUFFICES ASSUME F!Init PROVE WInv
    OBVIOUS
  <1>1. PICK s, f, j : Phases /\ Holds(s, f, j)
    BY FInit DEF FInv
  <1>2. /\ phase = "idle" /\ undo = F!Empty /\ to_fix = F!Empty /\ free_chunks = {}
        /\ chunk_to_scan = 0 /\ last_chunk_scanned = 0
        /\ live = {} /\ got = {} /\ freed = {}
    BY Bounds DEF F!Init
  <1>3. F!InUse = live
    BY <1>2 DEF F!InUse
  <1> DEFINE C == Range(s)
  <1>4. Keeps(pm, s, C, live)
    <2>1. Lists(pm, SmallChunks, s, f, {}) /\ Maps(pm, C, live)
      BY <1>1, <1>3 DEF Holds
    <2>2. C = Range(s) \cup {}
      OBVIOUS
    <2> HIDE DEF C
    <2>3. QED  BY <2>1, <2>2 DEF Keeps
  <1> HIDE DEF C
  <1>5. Keeps(F!rollback(undo, pm), s, C, live)
    BY <1>1, <1>2, <1>4, KeepsIdle DEF Phases
  <1>6. Knows(s, C, C, live, live, free_chunks, chunk_to_scan, last_chunk_scanned, to_fix)
    BY <1>2, EmptyJournal DEF Knows
  <1>7. WHolds(s, C, s, C)
    BY <1>2, <1>3, <1>4, <1>5, <1>6, EmptyJournal DEF WHolds
  <1>8. QED  BY <1>1, <1>7 DEF WInv

\* Every step keeps it.
LEMMA WNext == WInv /\ F!Next => WInv'
  <1> SUFFICES ASSUME WInv, F!Next PROVE WInv'
    OBVIOUS
  <1>1. CASE F!begin
    BY <1>1, WBegin
  <1>2. CASE F!alloc
    BY <1>2, WAlloc
  <1>3. CASE F!delayed_free
    BY <1>3, WDelayed
  <1>4. CASE F!clean_one
    BY <1>4, WCleanOne
  <1>5. CASE F!clean_fails
    BY <1>5, WCleanFails
  <1>6. CASE F!commit
    BY <1>6, WCommit
  <1>7. CASE F!abort
    BY <1>7, WAbort
  <1>8. CASE F!restart
    BY <1>8, WRestart
  <1>9. QED  BY <1>1, <1>2, <1>3, <1>4, <1>5, <1>6, <1>7, <1>8 DEF F!Next

\* And so does a step that changes nothing.
LEMMA WStutter == WInv /\ UNCHANGED unit_vars => WInv'
  BY DEF WInv, Phases, WHolds, F!InUse, unit_vars

-----------------------------------------------------------------------------
\* The instance counts and lists elements as this module does.
LEMMA SameCardinality == \A S : F!Cardinality(S) = Cardinality(S)
  BY DEF F!Cardinality, Cardinality

\* The invariant gives ObjectsMatch: an object in use is in a chunk that is taken.
LEMMA WObjects == WInv => F!ObjectsMatch
  <1> SUFFICES ASSUME WInv PROVE F!ObjectsMatch
    OBVIOUS
  <1>1. PICK s, C : Keeps(pm, s, C, F!InUse)
    BY DEF WInv, WHolds
  <1>2. Maps(pm, C, F!InUse)
    BY <1>1, KeepsShape
  <1>3. ASSUME NEW c \in F!Chunks, On(F!InUse, c) # {}
        PROVE  /\ pm[F!Map(c)].occupants = On(F!InUse, c)
               /\ pm[F!Map(c)].free_spots = MaxSpots - F!Cardinality(On(F!InUse, c))
    <2>1. PICK i \in SP : <<c, i>> \in F!InUse
      BY <1>3 DEF On
    <2>2. <<c, i>>[1] \in C
      BY <1>2, <2>1 DEF Maps
    <2>3. c \in C
      BY <2>2
    <2>4. Fits(pm[F!Map(c)], On(F!InUse, c))
      BY <1>2, <2>3 DEF Maps, MP
    <2>5. QED  BY <2>4, SameCardinality DEF Fits
  <1>4. \A c : On(F!InUse, c) = {i \in F!Spots : <<c, i>> \in F!InUse}
    BY DEF On, SP
  <1>5. \A c \in F!Chunks : On(F!InUse, c) # {} =>
          /\ pm[F!Map(c)].occupants = On(F!InUse, c)
          /\ pm[F!Map(c)].free_spots = MaxSpots - F!Cardinality(On(F!InUse, c))
    BY <1>3
  <1>6. QED  BY <1>5 DEF F!ObjectsMatch, On, SP

\* The same for the elements of a sequence.
LEMMA SameRange == \A s : F!Range(s) = Range(s)
  BY DEF F!Range, Range

\* The chunks taken from the pool are the listed ones.
LEMMA FTaken ==
  ASSUME NEW s, NEW f, Lists(pm, SmallChunks, s, f, {})
  PROVE  F!Taken(pm) = Range(s)
  <1> DEFINE X == {}
  <1>1. Range(s) \cup X = {c \in 1 .. SmallChunks : c < pm[H].tail /\ ~pm[W(c)].free_bit}
    <2>1. Lists(pm, SmallChunks, s, f, X) /\ SmallChunks \in Nat
      BY Bounds
    <2> HIDE DEF X
    <2>2. QED  BY <2>1, TakenIs
  <1>2. F!Taken(pm) = {c \in 1 .. SmallChunks : c < pm[H].tail /\ ~pm[W(c)].free_bit}
    BY DEF F!Taken, F!Chunks, F!Pool, F!is_free, H, W
  <1>3. QED  BY <1>1, <1>2

\* Of the chunks taken from the pool the list has some.
LEMMA WOffered ==
  WInv => /\ F!Range(F!Listed(pm)) \subseteq F!Taken(pm)
          /\ \A c \in free_chunks : F!HasRoom(c) /\ c \in F!Taken(pm)
  <1> SUFFICES ASSUME WInv
               PROVE  /\ F!Range(F!Listed(pm)) \subseteq F!Taken(pm)
                      /\ \A c \in free_chunks : F!HasRoom(c) /\ c \in F!Taken(pm)
    OBVIOUS
  <1> DEFINE O == F!InUse
  <1>1. PICK s, C, r, D : WHolds(s, C, r, D)
    BY DEF WInv
  <1>2. Keeps(pm, s, C, O) /\ \A c \in free_chunks : c \in C /\ Room(O, c)
    BY <1>1 DEF WHolds, Knows
  <1> HIDE DEF O
  <1>3. /\ Range(s) \subseteq C /\ Maps(pm, C, O) /\ F!Listed(pm) = s
        /\ C = {c \in 1 .. SmallChunks : c < pm[H].tail /\ ~pm[W(c)].free_bit}
    BY <1>2, KeepsShape, KeepsOne
  <1>4. F!Taken(pm) = {c \in 1 .. SmallChunks : c < pm[H].tail /\ ~pm[W(c)].free_bit}
    BY DEF F!Taken, F!Chunks, F!Pool, F!is_free, H, W
  <1>5. F!Range(F!Listed(pm)) \subseteq F!Taken(pm)
    BY <1>3, <1>4, SameRange
  <1>6. ASSUME NEW c \in free_chunks PROVE F!HasRoom(c) /\ c \in F!Taken(pm)
    <2>1. c \in C /\ Room(O, c)
      BY <1>2, <1>6
    <2>2. Fits(pm[MP(c)], On(O, c)) /\ On(O, c) \subseteq SP
      BY <1>3, <2>1 DEF Maps, On
    <2>3. pm[MP(c)].free_spots > 0 <=> On(O, c) # SP
      BY <2>2, RoomIs
    <2>4. QED  BY <1>3, <1>4, <2>1, <2>3 DEF F!HasRoom, Room, MP
  <1>7. QED  BY <1>5, <1>6

\* The invariant gives ChunksListed.
LEMMA FListed == FInv => F!Range(F!Listed(pm)) = F!Taken(pm)
  <1> SUFFICES ASSUME FInv PROVE F!Range(F!Listed(pm)) = F!Taken(pm)
    OBVIOUS
  <1>1. PICK s, f, j : Holds(s, f, j)
    BY DEF FInv
  <1>2. Lists(pm, SmallChunks, s, f, {})
    BY <1>1 DEF Holds
  <1>3. F!Listed(pm) = s
    BY <1>2, FromIs
  <1>4. F!Taken(pm) = Range(s)
    BY <1>2, FTaken
  <1>5. QED  BY <1>3, <1>4, SameRange

\* The invariant gives DramMatches: a chunk that is not offered is full, or
\* behind the place where the scan stands.
LEMMA FDram == FInv => F!DramMatches
  <1> SUFFICES ASSUME FInv, phase = "idle"
               PROVE  /\ \A c \in free_chunks : F!HasRoom(c) /\ c \in F!Taken(pm)
                      /\ \A c \in F!Range(F!Listed(pm)) :
                           F!HasRoom(c) => c \in free_chunks \cup F!Range(F!ListFrom(pm, chunk_to_scan))
    BY DEF F!DramMatches
  <1> DEFINE O == F!InUse
  <1>1. PICK s, f, j : Holds(s, f, j)
    BY DEF FInv
  <1>2. /\ Lists(pm, SmallChunks, s, f, {}) /\ Maps(pm, Range(s), O)
        /\ ScanAt(s, j, chunk_to_scan, last_chunk_scanned) /\ Offers(free_chunks, s, j, O)
    BY <1>1 DEF Holds
  <1> HIDE DEF O
  <1>3. F!Listed(pm) = s /\ \A k \in 1 .. Len(s) : F!ListFrom(pm, s[k]) = SubSeq(s, k, Len(s))
    BY <1>2, FromIs
  <1>4. F!Taken(pm) = Range(s)
    BY <1>2, FTaken
  <1>5. Shape(pm, SmallChunks, s, f, {})
    BY <1>2, Bounds, ListsShape
  <1>6. \A c \in Range(s) : F!HasRoom(c) <=> Room(O, c)
    <2>1. ASSUME NEW c \in Range(s) PROVE F!HasRoom(c) <=> Room(O, c)
      <3>1. Fits(pm[MP(c)], On(O, c))
        BY <1>2 DEF Maps
      <3>2. On(O, c) \subseteq SP
        BY DEF On
      <3>3. pm[MP(c)].free_spots > 0 <=> On(O, c) # SP
        BY <3>1, <3>2, RoomIs
      <3>4. QED  BY <3>3 DEF F!HasRoom, Room, MP
    <2>2. QED  BY <2>1
  <1>7. \A c \in free_chunks : F!HasRoom(c) /\ c \in F!Taken(pm)
    BY <1>2, <1>4, <1>6 DEF Offers
  <1>8. ASSUME NEW c \in Range(s), F!HasRoom(c)
        PROVE  c \in free_chunks \cup F!Range(F!ListFrom(pm, chunk_to_scan))
    <2>1. PICK i \in 1 .. Len(s) : s[i] = c
      BY <1>5, <1>8 DEF Shape
    <2>2. c \in free_chunks \/ i > j
      BY <1>2, <1>6, <1>8, <2>1 DEF Offers
    <2>3. CASE i > j
      <3>1. Len(s) \in Nat /\ j \in 0 .. Len(s)
        BY <1>2, <1>5 DEF Shape, ScanAt
      <3>2. j < Len(s) /\ j + 1 \in 1 .. Len(s) /\ i \in j + 1 .. Len(s) /\ i - j \in 1 .. Len(s) - j
        BY <2>3, <3>1
      <3>3. chunk_to_scan = s[j + 1]
        BY <1>2, <3>2 DEF ScanAt
      <3> DEFINE z == SubSeq(s, j + 1, Len(s))
      <3>4. F!ListFrom(pm, chunk_to_scan) = z
        BY <1>3, <3>2, <3>3
      <3>5. s \in Seq(1 .. SmallChunks)
        BY <1>2 DEF Lists
      <3>6. /\ z \in Seq(1 .. SmallChunks) /\ Len(z) = Len(s) - j
            /\ \A h \in 1 .. Len(s) - j : z[h] = s[j + h]
        <4>1. /\ j + 1 \in 1 .. Len(s) + 1 /\ Len(s) \in j + 1 - 1 .. Len(s)
          BY <3>1, <3>2
        <4>2. j + 1 \in Int /\ Len(s) \in Int /\ \A h \in j + 1 .. Len(s) : s[h] \in 1 .. SmallChunks
          BY <1>5, <3>1 DEF Shape
        <4>3. /\ z \in Seq(1 .. SmallChunks)
              /\ Len(z) = Len(s) - (j + 1) + 1
              /\ \A h \in 1 .. Len(s) - (j + 1) + 1 : z[h] = s[j + 1 + h - 1]
          BY <3>2, <3>5, <4>1, <4>2, SubSeqProperties
        <4>4. Len(s) - (j + 1) + 1 = Len(s) - j /\ \A h \in 1 .. Len(s) - j : j + 1 + h - 1 = j + h
          BY <3>1
        <4>5. QED  BY <4>3, <4>4
      <3> HIDE DEF z
      <3>7. z[i - j] = s[i]
        <4>1. j + (i - j) = i
          BY <3>1, <3>2
        <4>2. QED  BY <3>2, <3>6, <4>1
      <3>8. c \in Range(z)
        <4>1. z[i - j] = c
          BY <2>1, <3>7
        <4>2. \E h \in 1 .. Len(z) : z[h] = c
          BY <3>2, <3>6, <4>1
        <4>3. QED  BY <3>6, <4>2, SeqFacts
      <3>9. QED  BY <3>4, <3>8, SameRange
    <2>4. QED  BY <2>2, <2>3
  <1>9. QED  BY <1>3, <1>7, <1>8, SameRange

-----------------------------------------------------------------------------
\* No step forgets that an exception came between the scan and the list.
LEMMA TornStays == F!Next /\ torn => torn'
  <1> SUFFICES ASSUME F!Next, torn PROVE torn'
    OBVIOUS
  <1>1. CASE F!begin \/ F!delayed_free \/ F!clean_one \/ F!commit \/ F!restart
    BY <1>1 DEF F!begin, F!delayed_free, F!clean_one, F!commit, F!restart
  <1>2. CASE F!clean_fails \/ F!abort
    BY <1>2 DEF F!clean_fails, F!abort
  <1>3. CASE F!alloc
    BY <1>3 DEF F!alloc, F!alloc_listed, F!alloc_scanned, F!alloc_grown, F!alloc_fails
  <1>4. QED  BY <1>1, <1>2, <1>3 DEF F!Next

\* The two invariants: one for any step, one until an exception has come
\* between the scan and the list.
FixedInv == kind = "fixed" => WInv /\ (~torn => FInv)

\* FixSizeAllocator: the memory always holds the objects in use, the journal
\* would restore the committed ones, and what DRAM offers has room, for any
\* number of chunks, spots and operations and whatever an exception interrupts.
\* Until one comes between the scan and the list, the list has every chunk that
\* is taken, and DRAM every chunk that has room.
THEOREM FixedInvariance == UnitSpec => []FixedInv
  <1>1. UnitInit => FixedInv
    <2>1. F!Init => WInv /\ FInv
      BY FInit, WInit
    <2>2. kind = "variable" => ~(kind = "fixed")
      OBVIOUS
    <2>3. QED  BY <2>1, <2>2 DEF UnitInit, FixedInv
  <1>2. FixedInv /\ [UnitNext]_unit_vars => FixedInv'
    <2> SUFFICES ASSUME FixedInv, [UnitNext]_unit_vars, kind' = "fixed"
                 PROVE  WInv' /\ (~torn' => FInv')
      BY DEF FixedInv
    <2>1. CASE UNCHANGED unit_vars
      <3>1. kind = "fixed" /\ (torn' <=> torn)
        BY <2>1 DEF unit_vars
      <3>2. QED  BY <2>1, <3>1, FStutter, WStutter DEF FixedInv
    <2>2. CASE UnitNext
      <3>1. kind = "fixed" /\ F!Next
        BY <2>2 DEF UnitNext
      <3>2. ~torn' => ~torn
        BY <3>1, TornStays
      <3>3. QED  BY <3>1, <3>2, FNext, WNext DEF FixedInv
    <2>3. QED  BY <2>1, <2>2
  <1>3. QED  BY <1>1, <1>2, PTL DEF UnitSpec

\* FixSizeAllocator: the bitmaps hold exactly the objects in use, in the middle
\* of a transaction, after an abort, after a commit that failed anywhere and
\* after a restart.
THEOREM ObjectsAreMatched == UnitSpec => []ObjectsMatch
  <1>1. FixedInv => ObjectsMatch
    BY WObjects DEF FixedInv, ObjectsMatch
  <1>2. QED  BY <1>1, FixedInvariance, PTL

\* FixSizeAllocator: between transactions only chunks of this allocator are in
\* its list, and all of them until an exception comes between the scan and the
\* list.
THEOREM ChunksAreListed == UnitSpec => []ChunksListed
  <1>1. FixedInv => ChunksListed
    <2> SUFFICES ASSUME FixedInv, kind = "fixed" PROVE F!ChunksListed
      BY DEF ChunksListed
    <2>1. F!Range(F!Listed(pm)) \subseteq F!Taken(pm)
      BY WOffered DEF FixedInv
    <2>2. ~torn => F!Range(F!Listed(pm)) = F!Taken(pm)
      BY FListed DEF FixedInv
    <2>3. QED  BY <2>1, <2>2 DEF F!ChunksListed
  <1>2. QED  BY <1>1, FixedInvariance, PTL

\* FixSizeAllocator: between transactions a chunk that DRAM offers has room and
\* is this allocator's, and a listed chunk with room is offered or still to be
\* scanned until an exception comes between the scan and what depends on it.
THEOREM DramAgrees == UnitSpec => [](kind = "fixed" => DramMatches)
  <1>1. FixedInv => (kind = "fixed" => DramMatches)
    <2> SUFFICES ASSUME FixedInv, kind = "fixed" PROVE F!DramMatches
      BY DEF DramMatches
    <2>1. \A c \in free_chunks : F!HasRoom(c) /\ c \in F!Taken(pm)
      BY WOffered DEF FixedInv
    <2>2. ~torn => F!DramMatches
      BY FDram DEF FixedInv
    <2>3. QED  BY <2>1, <2>2 DEF F!DramMatches
  <1>2. QED  BY <1>1, FixedInvariance, PTL
=============================================================================
