# TLA+ verification of PMGD

PMGD is an in-persistent-memory graph database, a C++ library. Transactions
update the graph in place; an undo journal, a table of running transactions and
a recovery pass make them atomic and durable, striped readers-writer locks
isolate them. Allocators, AVL indices and edge lists are built on transactions,
the graph on those, and a batch manager sits beside it. This directory holds TLA+ modules translated from that code, TLC
configurations that check them on small instances, and TLAPS proofs.

Line numbers refer to `src/src/` unless a path says otherwise.

## 1. Inventory of the system

| Part | State | Operations | Interacts with | What makes it correct |
|---|---|---|---|---|
| `RWLock` (lock.h) | one 16-bit word: writer bit, reader count | read_lock, write_lock, upgrade_write_lock, unlocks | striped locks | a writer excludes everyone; a timeout leaves nothing behind; a call ends |
| `StripedLock`, `TransactionImpl::Locks` | array of RWLocks; map stripe -> mode per transaction and region (node, edge, index) | acquire_lock, unlock_all | every access to the graph | maps and words agree; two-phase locking |
| `TransactionManager` | table of headers (id, ACTIVE) in PM, id counter in DRAM | alloc_transaction, free_transaction, recover | TransactionImpl, GraphImpl constructor | a slot has one owner; slots are not lost; ids do not repeat |
| `TransactionImpl` | journal extent, `_jcur`, committed flag, locks, three callback lists | constructor, log, write, write_nolog, commit, destructor (rollback, unlock, free) | all mutating code | all or nothing over any failure; isolation |
| `CallbackList` | list of (key, function) | register, lookup, do_callbacks | allocators, iterators | each runs once, on the right outcome |
| `FixedAllocator` | tail, free list, counter in PM | alloc, free, clean_free_list | node and edge tables, allocators | no object handed out twice, none lost, over aborts and failures |
| `Allocator`, `AllocatorUnit` | array of units with an owner lock | get_allocator, alloc, free, delayed frees | transactions | one transaction per unit at a time; release at the end |
| chunk, variable, fix-size, flex allocators | chunk lists, free spots, DRAM caches | alloc, free | Allocator | blocks do not overlap; DRAM caches match PM after an abort |
| `AvlTree`, `AvlTreeIndex` | tree nodes in PM | add, remove, find, iterators | IndexManager | balanced search tree; locks cover what is modified |
| `IndexManager`, `Index` | chunk lists of indices per tag | create, add, remove, lookup | graph, properties | every matching node or edge is in its index |
| `List`, `ChunkList`, `EdgeIndex` | linked lists in PM | add, remove, iterate | nodes, indices | removal under open iterators |
| `StringTable` | open-addressed table of names | get, get by id | StringID | one id per name |
| `GraphImpl`, nodes, edges, properties | tables, edge indices, property chunks | add, remove, set and get property, iterate | everything above | no dangling edges; properties do not overlap |
| `RangeSet`, os layer | pending msync ranges | add, flush | MSYNC build | a range is flushed iff it was added |
| `BatchManager` | priority queues, flush thread | submit, flush, wait | applications | operations are applied in order, once |
| Cap'n Proto storage, zones, generated schemas, Java bindings, tools, utilities | files, wrappers | - | - | - |

Behaviours that are hard to test: power failures between any two stores, cache
lines that become durable in any order until a barrier, interleavings of
lock-free scans and claims, timeouts in the middle of a lock hand-over, stale
journal entries, aborts after DRAM caches were changed, iterators over lists and
trees that their own transaction changes. `PROJECT.json` lists them under "hazards", each at its line.

## 2. Modules

| Module | Models | Code |
|---|---|---|
| `ReadersWriter` | abstract readers-writer lock | - |
| `RWLock` | one lock word, one step per locked instruction or spin-loop load | lock.h:44-188, arch.h |
| `RWLockProofs` | proofs about `RWLock` | |
| `TxLocks` | lock maps of transactions over striped locks | transaction.cc:231-268, lock.h:192-261 |
| `TxLocksProofs` | proofs about `TxLocks` | |
| `TransactionManager` | table of headers, scan and claim, free, recovery | TransactionManager.{h,cc} |
| `TransactionManagerProofs` | proofs about `TransactionManager` | |
| `AtomicStore` | what README.md:20-23 promises of transactions | src/README.md |
| `Transaction` | journal, commit, rollback, destructor, failures, recovery | transaction.cc, TransactionImpl.h, TransactionManager.cc |
| `TransactionProofs` | proofs about `Transaction`: types, write-ahead rule, isolation, durability, refinement of `AtomicStore` | |
| `JournalLayout` | how log() cuts ranges, what the write helpers overwrite, what is flushed, in bytes | transaction.cc:128-198, TransactionImpl.h:229-269 |
| `JournalLayoutProofs` | proofs about `JournalLayout` | |
| `UndoLog` | what a component sees of the journal: log and rollback by location | transaction.cc:139-229 |
| `Allocator` | owner locks of the allocator units and of the chunk pool, nested transactions | Allocator.{h,cc}, AllocatorUnit.cc |
| `AllocatorProofs` | proofs about `Allocator`, and about `FixSizeAllocator` with `ChunkChain` and `FixedAllocator` | |
| `FixedAllocator` | tail, free list and delayed frees of a pool of equal objects | FixedAllocator.{h,cc} |
| `ChunkChain` | list of chunks in PM and their pool, repair of DRAM after an abort | FixSizeAllocator.cc, AllocatorUnit.h |
| `FixSizeAllocator` | small objects in chunks with bitmaps | FixSizeAllocator.cc |
| `VariableAllocator` | objects of any size in chunks with a list of free spots | VariableAllocator.cc |
| `AllocatorUnit` | composition of the two by request size | AllocatorUnit.cc |
| `AvlTree` | tree operations and the lock plans of add and remove | AvlTree.{h,cc} |
| `AvlTreeIndex` | index over the tree, all iterator kinds and their notifications | AvlTreeIndex.cc, Index.cc |
| `EdgeIndex` | lists of tags and edges of a node, edge iterator | EdgeIndex.h, List.h, node.cc |
| `Graph` | nodes and edges over two tables and the edge indices | graph.cc, node.cc, edge.cc |
| `GraphProofs` | proofs about `Graph` and, with it, `FixedAllocator` and `EdgeIndex` | |
| `BatchManager` | batches, flush thread, modes | BatchManager.{h,cc} |
| `BatchManagerProofs` | proofs about `BatchManager` | |
| `MC*` | instances for TLC; `Allocator` and `BatchManager` need none, their configurations are `Allocator.cfg` and `BatchManager.cfg` | |

The layers are tied as follows. `RWLock` implements `ReadersWriter`, and
`TxLocks` uses a lock call as one step with the effect `ReadersWriter` gives
it. `Transaction` uses exclusive owners for the write locks of `TxLocks` and
"draw an id" and "claim a free slot" for the scan of `TransactionManager`.
`JournalLayout` looks at the bytes of the lines that `Transaction` treats as
units. `Transaction` implements `AtomicStore`. The modules above the journal use
`UndoLog`, the part of that promise they rely on: a rollback puts back what was
logged and nothing else. `Graph` instantiates `FixedAllocator` twice, as node
and as edge table; `FixSizeAllocator` and `VariableAllocator` take their chunks
from one too. `Allocator` shows that a unit belongs to one transaction at a time,
which is why `AllocatorUnit` has one; `TxLocks` does the same for `Graph` and
`AvlTreeIndex`.

Correspondence in `RWLock`: `rw_lock` is `_rw_lock`, `attempts` the local of the
same name, and `pc` the place in the call; `Enter` starts any of the three calls.
`WRITE_LOCK` and `MAX_ATTEMPTS` are parameters, xadd wraps like the word.

Correspondence in `TransactionManager`: `tx_table` is `_tx_table` as the CPUs see
it, `pm_table` what is durable; `id`, `index`, `seen` are the locals `tx_id`, `i`,
`prev_tx_id` of alloc_transaction; `at` and `max_tx_id` those of recover.
`met` is history: the threads that have owned a slot since a scan began.

Correspondence in `Transaction`: each of data, headers and journal exists twice,
cached and persistent (`mem`/`pm`, `hdr`/`phdr`, `jrn`/`pjrn`). `WriteBack` makes any
one line durable at any time; a barrier makes durable what the thread has
flushed. `Crash` drops the cached copies, then `recover_*` run slot by slot.
`Recovered` is what recovery would make of the persistent state right now;
`store` and `vstore` are histories of the completed and the committed writes. A
transaction counts as completed when ACTIVE is cleared, as the code says
("Writing 0 to the transaction-id commits the transaction",
TransactionManager.cc:161), not when commit() returns.

Correspondence in `Allocator`: `owner` is `_owner_tx` of each AllocatorLock (units
0 .. NumUnits-1, then the chunks), `callbacks` counts the unlock callbacks a
transaction has registered, `alloc_id` is `_alloc_id`, `free_list` the keys of
the PerAllocatorFreeList. A thread has an outer transaction and, inside an
allocation that fetches a chunk, an inner one, which owns nothing of the outer
one's. One step is one try_lock.

Correspondence in `FixSizeAllocator` and `VariableAllocator`: `pm` is persistent
memory by location, `undo` the journal, `free_chunks`, `chunk_to_scan` and
`last_chunk_scanned` the DRAM fields of these names, `to_fix` the map of the abort
callback. `live`, `got`, `frees` and `freed` are the objects as the client knows
them. `alloc`, `delayed_free`, `clean_one` (a free at commit), `clean_fails` (one
that throws half way), `commit`, `abort` and `restart` are the actions; new
chunks are linked in by an inner transaction and survive an abort. `alloc_fails`
is the OutOfJournalSpace that the chunk itself throws after alloc() has moved the
scan or linked a new chunk in; `clean_fails` throws where free() changes the list,
or after it has changed list and scan. `torn` is a history: an exception came
after the scan had moved, or between two frees of a commit. In
`AllocatorUnit` a behaviour follows the allocator of one size, since the
allocators share nothing; its variable `phase` is their `pc`: no transaction,
one that runs, one whose commit runs its frees, or one whose commit failed.

Correspondence in `AvlTree` and `AvlTreeIndex`: a tree is a nested record whose
`id` is the address of the node. `get_locks_add` and `get_locks_remove` give the
node that is write locked; `add` and `remove` start there and drop the pointer
they get back, as the code does. `it` holds `_curr`, `_path`, the position in
the object list and the vacant flag. `freed` is the memory of removed nodes,
which an iterator can still read until the commit. `content`, `visited` and
`owed` are histories.

Correspondence in `Graph`: `ntable` and `etable` are the tables, `idx` the edge
indices, `nfrees` and `efrees` the delayed frees, `it` the client's iterator;
`graph` and `saved` are the client's idea of the graph now and at the last
commit. `remove_node` runs its loop over the edges with an iterator of its own
and can stop at any edge (LockTimeout), before it or half way through it; the
other operations can throw between any two of their steps, too. The client then
aborts, or catches the exception and commits; a commit can fail after its
callbacks and is rolled back. `lost` is what a power failure would bring back
because it was neither logged nor flushed. A NULL pointer that is followed ends a
behaviour (`pc = "dead"`) until the restart. `harmed` is a history: a transaction
ended with a word overwritten or lost that is in no journal and belongs to an
object older than the transaction (findings 7 and 8), or half an operation was
committed. No transaction begins after that.

Correspondence in `BatchManager`: `batches` is `_active_batches`, `thread` the
place of the flush thread, `notified` a pending signal of `_flush_condition`.
One step is one critical section of `_queue_mutex`; the mode is read and written
between them. The executor is the client's function: it runs a batch or throws.

Definitions marked `Slip:` are plausible mistakes used to see each property
fail; no specification refers to them.

### Assumptions about the environment, as constants

`Transaction` has three. The journal keeps its promise when they hold; section 5
says what happens without each:

* `OrderedFlush`: flushes are clflush, so the header that alloc_transaction
  flushes without a barrier is durable before later journal entries.
* `SerialBegin`: no two threads are inside alloc_transaction at once.
* `Footprint`/`Slots`: transactions that overlap in time work on separate lines.
  `TransactionProofs!Separate` says it for all constants: threads have disjoint
  footprints, or there is one slot and transactions do not overlap.

Where the code justifies none of them a theorem does not use them: `WriteAheadRule`,
`IsolationHolds` and `CommittedSurvive` hold without.

Three more constants switch on what a client or the environment may do, and what
the code does not survive. The passing runs have them off:

* `TxLocks!RetryFailedLock`: a transaction asks again for a lock after a
  LockTimeout (finding 4).
* `AvlTreeIndex!RemoveAnywhere`: a client with an open iterator removes objects
  other than the one the iterator is at (finding 14).
* `Graph!PowerFails`: power is lost with unflushed writes (finding 8). The theorems
  of `GraphProofs` hold for either value; TLC passes with TRUE on smaller graphs.

Failing commits and exceptions half way are in every run of the allocators and the
graph.

The other ASSUMEs say what the constants are: sizes and bounds are numbers, sets
of threads are finite where they are counted, and `None` is neither a thread, a
line, a value nor a number.

## 3. Runs

| Run | Instance | Shows |
|---|---|---|
| `rwlock` | 3 threads, count up to 3, 2 attempts | exclusion, word = threads, assertions, refinement of `ReadersWriter`; every call ends |
| `txlocks` | 3 transactions, 3 objects, 2 stripes | maps account for all locks; no conflicting holders |
| `txmanager` | 3 threads, 2 slots, 4 ids, 1 failure, read-only reopening | slot ownership, no leaks, id counter after recovery, no needless OutOfTransactions |
| `journal` | 2 threads, 1 slot, 2 lines, 2-entry journal, 2 ids, 2 failures | durability, isolation, old contents in the journal before a write, committed contents never at risk, refinement of `AtomicStore` |
| `journal_parallel` | 2 threads, 2 slots, a line each, 2 failures | durability and refinement for transactions that overlap |
| `journal_unlock` | shared lines | **violated**: completed write undone because locks go before ACTIVE |
| `layout` | real sizes 48 and 64, all words of a line, 10 lengths, 2 calls | log() saves exactly the range, flush_range covers it |
| `index` | 7 initial trees of up to 20 keys, 9 iterators, 2 changes | order, heights (in a balanced tree) and content survive plans that start below the root; iterators stay ordered, complete and on live objects |
| `allocator` | 2 threads, 2 units, 3 attempts | locks are released once and by their owner, units are not shared, frees run under all locks; every call ends |
| `unit` | 3 small chunks of 2 objects; 2 large chunks of 4 units, sizes 2 and 3; 2 operations per transaction, 1 once torn | objects, free spots, chunk lists and DRAM agree over commits, aborts, exceptions at any point and restarts |
| `graph` | 2 nodes, 2 edges, 2 tags, 2 changes per transaction | tables and edge indices hold the committed graph over throws half way, failing commits and restarts; edge iterators show each edge once |
| `batch` | 2 clients, 2 priorities, 4 operations, batches of 2 | nothing lost or run twice, nothing left in IMMEDIATE mode, a full batch is flushed |

Bounds. Three threads let a third one interfere with the hand-over between two
others. Reader counts up to 3 of 4 are all that three threads can reach. In
`txmanager` three threads on two slots are the smallest case in which a scan can
pass a slot that is freed behind it, and four ids leave room for a transaction
after recovery. In `journal` two ids on one slot are a previous and a current
owner of an extent; a range of two lines makes a log() call that can be torn;
the second failure can hit recovery itself. In `index` two changes under an open
iterator on the small trees reach every rotation, and trees of 15 and 20 keys
let plans end well below the root, with stale heights above if they are one
level too low. In
`unit` a chunk can be first, middle or last in its list and empty, half full or
full; a cut of a spot can leave a usable rest or one that is too small; the
number of transactions is not bounded. In `graph` two edges on two nodes give
self-loops, parallel edges, one tag or two, full tables and free lists of two;
transactions are not bounded either. In `allocator` two threads and two units
let each meet the other in a unit, at the chunks, or at both in opposite order.
`MaxId`, `MaxCrashes`, `MaxCalls` and `MaxOps` are caps that stop the model, not
the code: the runs that end there switch deadlock checking off. `MaxTxOps` bounds
a transaction (one operation less in `FixSizeAllocator` once `torn`) and `MaxDrift`
the free space a large chunk may lose (section 5);
neither stops the model, and `rwlock`, `txlocks`, `allocator`, `unit`, `graph`
and `batch` check deadlock.

Fairness. `RWLock!FairSpec` assumes that a thread inside a call goes on: a
scheduler runs every runnable thread, and the loops only spin. It does not
assume that a holder ever releases; calls end because attempts are counted.
`Allocator!FairSpec` assumes that a thread inside a call of the allocator or a
destructor goes on (the loops sleep and try again); not that a client ever ends
its transaction. `BatchManager!FairSpec` assumes that the flush thread is
scheduled: it waits with a time limit (wait_for) and looks at the batches again,
and the destructor joins it.

## 4. Proofs

`RWLockProofs`, for every finite set of threads smaller than the reader mask
(`WordAssumption`) and every attempt limit:

* `MutualExclusion`, `WordCorrect`, `TypeCorrect`, `NoAssertionFails`;
* `Refinement`: the lock word implements `ReadersWriter`.

Exclusion is not inductive: nothing in it says what the word shows of threads
in the middle of a call. The inductive invariant `IInv` is the conjunction of
`TypeOK`, `Exclusion` and `WordMatchesThreads`: the count is the number of
announced readers, granted or backing out, and the bit is set iff exactly one
thread owns it. Announced readers that met the bit are not granted, so a writer
that sees a count of zero (one for an upgrade) is alone. The proof has a lemma
per kind of step; `Kept` combines preservation of `IInv` with "the step is a
step of `ReadersWriter` or a stutter", so that refinement comes from the same
case analysis. Cardinality facts come from `FiniteSetTheorems`.

`TxLocksProofs`, for any finite set of transactions that the reader count can
hold, any addresses and stripes, if `~RetryFailedLock` (finding 4 shows why):

* `MapsMatch`, `TwoPhaseExclusion`.

The inductive invariant is both properties and the types: a call looks at the
word only, so exclusion between maps needs the word to account for all of them,
and the count of readers stays right because a map entry comes or goes with
exactly one increment or decrement.

`TransactionManagerProofs`, for any finite set of threads and every number of
slots, ids and power failures (`ThreadsAssumption`, `TableAssumption`,
`BoundAssumption`):

* `SlotsExclusive`, `NoLeaks`, `IdsDominated`, `TypeCorrect`;
* `TurnedAwayOnlyWhenFull`.

Here the inductive invariant adds what the properties do not say about the
middle of a call: a thread at its cmpxchg loaded a header without ACTIVE and has
an index inside the table, and nobody is in a call unless the graph is up
(`LocalsOK`); an id that is drawn and not yet in the table is at most the
counter (`DrawnIds`); and the headers the loop of `recover()` has passed are
clear and at most its maximum (`RecoverLoop`). A successful cmpxchg compares
with a header that was not ACTIVE, and owners' headers are, so the slot has no
owner. At the end of `recover()` the loop has passed the whole table, which
gives `NoSlotLeaks` and `CurIdDominates` again.

`TurnedAwayOnlyWhenFull` is about a scan during which slots change hands: a
thread may be turned away although at no moment all slots were taken. What the
scan does show is that it has met as many transactions of other threads as there
are slots. One met thread could be counted in two slots if it frees one that the
scan has passed and claims one ahead of it, so counting the owners passed is not
inductive. `MetCounted` counts by position instead: for each `j` up to the number
of slots passed, at least `j` met threads do not own slot `j` or a later one. A
thread that is met and scans again began later and has met nobody the first scan
has not (`MetOrdered`); when it claims a slot, the count for its own scan makes up
for what the first one loses by its moving on.

`TransactionProofs`, for any threads, lines, slots, footprints, extents and
power failures, without assumptions on the environment:

* `TransactionTyped`, `WriteAheadRule`, `IsolationHolds`, `CommittedSurvive`.

`WriteAhead` speaks of the moment after log(); `JournalInv` says what holds on
the way: a slot has one transaction (`SlotsHeld`), the entries below `_jcur` carry
its id and cover what was logged (`Journalled`), and outside of log() they and the
header are durable (`JournalDurable`), because every log() ends with a barrier
over both. `Isolation` needs, per thread, what a transaction knows of its own
lines (`View`, part of `VisibleInv`): its journal holds the committed contents of each line at the first
entry for it, unlogged lines are unchanged, and a rollback in progress has
restored the lines whose entries it has passed; and what recovery has done so
far (`Recovering`). The lemma `Others` carries these over the steps of the other
threads, since nobody writes a line that somebody else has locked. `WriteAhead`
takes the old contents of its entries from the same `View`. `CommittedSurvives` needs
`BackedInv`: a line is durable with its committed contents, or the transaction that
has it locked has an entry for it in the persistent journal (`Saved`), which a
written line always has; during recovery a line that is not durable has an entry
in the slot that recover() is at.

The same module, for the same constants, has two conditional results, under
`OrderedFlush`, `SerialBegin` and `Separate`. They do not say what this code does in
every build or for every client, since findings 1 to 3 break each of the three; they
say that nothing else breaks the journal:

* `Durability`: what recovery would make of persistent memory is, at every
  moment, what the completed transactions wrote;
* `JournalImplementsAtomicStore`: every step is one of `AtomicStore` or a stutter.

`DurableStore` compares persistent memory, with the undo entries applied, to a
history; it says nothing of lines that are still in the cache, nor why the right
entries are valid. `DurableInv` adds: ids only grow, from entries to headers to
the counter, so that stale entries in an extent never match its header
(`IdsGrow`, `IdsApart`); ACTIVE headers and live transactions match, in the cache
and in persistent memory (`Holders`); the entries of a live transaction are its
own, the first one for a line holds the completed contents, and a written line
has such an entry (`Tracked`); every line that no valid entry
covers is already right in persistent memory (`Settled`); and recovery leaves
what it has passed right, so that a second failure finds the same (`Restoring`).
A step that makes the header of a slot durable can complete a transaction; the
lemmas `Publish...` show once for all barriers and write-backs that it then
publishes all its writes or none. The `TrackedFrame` and `SettledFrame` lemmas
reduce the other steps to the lines and the extent they touch. In the
refinement, write() is Put, the start of the destructor's rollback is Abort,
commit() is Vote, the durable clearing of ACTIVE is Commit, a power failure is
Fail and the end of recover() is Restart.

`JournalLayoutProofs`, for every line size, entry size, extent, address and
length (`LayoutAssumption`):

* `JournalCovers`, `NologIsFlushed`.

The invariant of the loop in log() (`Looping`) says that the bytes saved so far
are those promised by earlier calls and those from the start of the range up to
the pointer, and that the turns left fit into the extent; the check before the
loop, which rounds up, gives it at the start. The rounding of both loops rests on
the lemmas `Division`, `Multiples`, `Quotient` and `Entries`.

`AllocatorProofs`, for any set of threads, every number of units and of
attempts (`AllocatorAssumption`):

* `LocksReleasedOnceTheorem`, `UnitsExclusiveTheorem`, `FreesUnderLocksTheorem`.

`LocksReleasedOnce` says that callbacks and owners agree, and is inductive with
the types. `FreesUnderLocks` is not: it speaks of the end of a loop. The
inductive invariant `IInv` adds, for each thread, that in the middle of
clean_free_list the chunks and all units below the current one are held
(`CleaningOf`), that the lock it tries is one of the units or the chunks
according to the call (`TryingOf`), and that the unit it uses is its own
(`UnitOf`). The lemma `TakenFromNobody` carries the others over a step: a lock
that changes owner was free before or is released by its own transaction, so
what other threads hold stays. `QuietStep` and `ThreadStep` reduce an action to
the one thread it moves.

The same module, for the fixed-size allocator (`AllocatorUnit` following
`FixSizeAllocator`) with any number of chunks, spots per chunk and operations
per transaction (`Bounds`), whatever throws and whenever:

* `FixedInvariance`: `FixedInv` is invariant;
* `ObjectsAreMatched`, `ChunksAreListed`: `ObjectsMatch`, `ChunksListed`;
* `DramAgrees`: `DramMatches` of this allocator.

`ChunksListed` and `DramMatches` each say one thing of every behaviour (the list
holds chunks of the pool only; what DRAM offers has room and belongs to the
allocator) and another one of those in which no exception came after the scan had
moved (nothing is lost or forgotten). There are two inductive invariants
accordingly, `WInv` for all behaviours and `FInv` for the latter, and `FixedInv`
is `WInv /\ (~torn => FInv)`.

`ObjectsMatch` speaks of bitmaps only, and `ChunksListed` and `DramMatches` of
the time between transactions. `FInv` says what holds at every moment:

* `Lists`: the chunks below the tail are those of the list in memory and those of
  the pool's free list, each once; the words link both in order and carry the
  free bit in one of them only. The model follows the links with recursive
  functions; `FromIs` shows that on such a memory they read exactly the list.
* `Maps`: the bitmap of each listed chunk holds the objects in use on it and
  counts the rest; every object in use is on a listed chunk.
* `Stored(rollback(undo, pm), live)`: with the journal rolled back the memory
  would hold the committed objects, on a list of its own. A chunk that the inner
  transaction linked in stays after an abort: its word and the header were not
  logged by the outer one, and its bitmap is logged as it was when new.
* `ScanAt`, `Offers`: the scan stands behind the first `j` chunks of the list, and
  a chunk with room is offered or not yet scanned. A chunk that leaves the list
  moves that place back (`RemovedScan`).
* `Undone`, `Filled`: until the first free of a commit only bitmaps are logged, so
  a rollback leaves the list alone, and every chunk that has room again after it
  is offered, noted for the abort callback, or not yet scanned.

`WInv` knows less: the list, the free list and the chunks that are taken and in
neither (`Keeps`), of which there can be some once the scan stands before the end of
the list and the next chunk replaces what follows; and the same for the memory
after a rollback, where everything listed or taken now is listed or taken too
(`WHolds`). Of DRAM it knows that the scan stands in the list, that what is offered
is taken and has room, and that a chunk which has room only now is noted, so that
the abort callback takes it back (`Knows`). That is enough for
`ObjectsMatch`, since an object in use is on a taken chunk, listed or not.

`BatchManagerProofs`, for any clients, priorities, operations and batch sizes
(`BatchBounds`):

* `NoOperationLost`, `ImmediateRuns`.

`BatchInv` says that an operation is in one batch of one priority at most
(`BatchedOnce`), was run once at most (`ExecutedOnce`), and that the accepted ones
are those that are pending or were run (`Accounted`). flush_all runs batches in
the order of a recursive function, `Ordered`; the proof shows that the function
exists and that it lists every operation exactly once.

`GraphProofs`, for every size of the two tables, every set of tags and any number
of changes per transaction (`GraphBounds`), with operations that throw half way,
commits that fail, restarts and, if `PowerFails`, power failures:

* `GraphInvariance`: `GraphInv` is invariant until `harmed`;
* `TablesHoldCommitted`: `TablesMatch`, the promise of `FixedAllocator`;
* `IndicesHoldEdges`: `EdgesIndexed`;
* `IteratorStands`, `IteratorShowsAll`: `IteratorOnListedEdge`, `IteratorComplete`.

`TablesMatch` looks at the tables between transactions only, so all of the argument is
in what `GraphInv` says of the time in between:

* `Recoverable`, up to the commit: the tables and indices with the journals rolled
  back hold the graph of the last commit. alloc() logs the header, and the word of an
  object it takes from the free list, because that word is a link; what it takes at
  the tail is not logged, and after a rollback lies behind the tail again. This needs
  that the tail only grows and that nothing taken before the transaction is given
  out again (`TableTx`).
* `Running`: the tables hold the current graph and, besides it, exactly the
  objects whose free is delayed. They are distinct and no longer in the graph
  (`Frees`), which is what makes clean_free_list safe: it links each of them once
  (`CleanFacts`).
* `Committing`: once clean_free_list ran, the tables hold the current graph, and a
  rollback brings the last one back only if no link went into the word of an object
  that was below the tail when the transaction began (`LinkedNew`). A link into an
  object of this transaction is behind the recovered tail and harmless: `Alike` says
  that two memories agree on the header and below the tail, and `AlikeStored` that
  nothing else matters. The same lemma serves a power failure that loses an unflushed
  new object.
* `Standing`: an iterator that is at an edge is at one in the list of its tag, in its
  node and direction; one over all tags is at the key of that tag; and only one over
  the in index has a second index to go to.
* `WatchOK`: what was shown is not ahead of the iterator, and what it was asked for
  and has not been removed was shown or is ahead of it. `Coming` defines "ahead"
  by the order of the lists (`Precedes`), first in the list of the tag, then in the
  list of tags, then in the other direction.

The lemmas on lists say what add() and remove() do to that order: a new element
precedes the others, and a removal leaves the order of those that stay. From them
`UnlistedFacts` and `InsertedFacts` derive what one change of one index does to all
indices, and the proofs about next() and remove_notify() what is then ahead of every
iterator. remove(node) runs a loop over an iterator of its own while it removes
what that iterator is at, and can fail after any turn: `LoopOK` says of every
turn that the removed edges are out of both indices, that the client's iterator lost
only those, and that the loop has the node's remaining edges ahead of it, so that
none is left when it ends. A self-loop is in both lists and is removed at its
first appearance. The two tables are instances of one module, and `SameOperators`
lets each lemma about a table serve both.

Where an argument is an induction over numbers (`Recovered` takes the last slot
and the first entry, `Ordered` goes from one priority to the next, `Process` from
one turn of remove(node) to the next, `ListFrom` from one chunk to the next), the
proofs use that a nonempty set of numbers has a least element, which follows from the
library's theorems on well-founded relations.

Only model-checked:

* every liveness property (`EveryCallEnds`, `CallsEnd`, `FullBatchFlushed`), which is out of the prover's reach;
* `AvlTreeIndex`: `AvlTree` is written with RECURSIVE operators over nested trees,
  and what a recursive definition computes for every tree needs an induction the
  prover cannot do;
* the variable-size allocator: `SpotsDisjoint`, and `DramMatches` for it. Its free
  spots are a second kind of list inside every chunk, which alloc() cuts from
  the end of a spot and free() merges at the head; not done yet.

## 5. Findings

Where the code and what it says of itself disagree. The first is the run
`journal_unlock`, and `PROJECT.json` quotes the documentation. For the others the
configuration that shows the trace is named; run it with the module of the same
prefix (`tlc -config MCGraphPower.cfg MCGraph`).

Transactions and journal:

1. Locks are released before the transaction is completed (transaction.cc:116):
   a second transaction can complete on the same line, and a failure then undoes
   its write. src/README.md:21-23: "a completed transaction's effects survive any
   failure". Run `journal_unlock`.
2. The claimed header is flushed without a barrier (TransactionManager.cc:147);
   with clwb or clflushopt the new owner's first entry can be durable before it,
   and the previous owner is rolled back in part. `MCTransactionClwb.cfg`.
3. recover() can lower the id counter below ids in use (TransactionManager.cc:120)
   when an id drawn early claims its slot late; TransactionManager.h:41:
   "TransactionId is never reset". `MCTransactionLate.cfg`.
4. acquire_lock keeps an entry for a lock it failed to get (transaction.cc:236);
   a retry upgrades a read lock that is not there, against lock.h:142-144.
   `MCTxLocksRetry.cfg`.
5. write(dst, src, len) logs src (TransactionImpl.h:248); the comment at 245:
   "log dst and overwrite with src". `MCJournalLayoutCopy.cfg`.
6. finalize_commit flushes one line per entry (transaction.cc:166), though an
   entry may straddle two. `MCJournalLayoutFlush.cfg`.

Tables and allocators:

7. A commit that fails after clean_free_list ran (OutOfJournalSpace or
   LockTimeout in a later callback) restores the header of the table but not the
   links, which are not logged (FixedAllocator.cc:171): live objects are marked
   free. TransactionImpl.h:274-277 says such a transaction "is not committed, and
   will be rolled back". `MCGraphCommit.cfg`, `AbortRestores`.
8. A new node or edge and the links of freed objects are neither logged nor
   flushed (node.cc:44, FixedAllocator.cc:171): a power failure after the commit
   can lose them. `MCGraphPower.cfg`, `RestartRestores`.
9. An exception after alloc() or free() has moved the scan is not undone in DRAM.
   free() may throw at FixSizeAllocator.cc:303-304, with `_last_chunk_scanned` moved to
   the chunk before (296-299), or a later free of the same commit may; the rollback
   puts the chunk back into the list, but restore_dram_chunk repairs the pointer
   only if it is NULL (326), so that the next new chunk overwrites the link to it and
   it is lost until the graph is rebuilt. After two frees the pointer may even stay
   NULL while the list has a chunk, which restore_dram_chunk means to prevent
   (320-325), and the assertion at 206 fails on the next new chunk.
   `MCAllocatorUnitLate.cfg`, `LastChunkKnown`. FixedChunk::alloc may throw
   (124, 127) after the scan moved (167-168) or the new chunk was linked (214-216):
   that chunk is then neither offered nor to be scanned until the graph is opened
   again. In `VariableAllocator`, remove_dram_chunk moves `_last_chunk_scanned` in
   the same way (454-465). `torn` marks these behaviours.
10. `free_space -= sz` (VariableAllocator.cc:112) is not logged: after an abort it
    is too low, and a chunk whose objects are all freed later does not go back to
    the pool (`AllocatorUnit!FreeSpaceMatches`).
11. An inner transaction waits for the chunks lock of its own outer transaction
    (Allocator.cc:226) until it times out; Allocator.h:105-106: "Store the holder
    transaction per allocator in case the same transaction wants to re-acquire
    it" (`Allocator!WaitsForOthersOnly`).

Indices and iterators:

12. remove_recursive uses a double rotation where a single one is needed when the
    taller child does not lean (AvlTree.cc:603-606): sibling heights then differ
    by two, which test/avltest.cc:98-101 rejects (`MCAvlTreeIndex.cfg` with the
    invariant `Balanced`). A later add() at such a node finds it tilted by two
    already, and its plan takes for granted that a rotation there keeps the
    height (AvlTree.cc:199-203; the comment at 206-207 says: "If there was no
    rotation at a level but the lower level completely changed, then we need to
    capture that."), so it locks one level too few and the height above goes stale:
    remove, commit, add on a tree of 35 keys. `MCAvlTreeIndexHeights.cfg`,
    `HeightsRight`. The run `index` checks that no change from a balanced tree
    with right heights makes a height wrong (`HeightsKept`) and that the order stays.
13. The "not equal" iterator leaves out keys (add_nodes_neq, AvlTreeIndex.cc:176).
    `MCAvlTreeIndexNe.cfg`.
14. An iterator is told of the removal of its own object and of rotations. The
    removal of another key that is on its stack, or that takes over the key of
    the node it is at, leaves it on freed tree nodes without either.
    `MCAvlTreeIndexElsewhere.cfg`.
15. An edge iterator over both directions takes a non-empty out index for granted
    when it gets there (node.cc:151-156); if its edges were removed meanwhile it
    reads through NULL (`Graph!IteratorSafe`; comments at 114-116 and 286-289).

Batch manager:

16. set_batch_mode(AUTO_FLUSH) starts no thread (BatchManager.h:55: "Auto-flush
    when batch size reached"; `BatchManager!AutoFlushHasThread`). Two operations
    that create nodes with the same tag have the same hash, so that the second
    is dropped; current_memory_usage never rises; TIME_BASED flushes full batches
    only.

## 6. What is left out

* In `Transaction`: the MSYNC build, in which flush and commit go through
  `RangeSet` and msync, and write_nolog (in `JournalLayout`).
* In `TransactionManager`: the checks of the constructor on region sizes. The
  63-bit id counter is a number with a bound.
* In `RWLock`: backoff() delays, memory orderings weaker than the locked
  instructions give.
* In the allocators: a client that catches OutOfJournalSpace from the middle of
  FreeFormChunk::alloc, between its writes to the spots, and commits; and one that
  commits again after a failed commit. `FlexFixedAllocator` and `ChunkAllocator` appear only as the
  pool chunks come from; their list of pools and its DRAM copy are left out, and
  so are requests within a few bytes of whole chunks.
* In `AvlTreeIndex`: keys are integers and never compared as strings; several
  transactions on one index (`TxLocks` and the plans separate them), and aborts.
* In `Graph`: what a client does with a graph after finding 7 or 8 or after it
  committed half an operation; operations, other than commit and abort, after a
  caught exception; a commit that fails between the callbacks of the two tables (it
  fails after both). Properties, property indices, table iterators. An index is changed
  and rolled back as a whole; its list nodes come from `Allocator`, whose
  consistency is the subject of `AllocatorUnit`.
* In `BatchManager`: statistics, builder classes, compression, and the functions
  that are declared and not defined (queue_set_property, set_config).
* `StringTable`: open addressing over names that are never removed. Its hazards,
  a full table and two threads that insert one name, need the hash and the
  lock discipline of `StringID`; not modelled yet.
* `PropertyList`, `IndexManager`, `ChunkList`, `RangeSet`: not modelled yet.
* Configuration arithmetic, value conversion, the Cap'n Proto and zone prototypes
  (file I/O and stubs), generated schemas, bindings, tools and plain I/O stay
  out. The generated schemas are more than half of the repository's lines.

## 7. Plan

Done: lock, lock maps, transaction table, journal, layout, allocators, AVL
indices, edge indices and the graph, batch manager.

1. Proofs: `SpotsDisjoint` of `AllocatorUnit`, over the lists of chunks that
   `AllocatorProofs` has: the free spots of a chunk and its objects, and what a
   rollback leaves of them when free_space is not logged.
2. `PropertyList`: space in property chunks, moved and split properties, over
   `UndoLog`; `IndexManager` on top of `AvlTreeIndex`, so that every property of a
   node is in its index.
3. `StringTable` with two inserting threads; `RangeSet` against a set of pages.
