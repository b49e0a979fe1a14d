------------------------------ MODULE TxLocks ------------------------------
(***************************************************************************)
(* Two-phase locking by transactions: TransactionImpl::Locks over a        *)
(* StripedLock.  A transaction remembers the stripes it has locked in      *)
(* mylocks, upgrades a read lock when it needs to write, and releases all  *)
(* of them in its destructor.  The locks are RWLocks seen from outside     *)
(* (module RWLock shows that each call behaves like one step here): a call *)
(* takes effect at once or throws LockTimeout because the lock is busy.    *)
(***************************************************************************)
EXTENDS Naturals, FiniteSets

CONSTANTS
  Threads,
  Addresses,          \* objects, by address
  Width,              \* bytes covered by one lock, a power of two
  NumStripes,         \* number of locks, a power of two
  ReaderModulus,      \* the reader count is modulo this, 2^15 in the code
  RetryFailedLock     \* after a LockTimeout the application may ask again for
                      \* the same new lock in the same transaction

ASSUME StripeAssumption ==
  /\ Width \in Nat \ {0} /\ NumStripes \in Nat \ {0}
  /\ Addresses \subseteq Nat
  /\ ReaderModulus \in Nat \ {0} /\ RetryFailedLock \in BOOLEAN
ASSUME ThreadsAssumption == IsFiniteSet(Threads) /\ Cardinality(Threads) < ReaderModulus

VARIABLES
  readers, writer,   \* the two parts of each stripe's _rw_lock
  mylocks,           \* mylocks[t][stripe]; "Absent" if the map has no entry
  pc                 \* "out", "run", "thrown" (LockTimeout), "end" (destructor)

vars == <<readers, writer, mylocks, pc>>

Stripes == 0 .. (NumStripes - 1)
LockState == {"Absent", "LockNotFound", "ReadLock", "WriteLock"}

\* (addr >> _shift) & _maskbits
get_stripe_id(addr) == (addr \div Width) % NumStripes

Init ==
  /\ readers = [s \in Stripes |-> 0] /\ writer = [s \in Stripes |-> FALSE]
  /\ mylocks = [t \in Threads |-> [s \in Stripes |-> "Absent"]]
  /\ pc = [t \in Threads |-> "out"]

Begin(t) ==
  /\ pc[t] = "out"
  /\ pc' = [pc EXCEPT ![t] = "run"]
  /\ UNCHANGED <<readers, writer, mylocks>>

\* The exception passes through acquire_lock, which has already put an entry
\* for the stripe into the map if there was none.
Timeout(t, s) ==
  /\ mylocks' = [mylocks EXCEPT ![t][s] = IF @ = "Absent" THEN "LockNotFound" ELSE @]
  /\ pc' = [pc EXCEPT ![t] = "thrown"]
  /\ UNCHANGED <<readers, writer>>

\* Slip: a new write lock does not wait for readers.
lock_new_blind(t, s, write) ==
  /\ mylocks[t][s] = "Absent"
  /\ IF writer[s]
     THEN Timeout(t, s)
     ELSE /\ IF write THEN writer' = [writer EXCEPT ![s] = TRUE] /\ UNCHANGED readers
             ELSE readers' = [readers EXCEPT ![s] = (@ + 1) % ReaderModulus]
                  /\ UNCHANGED writer
          /\ mylocks' = [mylocks EXCEPT ![t][s] = IF write THEN "WriteLock" ELSE "ReadLock"]
          /\ UNCHANGED pc

\* "Lock not in system": read_lock or write_lock.
lock_new(t, s, write) ==
  /\ mylocks[t][s] = "Absent"
  /\ IF writer[s] \/ (write /\ readers[s] > 0)
     THEN Timeout(t, s)
     ELSE /\ IF write THEN writer' = [writer EXCEPT ![s] = TRUE] /\ UNCHANGED readers
             ELSE readers' = [readers EXCEPT ![s] = (@ + 1) % ReaderModulus]
                  /\ UNCHANGED writer
          /\ mylocks' = [mylocks EXCEPT ![t][s] = IF write THEN "WriteLock" ELSE "ReadLock"]
          /\ UNCHANGED pc

\* Slip: the upgrade keeps the read lock.
lock_upgrade_keep(t, s) ==
  /\ mylocks[t][s] \notin {"Absent", "WriteLock"}
  /\ IF writer[s] \/ readers[s] > 1
     THEN Timeout(t, s)
     ELSE /\ writer' = [writer EXCEPT ![s] = TRUE]
          /\ mylocks' = [mylocks EXCEPT ![t][s] = "WriteLock"]
          /\ UNCHANGED <<readers, pc>>

\* "what we had was a read lock": upgrade_write_lock waits for a count of at
\* most one and takes one off, its own.
lock_upgrade(t, s) ==
  /\ mylocks[t][s] \notin {"Absent", "WriteLock"}
  /\ IF writer[s] \/ readers[s] > 1
     THEN Timeout(t, s)
     ELSE /\ writer' = [writer EXCEPT ![s] = TRUE]
          /\ readers' = [readers EXCEPT ![s] = (@ + ReaderModulus - 1) % ReaderModulus]
          /\ mylocks' = [mylocks EXCEPT ![t][s] = "WriteLock"]
          /\ UNCHANGED pc

\* A lock the transaction has already: nothing to do.
lock_found(t, s, write) ==
  /\ mylocks[t][s] # "Absent"
  /\ ~write \/ mylocks[t][s] = "WriteLock"
  /\ UNCHANGED vars

acquire_lock(t, addr, write) ==
  /\ pc[t] = "run"
  /\ LET s == get_stripe_id(addr) IN
     /\ RetryFailedLock \/ mylocks[t][s] # "LockNotFound"
     /\ \/ lock_new(t, s, write)
        \/ write /\ lock_upgrade(t, s)
        \/ lock_found(t, s, write)

\* The application catches LockTimeout and goes on, or lets it unwind the
\* transaction.
Catch(t) ==
  /\ pc[t] = "thrown"
  /\ pc' = [pc EXCEPT ![t] = "run"]
  /\ UNCHANGED <<readers, writer, mylocks>>

Destroy(t) ==
  /\ pc[t] \in {"run", "thrown"}
  /\ pc' = [pc EXCEPT ![t] = "end"]
  /\ UNCHANGED <<readers, writer, mylocks>>

\* One turn of unlock_all.
unlock(t, s) ==
  /\ pc[t] = "end" /\ mylocks[t][s] # "Absent"
  /\ writer' = [writer EXCEPT ![s] = @ /\ mylocks[t][s] # "WriteLock"]
  /\ readers' = [readers EXCEPT ![s] =
       IF mylocks[t][s] = "ReadLock" THEN (@ + ReaderModulus - 1) % ReaderModulus ELSE @]
  /\ mylocks' = [mylocks EXCEPT ![t][s] = "Absent"]
  /\ UNCHANGED pc

unlock_done(t) ==
  /\ pc[t] = "end" /\ \A s \in Stripes : mylocks[t][s] = "Absent"
  /\ pc' = [pc EXCEPT ![t] = "out"]
  /\ UNCHANGED <<readers, writer, mylocks>>

Next ==
  \E t \in Threads :
    \/ Begin(t) \/ Catch(t) \/ Destroy(t) \/ unlock_done(t)
    \/ \E a \in Addresses, write \in BOOLEAN : acquire_lock(t, a, write)
    \/ \E s \in Stripes : unlock(t, s)

Spec == Init /\ [][Next]_vars

-----------------------------------------------------------------------------
TypeOK ==
  /\ readers \in [Stripes -> 0 .. (ReaderModulus - 1)]
  /\ writer \in [Stripes -> BOOLEAN]
  /\ mylocks \in [Threads -> [Stripes -> LockState]]
  /\ pc \in [Threads -> {"out", "run", "thrown", "end"}]

Readers(s) == {t \in Threads : mylocks[t][s] = "ReadLock"}
Writers(s) == {t \in Threads : mylocks[t][s] = "WriteLock"}

\* The maps of all transactions together account for every lock word: nothing
\* is released twice or never, although entries without a lock stay in the map
\* after a timeout and several objects share a stripe.
MapsMatchLocks ==
  \A s \in Stripes :
    /\ readers[s] = Cardinality(Readers(s))
    /\ writer[s] <=> Writers(s) # {}

\* Two transactions never hold a stripe in conflicting modes.  An upgrade
\* cannot take the place of another transaction's read lock, because it is
\* "called only when the caller already possesses a read lock" (lock.h:142-143).
TxExclusion ==
  \A s \in Stripes, t, u \in Threads :
    t \in Writers(s) /\ u # t => u \notin Readers(s) \cup Writers(s)
=============================================================================
