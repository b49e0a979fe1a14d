------------------------------ MODULE RWLock ------------------------------
(***************************************************************************)
(* class RWLock of src/src/lock.h, one 16-bit word shared by Threads.      *)
(*                                                                         *)
(* A step is one access to the word: a locked instruction (xadd, bts, and) *)
(* or one load of a spin loop, together with the thread-local work that    *)
(* follows it.  backoff() only delays, so between two loads of a spin loop *)
(* anything may happen.  The word is an integer below 2 * WRITE_LOCK: the  *)
(* writer bit is the top one, the bits below it count readers, and both    *)
(* directions of xadd wrap like the machine word does.                     *)
(***************************************************************************)
EXTENDS Naturals, FiniteSets

CONSTANTS
  Threads,       \* the callers
  WRITE_LOCK,    \* value of the writer bit, 2^15 in the code
  MAX_ATTEMPTS   \* failed loads a spin loop tolerates, 10 in the code

ASSUME ThreadsAssumption ==
  IsFiniteSet(Threads)
ASSUME WordAssumption ==
  /\ WRITE_LOCK \in Nat
  /\ Cardinality(Threads) < WRITE_LOCK
ASSUME AttemptsAssumption ==
  MAX_ATTEMPTS \in Nat

VARIABLES
  rw_lock,   \* the word
  pc,        \* where each thread is: see PC
  attempts   \* the local variable of the call a thread is in

vars == <<rw_lock, pc, attempts>>

(***************************************************************************)
(* The lock word.                                                          *)
(***************************************************************************)
Word == 0 .. (2 * WRITE_LOCK - 1)
is_write_locked(w) == w >= WRITE_LOCK
reader_count(w) == IF w >= WRITE_LOCK THEN w - WRITE_LOCK ELSE w
xadd_incr(w) == IF w = 2 * WRITE_LOCK - 1 THEN 0 ELSE w + 1
xadd_decr(w) == IF w = 0 THEN 2 * WRITE_LOCK - 1 ELSE w - 1
bts(w) == IF w >= WRITE_LOCK THEN w ELSE w + WRITE_LOCK
clear_writer(w) == reader_count(w)    \* atomic_and with LOCK_READER_MASK

(***************************************************************************)
(* Program locations.  "idle" holds nothing, "reading" and "writing" are   *)
(* between calls with the lock held.                                       *)
(***************************************************************************)
ReadCall == {"r_incr", "r_decr", "r_wait"}
WriteCall == {"w_bts", "w_drain", "w_clear", "w_wait"}
UpgradeCall == {"u_bts", "u_drain", "u_clear", "u_decr", "u_wait"}
PC == {"idle", "reading", "writing"} \cup ReadCall \cup WriteCall \cup UpgradeCall

InCall(t) == pc[t] \in ReadCall \cup WriteCall \cup UpgradeCall

Goto(t, from, to) ==
  /\ pc[t] = from
  /\ pc' = [pc EXCEPT ![t] = to]

Count(t) == attempts' = [attempts EXCEPT ![t] = @ + 1]
Reset(t) == attempts' = [attempts EXCEPT ![t] = 0]

Init ==
  /\ rw_lock = 0
  /\ pc = [t \in Threads |-> "idle"]
  /\ attempts = [t \in Threads |-> 0]

(***************************************************************************)
(* The three calls a thread may make, and the two releases.  An upgrade is *)
(* only ever called with a read lock held: the contract of lock.h, which   *)
(* module TxLocks examines for the one caller there is.                    *)
(***************************************************************************)
Enter(t) ==
  /\ \/ Goto(t, "idle", "r_incr")
     \/ Goto(t, "idle", "w_bts")
     \/ Goto(t, "reading", "u_bts")
  /\ UNCHANGED <<rw_lock, attempts>>

read_unlock(t) ==
  /\ Goto(t, "reading", "idle")
  /\ rw_lock' = xadd_decr(rw_lock)
  /\ UNCHANGED attempts

write_unlock(t) ==
  /\ Goto(t, "writing", "idle")
  /\ rw_lock' = clear_writer(rw_lock)
  /\ UNCHANGED attempts

(***************************************************************************)
(* read_lock: announce, look whether a writer was there, retreat and wait. *)
(***************************************************************************)
\* Slip: a reader that ignores the writer bit it has just seen.
read_lock_incr_blind(t) ==
  /\ rw_lock' = xadd_incr(rw_lock)
  /\ Goto(t, "r_incr", "reading")
  /\ Reset(t)

read_lock_incr(t) ==
  /\ rw_lock' = xadd_incr(rw_lock)
  /\ \/ ~is_write_locked(rw_lock) /\ Goto(t, "r_incr", "reading") /\ Reset(t)
     \/ is_write_locked(rw_lock) /\ Goto(t, "r_incr", "r_decr") /\ UNCHANGED attempts

read_lock_decr(t) ==
  /\ Goto(t, "r_decr", "r_wait")
  /\ rw_lock' = xadd_decr(rw_lock)
  /\ UNCHANGED attempts

\* One load of a loop that waits for a writer to go; `more' says whether
\* another attempt is allowed, and a refused one throws back to `giveup'.
WaitForWriter(t, here, retry, giveup, more) ==
  /\ \/ ~is_write_locked(rw_lock) /\ Goto(t, here, retry) /\ UNCHANGED attempts
     \/ is_write_locked(rw_lock) /\ more /\ Goto(t, here, here) /\ Count(t)
     \/ is_write_locked(rw_lock) /\ ~more /\ Goto(t, here, giveup) /\ Reset(t)
  /\ UNCHANGED rw_lock

read_lock_wait(t) ==
  WaitForWriter(t, "r_wait", "r_incr", "idle", attempts[t] + 1 <= MAX_ATTEMPTS)

(***************************************************************************)
(* write_lock and upgrade_write_lock: take the writer bit, then wait until *)
(* the readers (all, or all but oneself) are gone.  A thread that gives up *)
(* there has to clear the bit again.                                       *)
(***************************************************************************)
TakeWriterBit(t, here, drain, wait) ==
  /\ rw_lock' = bts(rw_lock)
  /\ \/ ~is_write_locked(rw_lock) /\ Goto(t, here, drain) /\ Reset(t)
     \/ is_write_locked(rw_lock) /\ Goto(t, here, wait) /\ UNCHANGED attempts

WaitForReaders(t, here, done, clear, own) ==
  LET more == attempts[t] + 1 <= MAX_ATTEMPTS IN
  /\ \/ reader_count(rw_lock) <= own /\ Goto(t, here, done) /\ Reset(t)
     \/ reader_count(rw_lock) > own /\ more /\ Goto(t, here, here) /\ Count(t)
     \/ reader_count(rw_lock) > own /\ ~more /\ Goto(t, here, clear) /\ Reset(t)
  /\ UNCHANGED rw_lock

ClearWriterBit(t, here, giveup) ==
  /\ Goto(t, here, giveup)
  /\ rw_lock' = clear_writer(rw_lock)
  /\ UNCHANGED attempts

write_lock_bts(t) == TakeWriterBit(t, "w_bts", "w_drain", "w_wait")
write_lock_drain(t) == WaitForReaders(t, "w_drain", "writing", "w_clear", 0)
\* Slip: the timed-out writer throws without clearing the bit.
write_lock_timeout_leak(t) ==
  Goto(t, "w_clear", "idle") /\ UNCHANGED <<rw_lock, attempts>>

write_lock_timeout(t) == ClearWriterBit(t, "w_clear", "idle")
\* Slip: the loop waits for the writer without counting its attempts.
write_lock_wait_uncounted(t) ==
  /\ ~is_write_locked(rw_lock) /\ Goto(t, "w_wait", "w_bts")
  /\ UNCHANGED <<rw_lock, attempts>>

write_lock_wait(t) ==
  WaitForWriter(t, "w_wait", "w_bts", "idle", attempts[t] + 1 <= MAX_ATTEMPTS)

upgrade_bts(t) == TakeWriterBit(t, "u_bts", "u_drain", "u_wait")
\* Slip: the upgrade tolerates one reader too many.
upgrade_drain_early(t) == WaitForReaders(t, "u_drain", "u_decr", "u_clear", 2)

upgrade_drain(t) == WaitForReaders(t, "u_drain", "u_decr", "u_clear", 1)
\* Slip: the timed-out upgrade gives its read share away but reports it held.
upgrade_timeout_drop(t) ==
  /\ Goto(t, "u_clear", "reading")
  /\ rw_lock' = xadd_decr(clear_writer(rw_lock))
  /\ UNCHANGED attempts

upgrade_timeout(t) == ClearWriterBit(t, "u_clear", "reading")

\* "attempts++ > MAX_ATTEMPTS": one attempt more than the other loops.
upgrade_wait(t) ==
  WaitForWriter(t, "u_wait", "u_bts", "reading", attempts[t] <= MAX_ATTEMPTS)
upgrade_decr(t) ==
  /\ Goto(t, "u_decr", "writing")
  /\ rw_lock' = xadd_decr(rw_lock)
  /\ UNCHANGED attempts

Step(t) ==
  \/ read_lock_incr(t) \/ read_lock_decr(t) \/ read_lock_wait(t)
  \/ write_lock_bts(t) \/ write_lock_drain(t) \/ write_lock_timeout(t)
  \/ write_lock_wait(t)
  \/ upgrade_bts(t) \/ upgrade_drain(t) \/ upgrade_timeout(t)
  \/ upgrade_wait(t) \/ upgrade_decr(t)

Next ==
  \E t \in Threads : Enter(t) \/ Step(t) \/ read_unlock(t) \/ write_unlock(t)

Spec == Init /\ [][Next]_vars

\* A thread inside a call is running code and is scheduled again and again;
\* nothing obliges it to make a call or to release what it holds.
FairSpec == Spec /\ \A t \in Threads : WF_vars(Step(t))

-----------------------------------------------------------------------------
(***************************************************************************)
(* Properties.                                                             *)
(***************************************************************************)
TypeOK ==
  /\ rw_lock \in Word
  /\ pc \in [Threads -> PC]
  /\ attempts \in [Threads -> 0 .. (MAX_ATTEMPTS + 1)]

\* Where a thread holds a share, is counted in the word, owns the writer bit,
\* has exclusive access.
Sharing == {"reading", "u_bts", "u_wait", "u_drain", "u_clear"}
Announced == Sharing \cup {"r_decr", "u_decr"}
WithBit == {"writing", "w_drain", "w_clear", "u_drain", "u_clear", "u_decr"}
Excluding == {"writing", "u_decr"}

At(places) == {t \in Threads : pc[t] \in places}
Readers == At(Sharing)
Counted == At(Announced)
BitOwners == At(WithBit)
Writers == At(Excluding)

\* RWLock's purpose: while write_lock or upgrade_write_lock has succeeded for
\* one thread no other thread has the lock in either mode, although readers
\* announce themselves before they look and writers before readers have left.
Exclusion ==
  \A t \in Writers : Writers = {t} /\ Readers = {}

\* The word says exactly who is there, through every retreat and timeout:
\* the reader bits count the announced readers and the writer bit is set
\* iff some thread has to clear it.  A timed-out call leaves no trace.
WordMatchesThreads ==
  /\ reader_count(rw_lock) = Cardinality(Counted)
  /\ is_write_locked(rw_lock) <=> BitOwners # {}
  /\ \A s, t \in BitOwners : s = t

\* The assertions of read_lock (line 89), read_unlock (107) and write_unlock
\* (182) never fire: the reader bits do not overflow into the writer bit and
\* do not run below zero.
AssertionsHold ==
  \A t \in Threads :
    /\ pc[t] = "r_incr" => reader_count(rw_lock) # WRITE_LOCK - 1
    /\ pc[t] \in {"reading", "r_decr", "u_decr"} => reader_count(rw_lock) # 0
    /\ pc[t] = "writing" => is_write_locked(rw_lock)

\* No caller hangs: once no new call is made, every call in progress returns
\* or throws LockTimeout, even if no lock is ever released and even when two
\* readers upgrade at the same time.
EveryCallEnds ==
  <>[][~ \E t \in Threads : Enter(t)]_vars => <>[](\A t \in Threads : ~InCall(t))

\* The lock word implements the abstract readers-writer lock.
Abstract == INSTANCE ReadersWriter WITH readers <- Readers, writer <- Writers
ImplementsReadersWriter == Abstract!RWSpec

=============================================================================
