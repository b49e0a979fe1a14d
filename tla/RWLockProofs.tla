--------------------------- MODULE RWLockProofs ---------------------------
(***************************************************************************)
(* Proofs about RWLock for every finite set of threads smaller than the    *)
(* reader mask and every number of attempts.                               *)
(***************************************************************************)
EXTENDS RWLock, FiniteSetTheorems, TLAPS

\* The inductive invariant.  Exclusion alone is not inductive: a writer may
\* enter because the word shows no reader, so the word must be tied to the
\* threads, and the tie only survives while the word cannot wrap.
IInv == TypeOK /\ WordMatchesThreads /\ Exclusion

USE ThreadsAssumption, WordAssumption, AttemptsAssumption

(***************************************************************************)
(* The word's operations, as long as the reader bits do not wrap.          *)
(***************************************************************************)
\* xadd with +1 adds one reader and leaves the writer bit alone.
LEMMA IncrWord ==
  ASSUME NEW w \in Word, reader_count(w) # WRITE_LOCK - 1
  PROVE  /\ xadd_incr(w) \in Word
         /\ reader_count(xadd_incr(w)) = reader_count(w) + 1
         /\ is_write_locked(xadd_incr(w)) <=> is_write_locked(w)
  BY DEF Word, xadd_incr, reader_count, is_write_locked

\* xadd with -1 removes one reader and leaves the writer bit alone.
LEMMA DecrWord ==
  ASSUME NEW w \in Word, reader_count(w) # 0
  PROVE  /\ xadd_decr(w) \in Word
         /\ reader_count(xadd_decr(w)) = reader_count(w) - 1
         /\ is_write_locked(xadd_decr(w)) <=> is_write_locked(w)
  BY DEF Word, xadd_decr, reader_count, is_write_locked

\* bts sets the writer bit, atomic_and clears it, neither touches the readers.
LEMMA BitWord ==
  ASSUME NEW w \in Word
  PROVE  /\ bts(w) \in Word /\ clear_writer(w) \in Word
         /\ reader_count(bts(w)) = reader_count(w)
         /\ reader_count(clear_writer(w)) = reader_count(w)
         /\ is_write_locked(bts(w))
         /\ ~is_write_locked(clear_writer(w))
         /\ is_write_locked(w) => bts(w) = w
  BY DEF Word, bts, clear_writer, reader_count, is_write_locked

(***************************************************************************)
(* What a move of one thread does to the sets of threads.                  *)
(***************************************************************************)
\* Moving thread t adds it to, or takes it from, the set of threads at S.
LEMMA Move ==
  ASSUME TypeOK, NEW t \in Threads, NEW from, NEW to, Goto(t, from, to), NEW S
  PROVE  /\ t \in At(S) <=> from \in S
         /\ At(S)' = IF to \in S THEN At(S) \cup {t} ELSE At(S) \ {t}
  BY DEF TypeOK, Goto, At

\* A move between two places that are both in S, or both outside, changes
\* nothing about At(S).
LEMMA SameStanding ==
  ASSUME TypeOK, NEW t \in Threads, NEW from, NEW to, Goto(t, from, to), NEW S,
         from \in S <=> to \in S
  PROVE  At(S)' = At(S)
  BY DEF TypeOK, Goto, At

\* The same for the four sets of the invariant at once.
LEMMA Moves ==
  ASSUME TypeOK, NEW t \in Threads, NEW from, NEW to, Goto(t, from, to)
  PROVE  /\ t \in Readers <=> from \in Sharing
         /\ t \in Counted <=> from \in Announced
         /\ t \in BitOwners <=> from \in WithBit
         /\ t \in Writers <=> from \in Excluding
         /\ Readers' = IF to \in Sharing THEN Readers \cup {t} ELSE Readers \ {t}
         /\ Counted' = IF to \in Announced THEN Counted \cup {t} ELSE Counted \ {t}
         /\ BitOwners' = IF to \in WithBit THEN BitOwners \cup {t} ELSE BitOwners \ {t}
         /\ Writers' = IF to \in Excluding THEN Writers \cup {t} ELSE Writers \ {t}
  BY Move DEF Readers, Counted, BitOwners, Writers

\* Counting the announced readers.
LEMMA Count1 ==
  ASSUME NEW t \in Threads
  PROVE  /\ IsFiniteSet(Counted) /\ Cardinality(Counted) \in Nat
         /\ Cardinality(Counted) = 0 <=> Counted = {}
         /\ Cardinality(Counted) <= 1 /\ t \in Counted => Counted = {t}
         /\ t \notin Counted => /\ Cardinality(Counted) < WRITE_LOCK - 1
                                /\ Cardinality(Counted \cup {t}) = Cardinality(Counted) + 1
         /\ t \in Counted => /\ Cardinality(Counted) # 0
                             /\ Cardinality(Counted \ {t}) = Cardinality(Counted) - 1
  <1>1. Counted \in SUBSET Threads  BY DEF Counted, At
  <1>2. IsFiniteSet(Counted) /\ Cardinality(Counted) \in Nat
    BY <1>1, FS_Subset, FS_CardinalityType
  <1>3. Cardinality(Counted) = 0 <=> Counted = {}
    BY <1>2, FS_EmptySet
  <1>4. ASSUME t \notin Counted
        PROVE  /\ Cardinality(Counted) < WRITE_LOCK - 1
               /\ Cardinality(Counted \cup {t}) = Cardinality(Counted) + 1
    <2>1. Cardinality(Counted \cup {t}) = Cardinality(Counted) + 1
      BY <1>2, <1>4, FS_AddElement
    <2>2. Cardinality(Counted \cup {t}) <= Cardinality(Threads)
      BY <1>1, FS_Subset
    <2>3. Cardinality(Threads) \in Nat
      BY FS_CardinalityType
    <2>4. QED  BY <2>1, <2>2, <2>3, <1>2
  <1>5. ASSUME t \in Counted
        PROVE  Cardinality(Counted \ {t}) = Cardinality(Counted) - 1
    BY <1>2, <1>5, FS_RemoveElement
  <1>6. ASSUME Cardinality(Counted) <= 1, t \in Counted
        PROVE  Counted = {t}
    <2>1. Cardinality(Counted) = 1  BY <1>6, <1>2, <1>3
    <2>2. PICK x : Counted = {x}  BY <2>1, <1>2, FS_Singleton
    <2>3. QED  BY <2>2, <1>6
  <1>7. QED  BY <1>2, <1>3, <1>4, <1>5, <1>6

(***************************************************************************)
(* Every step keeps the invariant and is a step or a stutter of the        *)
(* abstract lock.  One lemma per kind of step; Kept is the goal.           *)
(***************************************************************************)
Kept == IInv' /\ [Abstract!RWNext]_(Abstract!rwVars)


\* The local counter stays in range whatever a loop does with it.
LEMMA AttemptsType ==
  ASSUME TypeOK, NEW t \in Threads,
         \/ UNCHANGED attempts
         \/ Reset(t)
         \/ Count(t) /\ attempts[t] <= MAX_ATTEMPTS
  PROVE  attempts' \in [Threads -> 0 .. (MAX_ATTEMPTS + 1)]
  BY DEF TypeOK, Reset, Count

\* The program counters stay in range.
LEMMA PCType ==
  ASSUME TypeOK, NEW t \in Threads, NEW from, NEW to \in PC, Goto(t, from, to)
  PROVE  pc' \in [Threads -> PC] /\ from \in PC
  BY DEF TypeOK, Goto

\* A move between two places of the same standing, the word untouched: a call
\* begins, a spin loop loads the word, a call that holds nothing gives up.
LEMMA Neutral ==
  ASSUME IInv, NEW t \in Threads, NEW from, NEW to \in PC, Goto(t, from, to),
         UNCHANGED rw_lock, attempts' \in [Threads -> 0 .. (MAX_ATTEMPTS + 1)],
         from \in Sharing <=> to \in Sharing,
         from \in Announced <=> to \in Announced,
         from \in WithBit <=> to \in WithBit,
         from \in Excluding <=> to \in Excluding
  PROVE  Kept
  <1>1. UNCHANGED <<Readers, Counted, BitOwners, Writers>>
    BY SameStanding DEF IInv, Readers, Counted, BitOwners, Writers
  <1>2. TypeOK'  BY PCType DEF TypeOK, IInv
  <1>3. Exclusion' /\ WordMatchesThreads'
    BY <1>1 DEF IInv, Exclusion, WordMatchesThreads
  <1>4. UNCHANGED Abstract!rwVars  BY <1>1 DEF Abstract!rwVars
  <1>5. QED  BY <1>2, <1>3, <1>4 DEF Kept, IInv

\* One turn of a spin loop that waits for a writer.
LEMMA Spin ==
  ASSUME IInv, NEW t \in Threads, NEW here \in PC, NEW retry \in PC, NEW giveup \in PC,
         Goto(t, here, retry) \/ Goto(t, here, here) \/ Goto(t, here, giveup),
         UNCHANGED rw_lock,
         \/ UNCHANGED attempts
         \/ Reset(t)
         \/ Count(t) /\ attempts[t] <= MAX_ATTEMPTS,
         here \notin WithBit \cup Excluding \cup {"r_decr"},
         retry \notin WithBit \cup Excluding \cup {"r_decr"},
         giveup \notin WithBit \cup Excluding \cup {"r_decr"},
         here \in Sharing <=> retry \in Sharing,
         here \in Sharing <=> giveup \in Sharing
  PROVE  Kept
  <1>1. attempts' \in [Threads -> 0 .. (MAX_ATTEMPTS + 1)]
    BY AttemptsType DEF IInv
  <1>2. ASSUME NEW p \in PC, p \notin WithBit \cup Excluding \cup {"r_decr"}
        PROVE  p \in Announced <=> p \in Sharing
    BY <1>2 DEF Announced, WithBit, Excluding
  <1>3. CASE Goto(t, here, retry)  BY <1>1, <1>2, <1>3, Neutral
  <1>4. CASE Goto(t, here, here)  BY <1>1, <1>2, <1>4, Neutral
  <1>5. CASE Goto(t, here, giveup)  BY <1>1, <1>2, <1>5, Neutral
  <1>6. QED  BY <1>3, <1>4, <1>5

\* The spin loops of read_lock, write_lock and upgrade_write_lock keep the
\* invariant.
LEMMA WaitSteps ==
  ASSUME IInv, NEW t \in Threads, read_lock_wait(t) \/ write_lock_wait(t) \/ upgrade_wait(t)
  PROVE  Kept
  <1> USE DEF PC, ReadCall, WriteCall, UpgradeCall, Sharing, WithBit, Excluding, WaitForWriter
  <1>0. attempts[t] \in Nat  BY DEF TypeOK, IInv
  <1>1. CASE read_lock_wait(t)
    <2>1. Goto(t, "r_wait", "r_incr") \/ Goto(t, "r_wait", "r_wait") \/ Goto(t, "r_wait", "idle")
      BY <1>1 DEF read_lock_wait
    <2>2. UNCHANGED attempts \/ Reset(t) \/ (Count(t) /\ attempts[t] <= MAX_ATTEMPTS)
      BY <1>0, <1>1 DEF read_lock_wait
    <2>3. rw_lock' = rw_lock  BY <1>1 DEF read_lock_wait
    <2>4. /\ {"r_wait", "r_incr", "idle"} \subseteq PC \ (WithBit \cup Excluding \cup {"r_decr"})
          /\ {"r_wait", "r_incr", "idle"} \cap Sharing = {}
      OBVIOUS
    <2> HIDE DEF PC, Sharing, WithBit, Excluding
    <2>5. QED  BY <2>1, <2>2, <2>3, <2>4, Spin
  <1>2. CASE write_lock_wait(t)
    <2>1. Goto(t, "w_wait", "w_bts") \/ Goto(t, "w_wait", "w_wait") \/ Goto(t, "w_wait", "idle")
      BY <1>2 DEF write_lock_wait
    <2>2. UNCHANGED attempts \/ Reset(t) \/ (Count(t) /\ attempts[t] <= MAX_ATTEMPTS)
      BY <1>0, <1>2 DEF write_lock_wait
    <2>3. rw_lock' = rw_lock  BY <1>2 DEF write_lock_wait
    <2>4. /\ {"w_wait", "w_bts", "idle"} \subseteq PC \ (WithBit \cup Excluding \cup {"r_decr"})
          /\ {"w_wait", "w_bts", "idle"} \cap Sharing = {}
      OBVIOUS
    <2> HIDE DEF PC, Sharing, WithBit, Excluding
    <2>5. QED  BY <2>1, <2>2, <2>3, <2>4, Spin
  <1>3. CASE upgrade_wait(t)
    <2>1. Goto(t, "u_wait", "u_bts") \/ Goto(t, "u_wait", "u_wait") \/ Goto(t, "u_wait", "reading")
      BY <1>3 DEF upgrade_wait
    <2>2. UNCHANGED attempts \/ Reset(t) \/ (Count(t) /\ attempts[t] <= MAX_ATTEMPTS)
      BY <1>0, <1>3 DEF upgrade_wait
    <2>3. rw_lock' = rw_lock  BY <1>3 DEF upgrade_wait
    <2>4. /\ {"u_wait", "u_bts", "reading"} \subseteq PC \ (WithBit \cup Excluding \cup {"r_decr"})
          /\ {"u_wait", "u_bts", "reading"} \subseteq Sharing
      OBVIOUS
    <2> HIDE DEF PC, Sharing, WithBit, Excluding
    <2>5. QED  BY <2>1, <2>2, <2>3, <2>4, Spin
  <1>4. QED  BY <1>1, <1>2, <1>3

\* So does the start of a call.
LEMMA EnterStep ==
  ASSUME IInv, NEW t \in Threads, Enter(t)
  PROVE  Kept
  <1> USE DEF PC, ReadCall, WriteCall, UpgradeCall, Sharing, Announced, WithBit, Excluding
  <1>1. attempts' \in [Threads -> 0 .. (MAX_ATTEMPTS + 1)]
    BY AttemptsType DEF Enter, IInv
  <1>2. CASE Goto(t, "idle", "r_incr")  BY <1>1, <1>2, Neutral DEF Enter
  <1>3. CASE Goto(t, "idle", "w_bts")  BY <1>1, <1>3, Neutral DEF Enter
  <1>4. CASE Goto(t, "reading", "u_bts")  BY <1>1, <1>4, Neutral DEF Enter
  <1>5. QED  BY <1>2, <1>3, <1>4 DEF Enter

\* The places of every move below, and the type of what it leaves behind.
LEMMA MoveType ==
  ASSUME IInv, NEW t \in Threads, NEW from, NEW to \in PC, Goto(t, from, to),
         rw_lock' \in Word, UNCHANGED attempts \/ Reset(t)
  PROVE  TypeOK'
  BY PCType, AttemptsType DEF IInv, TypeOK

\* read_unlock takes one announced reader off the word and out of the lock.
LEMMA read_unlock_Step ==
  ASSUME IInv, NEW t \in Threads, read_unlock(t)
  PROVE  Kept
  <1> USE DEF Sharing, Announced, WithBit, Excluding
  <1>1. /\ t \in Readers /\ t \in Counted /\ t \notin BitOwners /\ t \notin Writers
        /\ Readers' = Readers \ {t} /\ Counted' = Counted \ {t}
        /\ BitOwners' = BitOwners /\ Writers' = Writers
    BY Moves DEF read_unlock, IInv
  <1>2. reader_count(rw_lock) # 0
    BY <1>1, Count1 DEF IInv, WordMatchesThreads
  <1>3. /\ rw_lock' \in Word
        /\ reader_count(rw_lock') = reader_count(rw_lock) - 1
        /\ is_write_locked(rw_lock') <=> is_write_locked(rw_lock)
    BY <1>2, DecrWord DEF read_unlock, IInv, TypeOK
  <1>4. TypeOK'
    BY <1>3, MoveType DEF read_unlock, PC
  <1>5. WordMatchesThreads'
    BY <1>1, <1>3, Count1 DEF IInv, WordMatchesThreads
  <1>6. Exclusion'  BY <1>1 DEF IInv, Exclusion
  <1>7. Abstract!RWNext
    BY <1>1 DEF Abstract!RWNext, Abstract!ReleaseRead
  <1>8. QED  BY <1>4, <1>5, <1>6, <1>7 DEF Kept, IInv

\* write_unlock clears the bit of the only writer.
LEMMA write_unlock_Step ==
  ASSUME IInv, NEW t \in Threads, write_unlock(t)
  PROVE  Kept
  <1> USE DEF Sharing, Announced, WithBit, Excluding
  <1>1. /\ t \notin Readers /\ t \notin Counted /\ t \in BitOwners /\ t \in Writers
        /\ Readers' = Readers /\ Counted' = Counted
        /\ BitOwners' = BitOwners \ {t} /\ Writers' = Writers \ {t}
    BY Moves DEF write_unlock, IInv
  <1>2. BitOwners' = {} /\ Writers' = {}
    BY <1>1 DEF IInv, WordMatchesThreads, Exclusion
  <1>3. /\ rw_lock' \in Word
        /\ reader_count(rw_lock') = reader_count(rw_lock)
        /\ ~is_write_locked(rw_lock')
    BY BitWord DEF write_unlock, IInv, TypeOK
  <1>4. TypeOK'
    BY <1>3, MoveType DEF write_unlock, PC
  <1>5. WordMatchesThreads'
    BY <1>1, <1>2, <1>3 DEF IInv, WordMatchesThreads
  <1>6. Exclusion'  BY <1>2 DEF Exclusion
  <1>7. Abstract!RWNext
    BY <1>1 DEF Abstract!RWNext, Abstract!ReleaseWrite
  <1>8. QED  BY <1>4, <1>5, <1>6, <1>7 DEF Kept, IInv

\* The reader announces itself: it has the lock iff no writer bit was set.
LEMMA read_lock_incr_Step ==
  ASSUME IInv, NEW t \in Threads, read_lock_incr(t)
  PROVE  Kept
  <1> USE DEF Sharing, Announced, WithBit, Excluding
  <1>1. pc[t] = "r_incr"  BY DEF read_lock_incr, Goto
  <1>2. t \notin Counted  BY <1>1 DEF Counted, At
  <1>3. reader_count(rw_lock) # WRITE_LOCK - 1
    <2>1. Cardinality(Counted) \in Nat /\ Cardinality(Counted) < WRITE_LOCK - 1
      BY <1>2, Count1
    <2>2. reader_count(rw_lock) = Cardinality(Counted)
      BY DEF IInv, WordMatchesThreads
    <2>3. QED  BY <2>1, <2>2
  <1>4. /\ rw_lock' \in Word
        /\ reader_count(rw_lock') = reader_count(rw_lock) + 1
        /\ is_write_locked(rw_lock') <=> is_write_locked(rw_lock)
    BY <1>3, IncrWord DEF read_lock_incr, IInv, TypeOK
  <1>5. CASE ~is_write_locked(rw_lock) /\ Goto(t, "r_incr", "reading") /\ Reset(t)
    <2>1. /\ t \notin Readers
          /\ Readers' = Readers \cup {t} /\ Counted' = Counted \cup {t}
          /\ BitOwners' = BitOwners /\ Writers' = Writers
      BY <1>5, Moves DEF IInv
    <2>2. BitOwners = {}  BY <1>5 DEF IInv, WordMatchesThreads
    <2>3. Writers = {}  BY <2>2 DEF BitOwners, Writers, At
    <2>4. TypeOK'  BY <1>4, <1>5, MoveType DEF PC
    <2>5. WordMatchesThreads'
      BY <1>2, <1>4, <2>1, Count1 DEF IInv, WordMatchesThreads
    <2>6. Exclusion'  BY <2>1, <2>3 DEF Exclusion
    <2>7. Abstract!RWNext
      BY <2>1, <2>3 DEF Abstract!RWNext, Abstract!AcquireRead
    <2>8. QED  BY <2>4, <2>5, <2>6, <2>7 DEF Kept, IInv
  <1>6. CASE is_write_locked(rw_lock) /\ Goto(t, "r_incr", "r_decr") /\ UNCHANGED attempts
    <2>1. /\ Readers' = Readers /\ Counted' = Counted \cup {t}
          /\ BitOwners' = BitOwners /\ Writers' = Writers
      BY <1>6, Moves DEF IInv
    <2>2. TypeOK'  BY <1>4, <1>6, MoveType DEF PC, ReadCall
    <2>3. WordMatchesThreads'
      BY <1>2, <1>4, <2>1, Count1 DEF IInv, WordMatchesThreads
    <2>4. Exclusion'  BY <2>1 DEF IInv, Exclusion
    <2>5. UNCHANGED Abstract!rwVars  BY <2>1 DEF Abstract!rwVars
    <2>6. QED  BY <2>2, <2>3, <2>4, <2>5 DEF Kept, IInv
  <1>7. QED  BY <1>5, <1>6 DEF read_lock_incr

\* Taking oneself out of the count: the reader that met a writer, and the
\* upgraded writer that no longer needs its share.
LEMMA DecrSteps ==
  ASSUME IInv, NEW t \in Threads, read_lock_decr(t) \/ upgrade_decr(t)
  PROVE  Kept
  <1> USE DEF Sharing, Announced, WithBit, Excluding
  <1>1. /\ t \in Counted /\ Counted' = Counted \ {t}
        /\ Readers' = Readers /\ BitOwners' = BitOwners /\ Writers' = Writers
    <2>1. CASE read_lock_decr(t)
      BY <2>1, Moves DEF read_lock_decr, IInv
    <2>2. CASE upgrade_decr(t)
      BY <2>2, Moves DEF upgrade_decr, IInv
    <2>3. QED  BY <2>1, <2>2
  <1>2. reader_count(rw_lock) # 0
    BY <1>1, Count1 DEF IInv, WordMatchesThreads
  <1>3. /\ rw_lock' \in Word
        /\ reader_count(rw_lock') = reader_count(rw_lock) - 1
        /\ is_write_locked(rw_lock') <=> is_write_locked(rw_lock)
    BY <1>2, DecrWord DEF read_lock_decr, upgrade_decr, IInv, TypeOK
  <1>4. TypeOK'
    BY <1>3, MoveType DEF read_lock_decr, upgrade_decr, PC, ReadCall
  <1>5. WordMatchesThreads'
    BY <1>1, <1>3, Count1 DEF IInv, WordMatchesThreads
  <1>6. Exclusion'  BY <1>1 DEF IInv, Exclusion
  <1>7. UNCHANGED Abstract!rwVars  BY <1>1 DEF Abstract!rwVars
  <1>8. QED  BY <1>4, <1>5, <1>6, <1>7 DEF Kept, IInv

\* bts: whoever finds the bit clear becomes its only owner.
LEMMA BtsSteps ==
  ASSUME IInv, NEW t \in Threads, write_lock_bts(t) \/ upgrade_bts(t)
  PROVE  Kept
  <1> USE DEF Sharing, Announced, WithBit, Excluding
  <1>1. CASE is_write_locked(rw_lock)
    <2>1. rw_lock' = rw_lock /\ UNCHANGED attempts
      BY <1>1, BitWord DEF write_lock_bts, upgrade_bts, TakeWriterBit, IInv, TypeOK
    <2>2. attempts' \in [Threads -> 0 .. (MAX_ATTEMPTS + 1)]
      BY <2>1, AttemptsType DEF IInv
    <2>3. CASE Goto(t, "w_bts", "w_wait")
      BY <2>1, <2>2, <2>3, Neutral DEF PC, WriteCall
    <2>4. CASE Goto(t, "u_bts", "u_wait")
      BY <2>1, <2>2, <2>4, Neutral DEF PC, UpgradeCall
    <2>5. QED  BY <1>1, <2>3, <2>4 DEF write_lock_bts, upgrade_bts, TakeWriterBit
  <1>2. CASE ~is_write_locked(rw_lock)
    <2>1. Goto(t, "w_bts", "w_drain") \/ Goto(t, "u_bts", "u_drain")
      BY <1>2 DEF write_lock_bts, upgrade_bts, TakeWriterBit
    <2>2. rw_lock' = bts(rw_lock) /\ Reset(t)
      BY <1>2 DEF write_lock_bts, upgrade_bts, TakeWriterBit
    <2>3. /\ Readers' = Readers /\ Counted' = Counted
          /\ BitOwners' = BitOwners \cup {t} /\ Writers' = Writers
      <3>1. CASE Goto(t, "w_bts", "w_drain")  BY <3>1, Moves DEF IInv
      <3>2. CASE Goto(t, "u_bts", "u_drain")  BY <3>2, Moves DEF IInv
      <3>3. QED  BY <2>1, <3>1, <3>2
    <2>4. BitOwners = {}  BY <1>2 DEF IInv, WordMatchesThreads
    <2>5. /\ rw_lock' \in Word
          /\ reader_count(rw_lock') = reader_count(rw_lock)
          /\ is_write_locked(rw_lock')
      BY <2>2, BitWord DEF IInv, TypeOK
    <2>6. TypeOK'
      BY <2>1, <2>2, <2>5, MoveType DEF PC, WriteCall, UpgradeCall
    <2>7. WordMatchesThreads'
      BY <2>3, <2>4, <2>5 DEF IInv, WordMatchesThreads
    <2>8. Exclusion'  BY <2>3 DEF IInv, Exclusion
    <2>9. UNCHANGED Abstract!rwVars  BY <2>3 DEF Abstract!rwVars
    <2>10. QED  BY <2>6, <2>7, <2>8, <2>9 DEF Kept, IInv
  <1>3. QED  BY <1>1, <1>2

\* The timed-out owner clears the bit, and nobody else had it.
LEMMA TimeoutSteps ==
  ASSUME IInv, NEW t \in Threads, write_lock_timeout(t) \/ upgrade_timeout(t)
  PROVE  Kept
  <1> USE DEF Sharing, Announced, WithBit, Excluding
  <1>1. Goto(t, "w_clear", "idle") \/ Goto(t, "u_clear", "reading")
    BY DEF write_lock_timeout, upgrade_timeout, ClearWriterBit
  <1>2. rw_lock' = clear_writer(rw_lock) /\ UNCHANGED attempts
    BY DEF write_lock_timeout, upgrade_timeout, ClearWriterBit
  <1>3. /\ t \in BitOwners /\ BitOwners' = BitOwners \ {t}
        /\ Readers' = Readers /\ Counted' = Counted /\ Writers' = Writers
    <2>1. CASE Goto(t, "w_clear", "idle")  BY <2>1, Moves DEF IInv
    <2>2. CASE Goto(t, "u_clear", "reading")  BY <2>2, Moves DEF IInv
    <2>3. QED  BY <1>1, <2>1, <2>2
  <1>4. BitOwners' = {}  BY <1>3 DEF IInv, WordMatchesThreads
  <1>5. /\ rw_lock' \in Word
        /\ reader_count(rw_lock') = reader_count(rw_lock)
        /\ ~is_write_locked(rw_lock')
    BY <1>2, BitWord DEF IInv, TypeOK
  <1>6. TypeOK'  BY <1>1, <1>2, <1>5, MoveType DEF PC
  <1>7. WordMatchesThreads'
    BY <1>3, <1>4, <1>5 DEF IInv, WordMatchesThreads
  <1>8. Exclusion'  BY <1>3 DEF IInv, Exclusion
  <1>9. UNCHANGED Abstract!rwVars  BY <1>3 DEF Abstract!rwVars
  <1>10. QED  BY <1>6, <1>7, <1>8, <1>9 DEF Kept, IInv

\* The owner of the bit waits for readers, and has the lock once the word
\* shows none but its own share.
LEMMA DrainSteps ==
  ASSUME IInv, NEW t \in Threads, write_lock_drain(t) \/ upgrade_drain(t)
  PROVE  Kept
  <1> USE DEF Sharing, Announced, WithBit, Excluding
  <1>0. UNCHANGED rw_lock /\ rw_lock \in Word /\ attempts[t] \in Nat
    BY DEF write_lock_drain, upgrade_drain, WaitForReaders, IInv, TypeOK
  <1>1. CASE \/ Goto(t, "w_drain", "w_drain") \/ Goto(t, "w_drain", "w_clear")
             \/ Goto(t, "u_drain", "u_drain") \/ Goto(t, "u_drain", "u_clear")
    <2>1. UNCHANGED attempts \/ Reset(t) \/ (Count(t) /\ attempts[t] <= MAX_ATTEMPTS)
      BY <1>0 DEF write_lock_drain, upgrade_drain, WaitForReaders
    <2>2. attempts' \in [Threads -> 0 .. (MAX_ATTEMPTS + 1)]
      BY <2>1, AttemptsType DEF IInv
    <2>3. QED  BY <1>0, <1>1, <2>2, Neutral DEF PC, WriteCall, UpgradeCall
  <1>2. CASE Goto(t, "w_drain", "writing") /\ reader_count(rw_lock) <= 0 /\ Reset(t)
    <2>1. /\ t \in BitOwners /\ BitOwners' = BitOwners
          /\ Readers' = Readers /\ Counted' = Counted /\ Writers' = Writers \cup {t}
      BY <1>2, Moves DEF IInv
    <2>2. Counted = {}
      <3>1. Cardinality(Counted) \in Nat /\ (Cardinality(Counted) = 0 <=> Counted = {})
        BY Count1
      <3>2. Cardinality(Counted) <= 0  BY <1>2 DEF IInv, WordMatchesThreads
      <3>3. QED  BY <3>1, <3>2
    <2>3. Readers = {}  BY <2>2 DEF Readers, Counted, At
    <2>4. Writers = {}
      <3>1. Writers \subseteq BitOwners  BY DEF Writers, BitOwners, At
      <3>2. t \notin Writers  BY <1>2 DEF Writers, At, Goto
      <3>3. QED  BY <2>1, <3>1, <3>2 DEF IInv, WordMatchesThreads
    <2>5. TypeOK'  BY <1>0, <1>2, MoveType DEF PC
    <2>6. WordMatchesThreads'  BY <1>0, <2>1 DEF IInv, WordMatchesThreads
    <2>7. Exclusion'  BY <2>1, <2>3, <2>4 DEF Exclusion
    <2>8. Abstract!RWNext
      BY <2>1, <2>3, <2>4 DEF Abstract!RWNext, Abstract!AcquireWrite
    <2>9. QED  BY <2>5, <2>6, <2>7, <2>8 DEF Kept, IInv
  <1>3. CASE Goto(t, "u_drain", "u_decr") /\ reader_count(rw_lock) <= 1 /\ Reset(t)
    <2>1. /\ t \in BitOwners /\ BitOwners' = BitOwners
          /\ t \in Readers /\ t \in Counted
          /\ Readers' = Readers \ {t} /\ Counted' = Counted /\ Writers' = Writers \cup {t}
      BY <1>3, Moves DEF IInv
    <2>2. Counted = {t}
      BY <1>3, <2>1, Count1 DEF IInv, WordMatchesThreads
    <2>3. Readers = {t}
      <3>1. Readers \subseteq Counted  BY DEF Readers, Counted, At
      <3>2. QED  BY <2>1, <2>2, <3>1
    <2>4. Writers = {}
      <3>1. Writers \subseteq BitOwners  BY DEF Writers, BitOwners, At
      <3>2. t \notin Writers  BY <1>3 DEF Writers, At, Goto
      <3>3. QED  BY <2>1, <3>1, <3>2 DEF IInv, WordMatchesThreads
    <2>5. TypeOK'  BY <1>0, <1>3, MoveType DEF PC, UpgradeCall
    <2>6. WordMatchesThreads'  BY <1>0, <2>1 DEF IInv, WordMatchesThreads
    <2>7. Exclusion'  BY <2>1, <2>3, <2>4 DEF Exclusion
    <2>8. Abstract!RWNext
      BY <2>1, <2>3, <2>4 DEF Abstract!RWNext, Abstract!Upgrade
    <2>9. QED  BY <2>5, <2>6, <2>7, <2>8 DEF Kept, IInv
  <1>4. QED
    BY <1>1, <1>2, <1>3 DEF write_lock_drain, upgrade_drain, WaitForReaders

-----------------------------------------------------------------------------
\* The constructor establishes the invariant.
LEMMA InitIInv == Init => IInv /\ Abstract!RWInit
  <1> SUFFICES ASSUME Init PROVE IInv /\ Abstract!RWInit  OBVIOUS
  <1>1. Readers = {} /\ Counted = {} /\ BitOwners = {} /\ Writers = {}
    BY DEF Init, Readers, Counted, BitOwners, Writers, At,
           Sharing, Announced, WithBit, Excluding
  <1>2. WRITE_LOCK > 0
    BY FS_CardinalityType
  <1>3. TypeOK
    BY <1>2 DEF Init, TypeOK, Word, PC
  <1>4. WordMatchesThreads
    BY <1>1, <1>2, FS_EmptySet DEF Init, WordMatchesThreads, reader_count, is_write_locked
  <1>5. QED  BY <1>1, <1>3, <1>4 DEF IInv, Exclusion, Abstract!RWInit

\* Every step keeps the invariant and is a step of the abstract lock.
LEMMA NextKept == IInv /\ [Next]_vars => Kept
  <1> SUFFICES ASSUME IInv, [Next]_vars PROVE Kept  OBVIOUS
  <1>1. CASE UNCHANGED vars
    <2>1. UNCHANGED <<Readers, Counted, BitOwners, Writers>>
      BY <1>1 DEF vars, Readers, Counted, BitOwners, Writers, At
    <2>2. IInv'
      BY <1>1, <2>1 DEF vars, IInv, TypeOK, WordMatchesThreads, Exclusion
    <2>3. QED  BY <2>1, <2>2 DEF Kept, Abstract!rwVars
  <1>2. ASSUME NEW t \in Threads,
               Enter(t) \/ Step(t) \/ read_unlock(t) \/ write_unlock(t)
        PROVE  Kept
    BY <1>2, EnterStep, read_unlock_Step, write_unlock_Step, read_lock_incr_Step,
       DecrSteps, WaitSteps, BtsSteps, DrainSteps, TimeoutSteps DEF Step
  <1>3. QED  BY <1>1, <1>2 DEF Next

\* The inductive invariant holds in every reachable state.
THEOREM Invariance == Spec => []IInv
  <1>1. Init => IInv  BY InitIInv
  <1>2. IInv /\ [Next]_vars => IInv'  BY NextKept DEF Kept
  <1>3. QED  BY <1>1, <1>2, PTL DEF Spec

\* The word and the attempt counters keep their types.
THEOREM TypeCorrect == Spec => []TypeOK
  BY Invariance, PTL DEF IInv

\* A granted write lock excludes every other holder.
THEOREM MutualExclusion == Spec => []Exclusion
  BY Invariance, PTL DEF IInv

\* The word counts the announced readers and has the bit iff someone owns it.
THEOREM WordCorrect == Spec => []WordMatchesThreads
  BY Invariance, PTL DEF IInv

\* No assertion of lock.h can fail with fewer threads than the reader mask.
THEOREM NoAssertionFails == Spec => []AssertionsHold
  <1>1. IInv => AssertionsHold
    <2> SUFFICES ASSUME IInv, NEW t \in Threads
                 PROVE  /\ pc[t] = "r_incr" => reader_count(rw_lock) # WRITE_LOCK - 1
                        /\ pc[t] \in {"reading", "r_decr", "u_decr"} => reader_count(rw_lock) # 0
                        /\ pc[t] = "writing" => is_write_locked(rw_lock)
      BY DEF AssertionsHold
    <2>0. reader_count(rw_lock) = Cardinality(Counted) /\ Cardinality(Counted) \in Nat
      BY Count1 DEF IInv, WordMatchesThreads
    <2>1. ASSUME pc[t] = "r_incr" PROVE reader_count(rw_lock) # WRITE_LOCK - 1
      <3>1. t \notin Counted  BY <2>1 DEF Counted, At, Announced, Sharing
      <3>2. Cardinality(Counted) < WRITE_LOCK - 1  BY <3>1, Count1
      <3>3. QED  BY <2>0, <3>2
    <2>2. ASSUME pc[t] \in {"reading", "r_decr", "u_decr"} PROVE reader_count(rw_lock) # 0
      <3>1. t \in Counted  BY <2>2 DEF Counted, At, Announced, Sharing
      <3>2. QED  BY <2>0, <3>1, Count1
    <2>3. ASSUME pc[t] = "writing" PROVE is_write_locked(rw_lock)
      <3>1. t \in BitOwners  BY <2>3 DEF BitOwners, At, WithBit
      <3>2. QED  BY <3>1 DEF IInv, WordMatchesThreads
    <2>4. QED  BY <2>1, <2>2, <2>3
  <1>2. QED  BY <1>1, Invariance, PTL

\* The lock word implements the abstract readers-writer lock.
THEOREM Refinement == Spec => ImplementsReadersWriter
  <1>1. Init => Abstract!RWInit  BY InitIInv
  <1>2. IInv /\ [Next]_vars => [Abstract!RWNext]_(Abstract!rwVars)
    BY NextKept DEF Kept
  <1>3. QED
    BY <1>1, <1>2, Invariance, PTL DEF Spec, ImplementsReadersWriter, Abstract!RWSpec
=============================================================================
