---------------------------- MODULE TxLocksProofs ----------------------------
(***************************************************************************)
(* The lock maps of transactions for any number of transactions, objects   *)
(* and stripes, when no transaction asks again for a lock that timed out.  *)
(***************************************************************************)
EXTENDS TxLocks, FiniteSetTheorems, TLAPS

\* Maps, words and modes agree: neither part is inductive without the other,
\* since an upgrade relies on the count to tell that it is the only reader.
IInv == TypeOK /\ MapsMatchLocks /\ TxExclusion

-----------------------------------------------------------------------------
\* The count of a stripe is in range and moves with the set it counts.
LEMMA Counts ==
  ASSUME NEW S, S \subseteq Threads
  PROVE  /\ IsFiniteSet(S) /\ Cardinality(S) \in Nat /\ Cardinality(S) < ReaderModulus
         /\ \A t \in Threads \ S : Cardinality(S \cup {t}) = Cardinality(S) + 1
         /\ \A t \in S : /\ Cardinality(S \ {t}) = Cardinality(S) - 1
                         /\ Cardinality(S) > 0
                         /\ Cardinality(S) <= 1 => S = {t}
         /\ Cardinality(S) = 0 <=> S = {}
  <1>1. IsFiniteSet(S)  BY ThreadsAssumption, FS_Subset
  <1>2. Cardinality(S) \in Nat /\ Cardinality(S) <= Cardinality(Threads)
    BY <1>1, ThreadsAssumption, FS_Subset, FS_CardinalityType
  <1>3. Cardinality(Threads) \in Nat /\ ReaderModulus \in Nat
    BY ThreadsAssumption, StripeAssumption, FS_CardinalityType
  <1>4. ASSUME NEW t \in Threads \ S PROVE Cardinality(S \cup {t}) = Cardinality(S) + 1
    BY <1>1, <1>4, FS_AddElement
  <1>5. Cardinality(S) = 0 <=> S = {}  BY <1>1, FS_EmptySet
  <1>6. ASSUME NEW t \in S
        PROVE  /\ Cardinality(S \ {t}) = Cardinality(S) - 1
               /\ Cardinality(S) > 0
               /\ Cardinality(S) <= 1 => S = {t}
    <2>1. IsFiniteSet(S \ {t}) /\ Cardinality(S \ {t}) = Cardinality(S) - 1
      BY <1>1, FS_RemoveElement
    <2>2. Cardinality(S \ {t}) \in Nat  BY <2>1, FS_CardinalityType
    <2>3. Cardinality(S \ {t}) = 0 <=> S \ {t} = {}  BY <2>1, FS_EmptySet
    <2>4. QED  BY <2>1, <2>2, <2>3, <1>2
  <1>7. QED  BY <1>1, <1>2, <1>3, <1>4, <1>5, <1>6, ThreadsAssumption

\* What a step does to the sets of holders when it changes one map entry.
LEMMA Holders ==
  ASSUME TypeOK, NEW t \in Threads, NEW s \in Stripes, NEW m \in LockState,
         mylocks' = [mylocks EXCEPT ![t][s] = m]
  PROVE  /\ mylocks' \in [Threads -> [Stripes -> LockState]]
         /\ \A r \in Stripes : r # s => Readers(r)' = Readers(r) /\ Writers(r)' = Writers(r)
         /\ Readers(s)' = IF m = "ReadLock" THEN Readers(s) \cup {t} ELSE Readers(s) \ {t}
         /\ Writers(s)' = IF m = "WriteLock" THEN Writers(s) \cup {t} ELSE Writers(s) \ {t}
  BY DEF TypeOK, Readers, Writers

\* A call that times out changes no lock.
LEMMA TimeoutStep ==
  ASSUME IInv, NEW t \in Threads, NEW s \in Stripes, Timeout(t, s)
  PROVE  IInv'
  <1> DEFINE m == IF mylocks[t][s] = "Absent" THEN "LockNotFound" ELSE mylocks[t][s]
  <1>1. m \in LockState /\ mylocks' = [mylocks EXCEPT ![t][s] = m]
    BY DEF IInv, TypeOK, Timeout, LockState
  <1>2. /\ m = "ReadLock" <=> t \in Readers(s)
        /\ m = "WriteLock" <=> t \in Writers(s)
    BY DEF Readers, Writers
  <1> HIDE DEF m
  <1>3. /\ mylocks' \in [Threads -> [Stripes -> LockState]]
        /\ \A r \in Stripes : Readers(r)' = Readers(r) /\ Writers(r)' = Writers(r)
    <2>1. TypeOK  BY DEF IInv
    <2>2. /\ mylocks' \in [Threads -> [Stripes -> LockState]]
          /\ \A r \in Stripes : r # s => Readers(r)' = Readers(r) /\ Writers(r)' = Writers(r)
          /\ Readers(s)' = IF m = "ReadLock" THEN Readers(s) \cup {t} ELSE Readers(s) \ {t}
          /\ Writers(s)' = IF m = "WriteLock" THEN Writers(s) \cup {t} ELSE Writers(s) \ {t}
      BY <2>1, <1>1, Holders
    <2>3. Readers(s)' = Readers(s)  BY <2>2, <1>2, Zenon
    <2>4. Writers(s)' = Writers(s)  BY <2>2, <1>2, Zenon
    <2>5. QED  BY <2>2, <2>3, <2>4, Zenon
  <1>4. TypeOK'  BY <1>3 DEF IInv, TypeOK, Timeout
  <1>5. MapsMatchLocks' /\ TxExclusion'
    BY <1>3 DEF IInv, MapsMatchLocks, TxExclusion, Timeout
  <1>6. QED  BY <1>4, <1>5 DEF IInv

\* Read, write or upgrade: the word changes as the holders do.
LEMMA LockStep ==
  ASSUME IInv, NEW t \in Threads, NEW s \in Stripes, NEW write \in BOOLEAN,
         pc[t] = "run",
         \/ lock_new(t, s, write)
         \/ lock_upgrade(t, s) /\ mylocks[t][s] # "LockNotFound"
  PROVE  IInv'
  <1> USE DEF IInv
  <1>1. CASE Timeout(t, s)  BY <1>1, TimeoutStep
  <1>2. CASE /\ mylocks[t][s] = "Absent" /\ ~writer[s] /\ (write => readers[s] = 0)
             /\ IF write THEN writer' = [writer EXCEPT ![s] = TRUE] /\ UNCHANGED readers
                ELSE /\ readers' = [readers EXCEPT ![s] = (@ + 1) % ReaderModulus]
                     /\ UNCHANGED writer
             /\ mylocks' = [mylocks EXCEPT ![t][s] = IF write THEN "WriteLock" ELSE "ReadLock"]
             /\ UNCHANGED pc
    <2>1. t \notin Readers(s) /\ t \notin Writers(s) /\ Writers(s) = {}
      BY <1>2 DEF Readers, Writers, MapsMatchLocks
    <2>2. CASE write
      <3>1. mylocks' = [mylocks EXCEPT ![t][s] = "WriteLock"] /\ "WriteLock" \in LockState
        BY <1>2, <2>2 DEF LockState
      <3>2. /\ mylocks' \in [Threads -> [Stripes -> LockState]]
            /\ \A r \in Stripes : Readers(r)' = Readers(r) /\ (r # s => Writers(r)' = Writers(r))
            /\ Writers(s)' = {t}
        <4>1. Readers(s) \ {t} = Readers(s) /\ Writers(s) \cup {t} = {t}  BY <2>1
        <4>2. QED  BY <3>1, <4>1, Holders
      <3>3. Readers(s) = {}
        <4>1. Readers(s) \subseteq Threads  BY DEF Readers
        <4>2. Cardinality(Readers(s)) = 0  BY <1>2, <2>2 DEF MapsMatchLocks
        <4>3. QED  BY <4>1, <4>2, Counts
      <3>4. TypeOK'  BY <1>2, <2>2, <3>2 DEF TypeOK
      <3>5. MapsMatchLocks'  BY <1>2, <2>2, <3>2 DEF MapsMatchLocks, TypeOK
      <3>6. TxExclusion'  BY <3>2, <3>3 DEF TxExclusion
      <3>7. QED  BY <3>4, <3>5, <3>6
    <2>3. CASE ~write
      <3>1. mylocks' = [mylocks EXCEPT ![t][s] = "ReadLock"] /\ "ReadLock" \in LockState
        BY <1>2, <2>3 DEF LockState
      <3>2. /\ mylocks' \in [Threads -> [Stripes -> LockState]]
            /\ \A r \in Stripes : Writers(r)' = Writers(r) /\ (r # s => Readers(r)' = Readers(r))
            /\ Readers(s)' = Readers(s) \cup {t}
        <4>1. Writers(s) \ {t} = Writers(s)  BY <2>1
        <4>2. QED  BY <3>1, <4>1, Holders
      <3>3. readers[s] + 1 < ReaderModulus /\ Cardinality(Readers(s) \cup {t}) = readers[s] + 1
        <4>1. Readers(s) \subseteq Threads /\ Readers(s) \cup {t} \subseteq Threads
          BY DEF Readers
        <4>2. Cardinality(Readers(s) \cup {t}) < ReaderModulus  BY <4>1, Counts
        <4>3. Cardinality(Readers(s) \cup {t}) = Cardinality(Readers(s)) + 1
          BY <4>1, <2>1, Counts
        <4>4. QED  BY <4>2, <4>3 DEF MapsMatchLocks
      <3>4. readers[s] \in Nat /\ ReaderModulus \in Nat \ {0}
        BY StripeAssumption DEF TypeOK
      <3>5. (readers[s] + 1) % ReaderModulus = readers[s] + 1  BY <3>3, <3>4
      <3>6. TypeOK'  BY <1>2, <2>3, <3>2, <3>3, <3>4, <3>5 DEF TypeOK
      <3>7. MapsMatchLocks'  BY <1>2, <2>3, <3>2, <3>3, <3>5 DEF MapsMatchLocks, TypeOK
      <3>8. TxExclusion'  BY <2>1, <3>2 DEF TxExclusion
      <3>9. QED  BY <3>6, <3>7, <3>8
    <2>4. QED  BY <2>2, <2>3
  <1>3. CASE /\ mylocks[t][s] = "ReadLock" /\ ~writer[s] /\ readers[s] <= 1
             /\ writer' = [writer EXCEPT ![s] = TRUE]
             /\ readers' = [readers EXCEPT ![s] = (@ + ReaderModulus - 1) % ReaderModulus]
             /\ mylocks' = [mylocks EXCEPT ![t][s] = "WriteLock"]
             /\ UNCHANGED pc
    <2>1. t \in Readers(s) /\ Readers(s) \subseteq Threads /\ Writers(s) = {}
      BY <1>3 DEF Readers, Writers, MapsMatchLocks
    <2>2. Readers(s) = {t} /\ readers[s] = 1
      <3>1. readers[s] = Cardinality(Readers(s)) /\ readers[s] \in Nat
        BY DEF MapsMatchLocks, TypeOK
      <3>2. Cardinality(Readers(s)) > 0 /\ (Cardinality(Readers(s)) <= 1 => Readers(s) = {t})
        BY <2>1, Counts
      <3>3. QED  BY <1>3, <3>1, <3>2
    <2>3. /\ mylocks' \in [Threads -> [Stripes -> LockState]]
          /\ \A r \in Stripes : r # s => Readers(r)' = Readers(r) /\ Writers(r)' = Writers(r)
          /\ Readers(s)' = {} /\ Writers(s)' = {t}
      <3>1. "WriteLock" \in LockState  BY DEF LockState
      <3>2. QED  BY <1>3, <2>1, <2>2, <3>1, Holders
    <2>4. (readers[s] + ReaderModulus - 1) % ReaderModulus = 0
      BY <2>2, StripeAssumption
    <2>5. TypeOK'  BY <1>3, <2>3, <2>4, StripeAssumption DEF TypeOK
    <2>6. Cardinality({}) = 0  BY FS_EmptySet
    <2>7. MapsMatchLocks'  BY <1>3, <2>3, <2>4, <2>6 DEF MapsMatchLocks, TypeOK
    <2>8. TxExclusion'  BY <2>3 DEF TxExclusion
    <2>9. QED  BY <2>5, <2>7, <2>8
  <1>4. QED
    <2>1. readers[s] \in Nat /\ writer[s] \in BOOLEAN /\ mylocks[t][s] \in LockState
      BY DEF TypeOK
    <2>2. CASE lock_new(t, s, write)  BY <2>1, <2>2, <1>1, <1>2 DEF lock_new
    <2>3. CASE lock_upgrade(t, s) /\ mylocks[t][s] # "LockNotFound"
      BY <2>1, <2>3, <1>1, <1>3 DEF lock_upgrade, LockState
    <2>4. QED  BY <2>2, <2>3

\* One turn of unlock_all gives back exactly what the entry stands for.
LEMMA UnlockStep ==
  ASSUME IInv, NEW t \in Threads, NEW s \in Stripes, unlock(t, s)
  PROVE  IInv'
  <1> USE DEF IInv
  <1>1. "Absent" \in LockState /\ mylocks' = [mylocks EXCEPT ![t][s] = "Absent"]
    BY DEF unlock, LockState
  <1>2. /\ mylocks' \in [Threads -> [Stripes -> LockState]]
        /\ \A r \in Stripes : r # s => Readers(r)' = Readers(r) /\ Writers(r)' = Writers(r)
        /\ Readers(s)' = Readers(s) \ {t} /\ Writers(s)' = Writers(s) \ {t}
    BY <1>1, Holders
  <1>3. Readers(s) \subseteq Threads /\ readers[s] = Cardinality(Readers(s))
    BY DEF Readers, MapsMatchLocks
  <1>4. /\ readers' = [readers EXCEPT ![s] = Cardinality(Readers(s) \ {t})]
        /\ Cardinality(Readers(s) \ {t}) \in 0 .. ReaderModulus - 1
    <2>1. CASE mylocks[t][s] = "ReadLock"
      <3>1. t \in Readers(s)  BY <2>1 DEF Readers
      <3>2. /\ Cardinality(Readers(s) \ {t}) = readers[s] - 1
            /\ readers[s] \in Nat /\ readers[s] > 0 /\ readers[s] < ReaderModulus
        BY <1>3, <3>1, Counts
      <3>3. (readers[s] + ReaderModulus - 1) % ReaderModulus = readers[s] - 1
        BY <3>2, StripeAssumption
      <3>4. readers' = [readers EXCEPT ![s] = (readers[s] + ReaderModulus - 1) % ReaderModulus]
        BY <2>1 DEF unlock
      <3>5. (readers[s] + ReaderModulus - 1) % ReaderModulus = Cardinality(Readers(s) \ {t})
        BY <3>2, <3>3
      <3>6. readers[s] - 1 \in 0 .. ReaderModulus - 1  BY <3>2, StripeAssumption
      <3>7. QED  BY <3>2, <3>4, <3>5, <3>6, Zenon
    <2>2. CASE mylocks[t][s] # "ReadLock"
      <3>1. Readers(s) \ {t} = Readers(s)  BY <2>2 DEF Readers
      <3>2. QED  BY <1>3, <2>2, <3>1 DEF unlock, TypeOK
    <2>3. QED  BY <2>1, <2>2
  <1>5. writer'[s] <=> Writers(s) \ {t} # {}
    <2>1. writer'[s] <=> (writer[s] /\ mylocks[t][s] # "WriteLock")  BY DEF unlock, TypeOK
    <2>2. writer[s] <=> Writers(s) # {}  BY DEF MapsMatchLocks
    <2>3. mylocks[t][s] = "WriteLock" <=> t \in Writers(s)  BY DEF Writers
    <2>4. t \in Writers(s) => Writers(s) = {t}  BY DEF TxExclusion, Writers
    <2>5. QED  BY <2>1, <2>2, <2>3, <2>4
  <1>6. TypeOK'  BY <1>2, <1>4 DEF TypeOK, unlock
  <1>7. MapsMatchLocks'
    <2>1. \A r \in Stripes : r # s => readers'[r] = readers[r] /\ writer'[r] = writer[r]
      BY DEF unlock, TypeOK
    <2>2. readers'[s] = Cardinality(Readers(s) \ {t})  BY <1>4 DEF TypeOK
    <2>3. QED  BY <2>1, <2>2, <1>2, <1>5 DEF MapsMatchLocks
  <1>8. TxExclusion'  BY <1>2 DEF TxExclusion
  <1>9. QED  BY <1>6, <1>7, <1>8

\* Without retries every step keeps the invariant.
LEMMA NextIInv ==
  ASSUME ~RetryFailedLock
  PROVE  IInv /\ [Next]_vars => IInv'
  <1> SUFFICES ASSUME IInv, [Next]_vars PROVE IInv'  OBVIOUS
  <1>1. ASSUME NEW t \in Threads, Begin(t) \/ Catch(t) \/ Destroy(t) \/ unlock_done(t)
        PROVE  IInv'
    <2>1. /\ UNCHANGED <<readers, writer, mylocks>>
          /\ pc' \in [Threads -> {"out", "run", "thrown", "end"}]
      BY <1>1 DEF Begin, Catch, Destroy, unlock_done, IInv, TypeOK
    <2>2. QED  BY <2>1 DEF IInv, TypeOK, MapsMatchLocks, TxExclusion, Readers, Writers
  <1>4. CASE UNCHANGED vars
    BY <1>4 DEF vars, IInv, TypeOK, MapsMatchLocks, TxExclusion, Readers, Writers
  <1>2. ASSUME NEW t \in Threads, NEW a \in Addresses, NEW write \in BOOLEAN,
               acquire_lock(t, a, write)
        PROVE  IInv'
    <2> DEFINE s == get_stripe_id(a)
    <2>1. s \in Stripes
      BY StripeAssumption DEF get_stripe_id, Stripes
    <2> HIDE DEF s
    <2>2. /\ pc[t] = "run" /\ mylocks[t][s] # "LockNotFound"
          /\ lock_new(t, s, write) \/ lock_upgrade(t, s) \/ lock_found(t, s, write)
      BY <1>2 DEF acquire_lock, s
    <2>3. CASE lock_found(t, s, write)
      BY <2>3, <1>4 DEF lock_found
    <2>4. QED  BY <2>1, <2>2, <2>3, LockStep
  <1>3. ASSUME NEW t \in Threads, NEW s \in Stripes, unlock(t, s) PROVE IInv'
    BY <1>3, UnlockStep
  <1>5. QED  BY <1>1, <1>2, <1>3, <1>4 DEF Next

LEMMA InitIInv == Init => IInv
  <1> SUFFICES ASSUME Init PROVE IInv  OBVIOUS
  <1>1. TypeOK  BY StripeAssumption DEF Init, TypeOK, LockState
  <1>2. \A s \in Stripes : Readers(s) = {} /\ Writers(s) = {}
    BY DEF Init, Readers, Writers
  <1>3. Cardinality({}) = 0  BY FS_EmptySet
  <1>4. MapsMatchLocks  BY <1>2, <1>3 DEF Init, MapsMatchLocks
  <1>5. TxExclusion  BY <1>2 DEF TxExclusion
  <1>6. QED  BY <1>1, <1>4, <1>5 DEF IInv

\* The maps of all transactions account for every lock word, for any number of
\* transactions, objects and stripes, as long as acquire_lock is not called
\* again for a lock that timed out.
THEOREM MapsMatch ==
  ASSUME ~RetryFailedLock
  PROVE  Spec => []MapsMatchLocks
  <1>1. IInv => MapsMatchLocks  BY DEF IInv
  <1>2. QED  BY InitIInv, NextIInv, <1>1, PTL DEF Spec

\* Under the same condition two transactions never hold a stripe in
\* conflicting modes: two-phase locking over StripedLock isolates them.
THEOREM TwoPhaseExclusion ==
  ASSUME ~RetryFailedLock
  PROVE  Spec => []TxExclusion
  <1>1. IInv => TxExclusion  BY DEF IInv
  <1>2. QED  BY InitIInv, NextIInv, <1>1, PTL DEF Spec
=============================================================================
