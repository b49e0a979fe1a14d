--------------------------- MODULE ReadersWriter ---------------------------
(***************************************************************************)
(* What one RWLock of src/src/lock.h promises its callers, without the     *)
(* lock word: any number of readers or one writer, and an upgrade that     *)
(* succeeds only for the sole reader.  A call that throws LockTimeout      *)
(* changes nothing and is a stuttering step here.                          *)
(***************************************************************************)
CONSTANT Threads

VARIABLES
  readers,   \* the threads whose read_lock has returned
  writer     \* the threads whose write_lock or upgrade_write_lock returned

rwVars == <<readers, writer>>

RWInit == readers = {} /\ writer = {}

AcquireRead(t) ==
  /\ writer = {} /\ t \notin readers
  /\ readers' = readers \cup {t}
  /\ UNCHANGED writer

AcquireWrite(t) ==
  /\ writer = {} /\ readers = {}
  /\ writer' = {t}
  /\ UNCHANGED readers

Upgrade(t) ==
  /\ writer = {} /\ readers = {t}
  /\ writer' = {t}
  /\ readers' = {}

ReleaseRead(t) ==
  /\ t \in readers
  /\ readers' = readers \ {t}
  /\ UNCHANGED writer

ReleaseWrite(t) ==
  /\ t \in writer
  /\ writer' = writer \ {t}
  /\ UNCHANGED readers

RWNext ==
  \E t \in Threads :
    \/ AcquireRead(t) \/ AcquireWrite(t) \/ Upgrade(t)
    \/ ReleaseRead(t) \/ ReleaseWrite(t)

RWSpec == RWInit /\ [][RWNext]_rwVars
=============================================================================
