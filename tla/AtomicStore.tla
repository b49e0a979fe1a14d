---------------------------- MODULE AtomicStore ----------------------------
(***************************************************************************)
(* What src/README.md promises of a transaction: it completes entirely or  *)
(* not at all, and a completed transaction's effects survive any failure.  *)
(* No journal, no cache, no slots: a store, the writes each transaction    *)
(* has made so far, and failures that lose the writes but not the store.   *)
(***************************************************************************)
CONSTANTS Threads, Addr, Val, None

VARIABLES
  store,     \* what a failure leaves
  pending,   \* pending[t]: the writes of t's transaction, None elsewhere
  voted,     \* the threads inside commit()
  up         \* FALSE from a failure to the end of the restart

asVars == <<store, pending, voted, up>>

Nothing == [a \in Addr |-> None]
Merge(base, w) == [a \in Addr |-> IF w[a] = None THEN base[a] ELSE w[a]]

ASInit ==
  /\ store \in [Addr -> Val]
  /\ pending = [t \in Threads |-> Nothing]
  /\ voted = {}
  /\ up = TRUE

Put(t, a, v) ==
  /\ up /\ t \notin voted
  /\ pending' = [pending EXCEPT ![t][a] = v]
  /\ UNCHANGED <<store, voted, up>>

Abort(t) ==
  /\ up /\ t \notin voted
  /\ pending' = [pending EXCEPT ![t] = Nothing]
  /\ UNCHANGED <<store, voted, up>>

\* commit() is called: from here on only a failure can undo the transaction.
Vote(t) ==
  /\ up /\ t \notin voted
  /\ voted' = voted \cup {t}
  /\ UNCHANGED <<store, pending, up>>

\* All writes of t take effect at once.
Commit(t) ==
  /\ up /\ t \in voted
  /\ store' = Merge(store, pending[t])
  /\ pending' = [pending EXCEPT ![t] = Nothing]
  /\ voted' = voted \ {t}
  /\ UNCHANGED up

Fail ==
  /\ up /\ up' = FALSE
  /\ pending' = [t \in Threads |-> Nothing]
  /\ voted' = {}
  /\ UNCHANGED store

Restart == ~up /\ up' = TRUE /\ UNCHANGED <<store, pending, voted>>

ASNext ==
  \/ \E t \in Threads : Abort(t) \/ Vote(t) \/ Commit(t)
                        \/ (\E a \in Addr, v \in Val : Put(t, a, v))
  \/ Fail \/ Restart

ASSpec == ASInit /\ [][ASNext]_asVars
=============================================================================
