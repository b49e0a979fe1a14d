------------------------------- MODULE UndoLog -------------------------------
(***************************************************************************)
(* What the components above the journal see of a transaction: before a    *)
(* location is changed its value goes to the journal, and a rollback puts  *)
(* the journal's values back, newest first, so that the first value logged *)
(* for a location wins.  A location that was not logged keeps whatever the *)
(* transaction left in it.  Transaction.tla shows that the journal itself  *)
(* does this also across a crash.                                          *)
(***************************************************************************)
EXTENDS Functions

\* No entry yet: the state of a journal when a transaction starts.
Empty == [l \in {} |-> l]

\* log(): the journal after the locations L of memory pm were logged.
log(undo, pm, L) ==
  [l \in DOMAIN undo \cup L |-> IF l \in DOMAIN undo THEN undo[l] ELSE pm[l]]

\* rollback(): the memory with every logged location back as it was.
rollback(undo, pm) ==
  [l \in DOMAIN pm |-> IF l \in DOMAIN undo THEN undo[l] ELSE pm[l]]
=============================================================================
