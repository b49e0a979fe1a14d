--------------------------- MODULE JournalLayout ---------------------------
(***************************************************************************)
(* The bytes behind module Transaction: how TransactionImpl::log cuts a    *)
(* range into journal entries of at most JE_MAX_LEN bytes, which bytes the *)
(* write helpers overwrite, and which cache lines commit() and flush_range *)
(* flush.  One transaction makes a few calls and commits.                  *)
(***************************************************************************)
EXTENDS Naturals, Sequences, FiniteSets

CONSTANTS
  JE_MAX_LEN,   \* 48: data bytes of a journal entry
  LINE,         \* 64: bytes of a cache line
  EXTENT,       \* entries in the transaction's journal extent
  Addresses,    \* where the logged objects may start
  Lengths,      \* their sizes
  CopyTargets,  \* destinations of write(dst, src, len)
  MaxCalls      \* bound on calls before the commit

ASSUME LayoutAssumption ==
  /\ JE_MAX_LEN \in Nat \ {0} /\ LINE \in Nat \ {0} /\ EXTENT \in Nat
  /\ Addresses \subseteq Nat /\ CopyTargets \subseteq Nat
  /\ Lengths \subseteq Nat \ {0}   \* assert(len > 0)
  /\ MaxCalls \in Nat

VARIABLES
  entries,    \* the journal from jbegin() to _jcur: address and length
  pc,         \* "run", "log", "committed", "aborted"
  ptr, len,   \* arguments of log(), as the loop advances them
  left,       \* turns left of the loop over full entries
  target,     \* what the caller overwrites when log() returns: start, size
  promised,   \* bytes the completed log() calls were asked to save
  modified,   \* bytes overwritten after a log() call
  nolog,      \* bytes written by write_nolog
  flushed,    \* lines flushed
  calls

vars == <<entries, pc, ptr, len, left, target, promised, modified, nolog, flushed, calls>>

Bytes(p, n) == p .. (p + n - 1)     \* empty when n = 0
Line(b) == b \div LINE
LinesOf(B) == {Line(b) : b \in B}
Saved == UNION {Bytes(entries[k].addr, entries[k].len) : k \in 1 .. Len(entries)}

Init ==
  /\ entries = <<>> /\ pc = "run"
  /\ ptr = 0 /\ len = 0 /\ left = 0 /\ target = [start |-> 0, size |-> 0]
  /\ promised = {} /\ modified = {} /\ nolog = {} /\ flushed = {}
  /\ calls = 0

\* Slip: the usual rounding, which leaves nothing for a length of 48.
je_entries_rounded(n) == (n + JE_MAX_LEN - 1) \div JE_MAX_LEN

je_entries(n) == (n + JE_MAX_LEN) \div JE_MAX_LEN

\* log(p, n), after which the caller overwrites n bytes at dst.  When the
\* entries do not fit the call throws and the transaction rolls back.
log(p, n, dst) ==
  /\ pc = "run" /\ calls < MaxCalls
  /\ calls' = calls + 1
  /\ IF Len(entries) + je_entries(n) >= EXTENT
     THEN pc' = "aborted" /\ UNCHANGED <<ptr, len, left, target>>
     ELSE /\ pc' = "log"
          /\ ptr' = p /\ len' = n /\ left' = je_entries(n) - 1
          /\ target' = [start |-> dst, size |-> n]
  /\ UNCHANGED <<entries, promised, modified, nolog, flushed>>

\* write(ptr, new_val), log_range and log save what the caller overwrites;
\* write(dst, src, len) passes src to log() and overwrites dst.
write(p, n) == log(p, n, p)
write_copy(dst, src, n) == log(src, n, dst)

\* A full entry, in the loop.  Flushes of the journal itself are not tracked.
log_je_full ==
  /\ pc = "log" /\ left > 0
  /\ entries' = Append(entries, [addr |-> ptr, len |-> JE_MAX_LEN])
  /\ ptr' = ptr + JE_MAX_LEN
  /\ left' = left - 1
  /\ UNCHANGED <<pc, len, target, promised, modified, nolog, flushed, calls>>

\* The last entry takes the rest, possibly nothing.
log_je_rest ==
  /\ pc = "log" /\ left = 0
  /\ entries' = Append(entries, [addr |-> ptr, len |-> len % JE_MAX_LEN])
  /\ pc' = "run"
  /\ promised' = promised \cup Bytes(ptr - JE_MAX_LEN * (je_entries(len) - 1), len)
  /\ modified' = modified \cup Bytes(target.start, target.size)
  /\ UNCHANGED <<ptr, len, left, target, nolog, flushed, calls>>

\* Slip: the offset of the first byte in its line is forgotten.
flush_range_short(p, n) ==
  LET size == LINE * ((n + LINE - 1) \div LINE)
  IN  {Line(p + LINE * k) : k \in 0 .. ((size - 1) \div LINE)}

\* flush_range: one flush every LINE bytes from p on.
flush_range(p, n) ==
  LET size == LINE * ((n + (p % LINE) + LINE - 1) \div LINE)
  IN  {Line(p + LINE * k) : k \in 0 .. ((size - 1) \div LINE)}

write_nolog(p, n) ==
  /\ pc = "run" /\ calls < MaxCalls
  /\ calls' = calls + 1
  /\ nolog' = nolog \cup Bytes(p, n)
  /\ flushed' = flushed \cup flush_range(p, n)
  /\ UNCHANGED <<entries, pc, ptr, len, left, target, promised, modified>>

\* finalize_commit flushes the line of each entry's address.
commit ==
  /\ pc = "run"
  /\ pc' = "committed"
  /\ flushed' = flushed \cup {Line(entries[k].addr) : k \in 1 .. Len(entries)}
  /\ UNCHANGED <<entries, ptr, len, left, target, promised, modified, nolog, calls>>

Next ==
  \/ \E p \in Addresses, n \in Lengths :
       write(p, n) \/ write_nolog(p, n) \/ (\E dst \in CopyTargets : write_copy(dst, p, n))
  \/ log_je_full \/ log_je_rest \/ commit

Spec == Init /\ [][Next]_vars

-----------------------------------------------------------------------------
TypeOK ==
  /\ entries \in Seq([addr : Nat, len : Nat])
  /\ pc \in {"run", "log", "committed", "aborted"}
  /\ ptr \in Nat /\ len \in Nat /\ left \in Nat /\ calls \in 0 .. MaxCalls

\* When log() has returned, the entries hold exactly the bytes it was asked to
\* save: a rollback restores all of them and touches no other byte, whatever
\* the length, multiples of JE_MAX_LEN and overlapping calls included.  Every
\* entry fits its data array, and the journal stays inside the extent, with an
\* entry to spare.
LogCoversRange ==
  /\ pc # "log" => Saved = promised
  /\ \A k \in 1 .. Len(entries) : entries[k].len <= JE_MAX_LEN
  /\ Len(entries) = 0 \/ Len(entries) < EXTENT

\* What write_nolog wrote, at whatever alignment, is flushed before commit().
NologFlushed == LinesOf(nolog) \subseteq flushed

\* "log dst and overwrite with src" (TransactionImpl.h:245): no byte is
\* overwritten in place before the journal holds its old contents.
WritesAreLogged == modified \subseteq Saved

\* "Flush (and make durable) dirty in-place data pointed to by log entries"
\* (transaction.cc:164): after commit() every line of it has been flushed.
CommitFlushesData == pc = "committed" => LinesOf(modified \cap Saved) \subseteq flushed
=============================================================================
