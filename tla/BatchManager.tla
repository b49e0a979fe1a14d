---------------------------- MODULE BatchManager ----------------------------
(***************************************************************************)
(* BatchManager collects operations in one batch per priority and hands    *)
(* them to operation_executor: at once, when told to, or from a flush      *)
(* thread when a batch is full.  Clients queue operations and change the   *)
(* mode at the same time.  _queue_mutex covers adding an operation and a   *)
(* whole flush, each of which is one step; the mode is read and written    *)
(* outside it.  The executor either runs a batch or throws without having  *)
(* done anything.  (current_memory_usage never rises: it is raised by the  *)
(* size of an operation that was moved away before.)                       *)
(***************************************************************************)
EXTENDS Integers, Sequences, FiniteSets, FiniteSetsExt, Functions

CONSTANTS
  Clients,
  MaxPriority,       \* CRITICAL; LOW is 0
  Hashes,            \* what hash_operation tells apart
  max_batch_size,
  MaxOps             \* operations queued (a bound)

ASSUME BatchBounds ==
  MaxPriority \in Nat /\ max_batch_size \in Nat \ {0} /\ MaxOps \in Nat

Priorities == 0 .. MaxPriority
Modes == {"IMMEDIATE", "DEFERRED", "AUTO_FLUSH", "TIME_BASED"}
AutoModes == {"AUTO_FLUSH", "TIME_BASED"}

VARIABLES
  mode,        \* _config.mode
  batches,     \* _active_batches: priority -> operations, oldest first
  next_id,     \* _next_operation_id
  pc,          \* of each client: "idle", "check" (flush_if_needed) or "flush"
  thread,      \* _flush_thread: "none", "wait", "flush" or "ended"
  notified,    \* _flush_condition was signalled while the thread waits
  stop,        \* _stop_flush_thread
  status,      \* "open", "closed" after the destructor, "terminated" by an
               \* exception that nobody catches
  accepted,    \* operations that were added to a batch
  executed,    \* operations run so far, in order
  thrown       \* the executor threw in the latest flush

vars == <<mode, batches, next_id, pc, thread, notified, stop, status,
          accepted, executed, thrown>>
cvars == <<mode, next_id, notified, stop, accepted>>

Init ==
  /\ mode \in Modes
  /\ batches = [p \in Priorities |-> <<>>]
  /\ next_id = 1
  /\ pc = [c \in Clients |-> "idle"]
  /\ thread = IF mode \in AutoModes THEN "wait" ELSE "none"
  /\ notified = FALSE /\ stop = FALSE /\ status = "open"
  /\ accepted = {} /\ executed = <<>> /\ thrown = FALSE

Open == status = "open" /\ ~stop
Pending == UNION {{op.id : op \in Range(batches[p])} : p \in Priorities}

should_auto_flush ==
  mode \in AutoModes /\ \E p \in Priorities : Len(batches[p]) >= max_batch_size

notify_one == notified' = (notified \/ thread = "wait")

-----------------------------------------------------------------------------
\* queue_create_node and the like, up to the unlock: an operation with the hash
\* of one in its batch is dropped.
queue(c, p, h) ==
  LET duplicate == \E op \in Range(batches[p]) : op.hash = h
  IN /\ Open /\ pc[c] = "idle" /\ next_id <= MaxOps
     /\ next_id' = next_id + 1
     /\ pc' = [pc EXCEPT ![c] = "check"]
     /\ IF duplicate THEN UNCHANGED <<batches, accepted>>
        ELSE /\ batches' = [batches EXCEPT ![p] = Append(@, [id |-> next_id, hash |-> h])]
             /\ accepted' = accepted \cup {next_id}
     /\ UNCHANGED <<mode, thread, notified, stop, status, executed, thrown>>

\* flush_if_needed, up to the flush.
flush_if_needed(c) ==
  /\ status = "open" /\ pc[c] = "check"
  /\ pc' = [pc EXCEPT ![c] = IF mode = "IMMEDIATE" THEN "flush" ELSE "idle"]
  /\ IF mode = "AUTO_FLUSH" /\ should_auto_flush THEN notify_one ELSE UNCHANGED notified
  /\ UNCHANGED <<mode, batches, next_id, thread, stop, status, accepted, executed, thrown>>

\* What the batches of the priorities in P hold, highest priority first.
Ordered(P) ==
  LET From[p \in -1 .. MaxPriority] ==
        IF p = -1 THEN <<>>
        ELSE (IF p \in P THEN batches[p] ELSE <<>>) \o From[p - 1]
  IN From[MaxPriority]

Run(P) == executed' = executed \o [i \in DOMAIN Ordered(P) |-> Ordered(P)[i].id]

\* Slip: a batch is cleared before it is run.
Cleared_early(p, fails) == p >= fails

\* The batches flush_all_batches has cleared when the executor throws at
\* priority `fails`, or at none if that is -1.
Cleared(p, fails) == p > fails

\* flush_all_batches, highest priority first; an exception leaves the batch it
\* happened in and the ones after it.
flush_all_batches(fails) ==
  /\ fails \in {-1} \cup {p \in Priorities : batches[p] # <<>>}
  /\ Run({p \in Priorities : p > fails})
  /\ batches' = [p \in Priorities |-> IF Cleared(p, fails) THEN <<>> ELSE batches[p]]
  /\ thrown' = (fails # -1)

\* A client's flush: of a call that flushes, or as the end of queue() or
\* set_batch_mode.
flush(c) ==
  /\ Open /\ pc[c] \in {"idle", "flush"}
  /\ \E fails \in Priorities \cup {-1} : flush_all_batches(fails)
  /\ pc' = [pc EXCEPT ![c] = "idle"]
  /\ UNCHANGED <<cvars, thread, status>>

flush_batch_by_priority(c, p) ==
  /\ Open /\ pc[c] = "idle" /\ batches[p] # <<>>
  /\ Run({p}) /\ batches' = [batches EXCEPT ![p] = <<>>]
  /\ UNCHANGED <<cvars, pc, thread, status, thrown>>

-----------------------------------------------------------------------------
\* Slip: the mode is changed and what is pending stays.
set_batch_mode_only(c, m) ==
  /\ Open /\ pc[c] = "idle" /\ mode' = m
  /\ UNCHANGED <<pc, batches, next_id, thread, notified, stop, status, accepted, executed, thrown>>

\* set_batch_mode up to the flush; pause_auto_flush for DEFERRED.
set_batch_mode(c, m) ==
  /\ Open /\ pc[c] = "idle" /\ mode' = m
  /\ pc' = [pc EXCEPT ![c] = IF m = "IMMEDIATE" THEN "flush" ELSE "idle"]
  /\ UNCHANGED <<batches, next_id, thread, notified, stop, status, accepted, executed, thrown>>

resume_auto_flush(c) ==
  /\ Open /\ pc[c] = "idle" /\ mode' = "AUTO_FLUSH" /\ notify_one
  /\ UNCHANGED <<pc, batches, next_id, thread, stop, status, accepted, executed, thrown>>

-----------------------------------------------------------------------------
\* Slip: the thread waits without a time limit.
wake_notified ==
  /\ status = "open" /\ thread = "wait" /\ notified
  /\ thread' = IF stop THEN "ended" ELSE IF should_auto_flush THEN "flush" ELSE "wait"
  /\ notified' = FALSE
  /\ UNCHANGED <<mode, batches, next_id, pc, stop, status, accepted, executed, thrown>>

\* flush_thread_worker up to the unlock: wait_for returns because it was
\* signalled or because flush_interval has passed.
wake ==
  /\ status = "open" /\ thread = "wait"
  /\ stop \/ should_auto_flush \/ notified
  /\ thread' = IF stop THEN "ended" ELSE IF should_auto_flush THEN "flush" ELSE "wait"
  /\ notified' = FALSE
  /\ UNCHANGED <<mode, batches, next_id, pc, stop, status, accepted, executed, thrown>>

\* The flush of the thread; an exception in it ends the program.
thread_flush ==
  /\ status = "open" /\ thread = "flush" /\ thread' = "wait"
  /\ \E fails \in Priorities \cup {-1} :
       /\ flush_all_batches(fails)
       /\ status' = IF fails = -1 THEN "open" ELSE "terminated"
  /\ UNCHANGED <<cvars, pc>>

\* The destructor, called when no client is in a call: it stops the thread,
\* waits for it and runs what is left.
stop_thread ==
  /\ Open /\ \A c \in Clients : pc[c] = "idle"
  /\ stop' = TRUE /\ notified' = (thread = "wait")
  /\ UNCHANGED <<mode, batches, next_id, pc, thread, status, accepted, executed, thrown>>

final_flush ==
  /\ status = "open" /\ stop /\ thread \in {"none", "ended"}
  /\ \E fails \in Priorities \cup {-1} :
       /\ flush_all_batches(fails)
       /\ status' = IF fails = -1 THEN "closed" ELSE "terminated"
  /\ UNCHANGED <<cvars, pc, thread>>

\* Nothing happens after the end.
Over == status # "open" /\ UNCHANGED vars

Next ==
  \/ \E c \in Clients :
       \/ \E p \in Priorities, h \in Hashes : queue(c, p, h)
       \/ flush_if_needed(c) \/ flush(c)
       \/ \E p \in Priorities : flush_batch_by_priority(c, p)
       \/ \E m \in Modes : set_batch_mode(c, m)
       \/ resume_auto_flush(c)
  \/ wake \/ thread_flush \/ stop_thread \/ final_flush \/ Over

\* The flush thread is scheduled, and wait_for has a time limit.
FairSpec ==
  /\ Init /\ [][Next]_vars
  /\ WF_vars(wake) /\ WF_vars(thread_flush) /\ WF_vars(final_flush)

-----------------------------------------------------------------------------
\* Every operation that was added to a batch is pending or was run, never both
\* and never twice, also when the executor throws in the middle of a flush, and
\* after the destructor nothing is left.
NothingLost ==
  /\ Cardinality(Range(executed)) = Len(executed)
  /\ accepted = Range(executed) \cup Pending /\ Range(executed) \cap Pending = {}
  /\ status = "closed" => Pending = {}

\* IMMEDIATE, "Execute operations immediately": when no call is under way
\* nothing is pending, however a change of the mode and the queueing of an
\* operation interleave, unless the executor threw.
ImmediateLeavesNothing ==
  mode = "IMMEDIATE" /\ (\A c \in Clients : pc[c] = "idle") /\ ~thrown => Pending = {}

\* A full batch does not stay full while the flush thread is there and the mode
\* is one that flushes by itself: no wakeup that is missed, because it came
\* while the thread was busy, is missed for good.
FullBatchFlushed ==
  []<>(~should_auto_flush \/ thread \in {"none", "ended"} \/ status # "open")

\* "Auto-flush when batch size reached": in AUTO_FLUSH mode there is a thread
\* that flushes.
AutoFlushHasThread == mode = "AUTO_FLUSH" /\ status = "open" => thread # "none"
=============================================================================
