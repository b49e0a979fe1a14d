-------------------------------- MODULE Graph --------------------------------
(***************************************************************************)
(* Nodes and edges: two FixedAllocator tables, and for each node its edge  *)
(* indices.  A transaction adds and removes nodes and edges while an       *)
(* iterator over the edges of a node is open; removed objects go back to   *)
(* their table when the transaction commits.  The locks of TxLocks let     *)
(* only one transaction change a node at a time, so there is one here; it  *)
(* commits, or is rolled back by its destructor or by the recovery after a *)
(* restart.  The first word of a node is _out_edges, of an edge _src.      *)
(*                                                                         *)
(* An operation may throw half way, commit() too once the callbacks of the *)
(* tables ran (a LockTimeout in Allocator::clean_free_list); the client    *)
(* may commit what an operation left half done.  A restart follows the end *)
(* of the program anywhere, and perhaps a power failure, which loses what  *)
(* was written neither logged nor flushed.                                 *)
(***************************************************************************)
EXTENDS EdgeIndex, UndoLog, FiniteSets

CONSTANTS
  NumNodes, NumEdges,   \* sizes of the tables
  Tags,                 \* of the edges
  MaxTxOps,             \* changes in one transaction (a bound)
  PowerFails            \* whether the power may fail, too

ASSUME GraphBounds ==
  /\ NumNodes \in Nat \ {0} /\ NumEdges \in Nat \ {0} /\ MaxTxOps \in Nat
  /\ Null = 0 /\ 0 \notin Tags /\ PowerFails \in BOOLEAN

NT == INSTANCE FixedAllocator WITH PoolSize <- NumNodes
ET == INSTANCE FixedAllocator WITH PoolSize <- NumEdges

VARIABLES
  ntable, etable,   \* memory of the node and the edge table
  idx,              \* the edge indices of each node, by direction
  undo,             \* the journal: [n, e, i], of ntable, etable and idx
  lost,             \* [n, e]: what a power failure would bring back, where
                    \* something was written neither logged nor flushed
  nfrees, efrees,   \* delayed frees, latest first
  it,               \* the client's iterator
  watch,            \* what the iterator should show, what it showed, and
                    \* whether it showed something twice
  graph, saved,     \* the graph the client built, now and as of the last commit
  ops, pc,
  harmed            \* history: the client committed a change half done, or a
                    \* transaction ended with a word of an older object lost

dvars == <<ntable, etable, idx>>
vars == <<dvars, undo, lost, nfrees, efrees, it, watch, graph, saved, ops, pc, harmed>>

Rest(e) == <<"rest", e>>      \* _dest and _tag of an edge
NoWatch == [want |-> {}, seen |-> {}, twice |-> FALSE]
NoEdges == [in |-> <<>>, out |-> <<>>]

Init ==
  /\ ntable = [l \in {NT!Hdr} \cup {NT!Word(n) : n \in NT!Pool} |->
                 IF l = NT!Hdr THEN NT!NewHdr ELSE NT!Data(Null)]
  /\ etable = [l \in {ET!Hdr} \cup {ET!Word(e) : e \in ET!Pool} \cup {Rest(e) : e \in ET!Pool} |->
                 IF l = ET!Hdr THEN ET!NewHdr
                 ELSE IF l[1] = "word" THEN ET!Data(Null) ELSE [dest |-> Null, tag |-> Null]]
  /\ idx = [n \in NT!Pool |-> NoEdges]
  /\ undo = [n |-> Empty, e |-> Empty, i |-> Empty]
  /\ lost = [n |-> Empty, e |-> Empty]
  /\ nfrees = <<>> /\ efrees = <<>>
  /\ it = NoIterator /\ watch = NoWatch
  /\ graph = [nodes |-> {}, edges |-> Empty] /\ saved = graph
  /\ ops = 0 /\ pc = "idle" /\ harmed = FALSE

\* What a power failure would bring back, after the locations L of memory pm
\* are written and not logged.
Unflushed(was, pm, L) == IF PowerFails THEN log(was, pm, L) ELSE was

Change == pc = "run" /\ ops < MaxTxOps /\ ops' = ops + 1

-----------------------------------------------------------------------------
\* Graph::add_node: Node::init writes the new node without flushing it.  The
\* indices of the nodes come last and may throw.
add_node ==
  LET a == NT!fa_alloc(ntable)
      w == NT!Word(a.obj)
  IN /\ Change /\ ~NT!Exhausted(ntable)
     /\ ntable' = [a.pm EXCEPT ![w] = NT!Data(a.obj)]
     /\ idx' = [idx EXCEPT ![a.obj] = NoEdges]
     /\ undo' = [undo EXCEPT !.n = log(@, ntable, a.logs)]
     /\ lost' = [lost EXCEPT !.n = Unflushed(@, ntable, {w} \ a.logs)]
     /\ graph' = [graph EXCEPT !.nodes = @ \cup {a.obj}]
     /\ pc' \in {pc, "failed"}
     /\ UNCHANGED <<etable, nfrees, efrees, it, watch, saved, harmed>>

\* Graph::add_edge: the edge, then the source's index, then the destination's,
\* then the indices of the edges.  A LockTimeout or a full journal on the way
\* leaves it half done.
add_edge ==
  \E src, dest \in graph.nodes, tag \in Tags :
    LET a == ET!fa_alloc(etable)
        w == ET!Word(a.obj)
        half == [idx EXCEPT ![src].out = add(@, tag, a.obj)]
    IN /\ Change /\ ~ET!Exhausted(etable)
       /\ etable' = [a.pm EXCEPT ![w] = ET!Data(src),
                                 ![Rest(a.obj)] = [dest |-> dest, tag |-> tag]]
       /\ lost' = [lost EXCEPT !.e = Unflushed(@, etable, {w, Rest(a.obj)} \ a.logs)]
       /\ \/ /\ idx' = [half EXCEPT ![dest].in = add(@, tag, a.obj)]
             /\ undo' = [undo EXCEPT !.e = log(@, etable, a.logs), !.i = log(@, idx, {src, dest})]
             /\ pc' \in {pc, "failed"}
          \/ /\ idx' = half
             /\ undo' = [undo EXCEPT !.e = log(@, etable, a.logs), !.i = log(@, idx, {src})]
             /\ pc' = "failed"
          \/ /\ undo' = [undo EXCEPT !.e = log(@, etable, a.logs)]
             /\ pc' = "failed" /\ UNCHANGED idx
       /\ graph' = [graph EXCEPT !.edges =
                      [x \in DOMAIN @ \cup {a.obj} |->
                         IF x = a.obj THEN [src |-> src, dest |-> dest, tag |-> tag] ELSE @[x]]]
       /\ UNCHANGED <<ntable, nfrees, efrees, it, watch, saved, harmed>>

-----------------------------------------------------------------------------
\* The indices and the iterators after edge e left the index of node n: every
\* iterator is told before the list node is unlinked.
remove_from(s, n, dir, e) ==
  LET tag == etable[Rest(e)].tag
  IN IF e \notin Range(Edges(s.idx[n][dir], tag)) THEN s
     ELSE [s EXCEPT !.idx[n][dir] = remove(@, tag, e),
                    !.its = [k \in DOMAIN @ |->
                               remove_notify(@[k], s.idx[@[k].node], n, dir, e)]]

Source(e) == etable[ET!Word(e)].to
Destination(e) == etable[Rest(e)].dest

\* Graph::remove(edge) up to the table: the source's index, the destination's.
remove_edge_from(s, e) ==
  [remove_from(remove_from(s, Source(e), "out", e), Destination(e), "in", e)
     EXCEPT !.gone = <<e>> \o @]

\* The same when it throws: after the first index, or after both.
HalfRemoved(s, e) ==
  {remove_from(s, Source(e), "out", e), [remove_edge_from(s, e) EXCEPT !.gone = s.gone]}

Ended(s) == ~More(s.its.inner) \/ s.its.inner.dead

\* A turn of the loop of Graph::remove(node).
Turn(n, s) ==
  LET r == remove_edge_from(s, s.its.inner.pos)
  IN IF Ended(s) THEN s ELSE [r EXCEPT !.its.inner = next(@, r.idx[n])]

\* The loop after k edges.
Process(n) ==
  LET Loop[k \in 0 .. 2 * NumEdges] ==
        IF k = 0
        THEN [idx |-> idx, its |-> [client |-> it, inner |-> get_edges(n, "any", idx[n], Null)],
              gone |-> <<>>]
        ELSE Turn(n, Loop[k - 1])
  IN Loop

Died(s) == \E k \in DOMAIN s.its : s.its[k].dead

\* The state after the client's view of the indices became s.
Now(s) ==
  /\ idx' = s.idx /\ it' = s.its.client
  /\ efrees' = s.gone \o efrees
  /\ watch' = [watch EXCEPT !.want = {x \in @ : x[2] \notin Range(s.gone)}]
  /\ undo' = [undo EXCEPT !.i = log(@, idx, {n \in NT!Pool : s.idx[n] # idx[n]})]

WithoutEdges(gone) == [graph EXCEPT !.edges = [x \in DOMAIN @ \ gone |-> @[x]]]

\* The edge is not freed before its indices are done.
remove_edge ==
  \E e \in DOMAIN graph.edges :
    LET s == [idx |-> idx, its |-> [client |-> it], gone |-> <<>>]
        r == remove_edge_from(s, e)
    IN /\ Change
       /\ \/ /\ Now(r) /\ pc' = IF Died(r) THEN "dead" ELSE pc
             /\ graph' = WithoutEdges({e})
          \/ /\ \E h \in HalfRemoved(s, e) : Now(h) /\ pc' = IF Died(h) THEN "dead" ELSE "failed"
             /\ UNCHANGED graph
       /\ UNCHANGED <<ntable, etable, lost, nfrees, saved, harmed>>

\* Graph::remove(node): its edges first.  A lock that times out, on the node
\* at the other end of one, ends it half way, and so may what follows the loop.
remove_node ==
  \E n \in graph.nodes, k \in 0 .. 2 * NumEdges :
    LET s == Process(n)[k]
        half == IF Ended(s) THEN {} ELSE HalfRemoved(s, s.its.inner.pos)
    IN /\ Change
       /\ k > 0 => ~Ended(Process(n)[k - 1])
       /\ \/ /\ Ended(s) /\ ~Died(s)
             /\ Now(s) /\ nfrees' = <<n>> \o nfrees
             /\ graph' = [WithoutEdges(Range(s.gone)) EXCEPT !.nodes = @ \ {n}]
             /\ UNCHANGED pc
          \/ /\ \E h \in {s} \cup half : Now(h) /\ pc' = IF Died(h) THEN "dead" ELSE "failed"
             /\ graph' = WithoutEdges(Range(s.gone))
             /\ UNCHANGED nfrees
       /\ UNCHANGED <<ntable, etable, lost, saved, harmed>>

-----------------------------------------------------------------------------
\* The entries of the indices of node n that an iterator should show.
Asked(n, dir, tag) ==
  {x \in (IF dir = "any" THEN {"in", "out"} ELSE {dir}) \X DOMAIN graph.edges :
     LET r == graph.edges[x[2]]
     IN n = (IF x[1] = "in" THEN r.dest ELSE r.src) /\ tag \in {Null, r.tag}}

\* The client looks at the edge its iterator i stands on.
Look(w, i) ==
  IF i.vacant \/ i.pos = Null \/ i.dead THEN w
  ELSE [w EXCEPT !.seen = @ \cup {<<i.dir, i.pos>>},
                 !.twice = @ \/ <<i.dir, i.pos>> \in w.seen]

open_iterator ==
  /\ pc = "run" /\ it = NoIterator
  /\ \E n \in graph.nodes, dir \in {"in", "out", "any"}, tag \in Tags \cup {Null} :
       LET i == get_edges(n, dir, idx[n], tag)
       IN /\ it' = i
          /\ watch' = Look([NoWatch EXCEPT !.want = Asked(n, dir, tag)], i)
  /\ UNCHANGED <<dvars, undo, lost, nfrees, efrees, graph, saved, ops, pc, harmed>>

step_iterator ==
  /\ pc = "run" /\ it # NoIterator /\ More(it)
  /\ it' = next(it, idx[it.node])
  /\ watch' = Look(watch, it')
  /\ pc' = IF it'.dead THEN "dead" ELSE pc
  /\ UNCHANGED <<dvars, undo, lost, nfrees, efrees, graph, saved, ops, harmed>>

-----------------------------------------------------------------------------
\* What a client does with a graph that came to harm is not looked at.
begin ==
  /\ pc = "idle" /\ ~harmed /\ pc' = "run"
  /\ UNCHANGED <<dvars, undo, lost, nfrees, efrees, it, watch, graph, saved, ops, harmed>>

\* finalize_commit: the callbacks of the tables link the removed objects into
\* the free lists; the links are neither logged nor flushed.  The client may
\* have caught what an operation threw.
finalize_commit ==
  LET n == NT!clean_free_list(ntable, nfrees)
      e == ET!clean_free_list(etable, efrees)
  IN /\ pc \in {"run", "failed"} /\ pc' = "commit"
     /\ harmed' = (harmed \/ pc = "failed")
     /\ ntable' = IF nfrees = <<>> THEN ntable ELSE n.pm
     /\ etable' = IF efrees = <<>> THEN etable ELSE e.pm
     /\ undo' = [undo EXCEPT !.n = IF nfrees = <<>> THEN @ ELSE log(@, ntable, n.logs),
                             !.e = IF efrees = <<>> THEN @ ELSE log(@, etable, e.logs)]
     /\ lost' = [n |-> Unflushed(lost.n, ntable, {NT!Word(o) : o \in Range(nfrees)}),
                 e |-> Unflushed(lost.e, etable, {ET!Word(o) : o \in Range(efrees)})]
     /\ UNCHANGED <<idx, nfrees, efrees, it, watch, graph, saved, ops>>

Done ==
  /\ undo' = [n |-> Empty, e |-> Empty, i |-> Empty]
  /\ nfrees' = <<>> /\ efrees' = <<>> /\ it' = NoIterator /\ watch' = NoWatch
  /\ ops' = 0 /\ pc' = "idle"

\* Every logged location is flushed; the transaction is committed.
Kept(was, logged) == [l \in DOMAIN was \ DOMAIN logged |-> was[l]]

commit ==
  /\ pc = "commit"
  /\ lost' = [n |-> Kept(lost.n, undo.n), e |-> Kept(lost.e, undo.e)]
  /\ saved' = graph
  /\ Done /\ UNCHANGED <<dvars, graph, harmed>>

\* The words that the callbacks of the commit overwrote.
Linked(frees) == IF pc = "commit" THEN {NT!Word(o) : o \in Range(frees)} ELSE {}

\* A location in L that the journal u does not bring back, of an object that
\* was below the tail of table pm when the transaction began.
Unrestored(pm, u, L) == \E l \in L \ DOMAIN u : l[2] < rollback(u, pm)[NT!Hdr].tail

\* The destructor of a transaction that did not commit.
abort ==
  /\ pc \in {"run", "failed", "commit"}
  /\ ntable' = rollback(undo.n, ntable) /\ etable' = rollback(undo.e, etable)
  /\ idx' = rollback(undo.i, idx)
  /\ graph' = saved
  /\ harmed' = \/ harmed
               \/ Unrestored(ntable, undo.n, Linked(nfrees))
               \/ Unrestored(etable, undo.e, Linked(efrees))
  /\ Done /\ UNCHANGED <<lost, saved>>

\* The memory pm after a power failure that lost the locations S.
Torn(pm, was, S) == rollback([l \in S |-> was[l]], pm)

\* The program ends, the power perhaps too, and recovery rolls back.
restart ==
  \E n \in SUBSET DOMAIN lost.n, e \in SUBSET DOMAIN lost.e :
    /\ ntable' = rollback(undo.n, Torn(ntable, lost.n, n))
    /\ etable' = rollback(undo.e, Torn(etable, lost.e, e))
    /\ idx' = rollback(undo.i, idx)
    /\ lost' = [n |-> Empty, e |-> Empty]
    /\ graph' = saved
    /\ harmed' = \/ harmed
                 \/ Unrestored(ntable, undo.n, Linked(nfrees) \cup n)
                 \/ Unrestored(etable, undo.e, Linked(efrees) \cup e)
    /\ Done /\ UNCHANGED saved

Next ==
  \/ begin \/ add_node \/ add_edge \/ remove_node \/ remove_edge
  \/ open_iterator \/ step_iterator
  \/ finalize_commit \/ commit \/ abort \/ restart

Spec == Init /\ [][Next]_vars

-----------------------------------------------------------------------------
\* f is the free list of a table: from the head each word leads to the next.
FreeList(pm, f) ==
  /\ pm[NT!Hdr].free = IF f = <<>> THEN Null ELSE f[1]
  /\ \A i \in DOMAIN f : pm[NT!Word(f[i])].to = IF i = Len(f) THEN Null ELSE f[i + 1]

TableMatches(pm, used) ==
  LET known == 1 .. pm[NT!Hdr].tail - 1
      free == known \ used
  IN /\ \E f \in Bijection(1 .. Cardinality(free), free) : FreeList(pm, f)
     /\ \A o \in known : pm[NT!Word(o)].free_bit <=> o \notin used
     /\ used \subseteq known
     /\ pm[NT!Hdr].num = Cardinality(used)

\* The tables hold exactly the committed nodes and edges: their first words
\* are intact, every other object is on the free list once and marked free.
TablesHold ==
  /\ TableMatches(ntable, saved.nodes)
  /\ TableMatches(etable, DOMAIN saved.edges)
  /\ \A n \in saved.nodes : ntable[NT!Word(n)] = NT!Data(n)
  /\ \A e \in DOMAIN saved.edges :
        /\ etable[ET!Word(e)] = ET!Data(saved.edges[e].src)
        /\ etable[Rest(e)] = [dest |-> saved.edges[e].dest, tag |-> saved.edges[e].tag]

\* Between transactions the tables hold what was committed, so that their
\* iterators show it and alloc() never returns a live object: also after an
\* abort, a commit that failed and a power failure, unless the word of an object
\* the recovered table knows was overwritten or lost and is in no journal.
TablesMatch == pc = "idle" /\ ~harmed => TablesHold

\* What the two holes in the logging break: an abort restores the tables, and
\* so does the recovery after a restart.
AbortRestores == [][abort /\ ~harmed => TablesHold']_vars
RestartRestores == [][restart /\ ~harmed => TablesHold']_vars

\* Every edge is once in the outgoing index of its source and once in the
\* incoming index of its destination, under its tag; nothing else is in an
\* index, no tag is empty, and both ends of every edge exist.  Operations that
\* fail half way are undone when the transaction aborts or the program ends.
EdgesIndexed ==
  pc \in {"idle", "run"} /\ ~harmed =>
    /\ \A e \in DOMAIN graph.edges : {graph.edges[e].src, graph.edges[e].dest} \subseteq graph.nodes
    /\ \A n \in graph.nodes, dir \in {"in", "out"} :
         LET x == idx[n][dir]
         IN /\ Cardinality(Range(Keys(x))) = Len(x)
            /\ \A i \in DOMAIN x :
                 /\ x[i].edges # <<>>
                 /\ Cardinality(Range(x[i].edges)) = Len(x[i].edges)
                 /\ {<<dir, e>> : e \in Range(x[i].edges)} = Asked(n, dir, x[i].tag)
            /\ Asked(n, dir, Null) = UNION {Asked(n, dir, t) : t \in Range(Keys(x))}

\* An iterator never stands on a list node that was unlinked.
IteratorOnListedEdge ==
  pc = "run" /\ it.pos # Null =>
    it.pos \in Range(Edges(idx[it.node][it.dir], it.tag))

\* An iterator shows no entry twice and, when it ends, has shown every entry
\* that was there when it was opened and was not removed before its turn,
\* whatever was added and removed meanwhile.
IteratorComplete ==
  /\ ~watch.twice
  /\ pc = "run" /\ it # NoIterator /\ ~More(it) => watch.want \subseteq watch.seen

\* "Ensure there is at least one element in this index for the constructors to
\* not crash" (Node::get_edges): no iterator follows a NULL list.
IteratorSafe == pc # "dead"
=============================================================================
