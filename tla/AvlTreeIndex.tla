---------------------------- MODULE AvlTreeIndex ----------------------------
(***************************************************************************)
(* A property index: an AVL tree whose values are lists of the objects     *)
(* that carry the key, changed by one transaction while an iterator of the *)
(* same transaction walks it.  The iterator keeps raw pointers: _curr, and *)
(* a stack _path of tree nodes still to visit.  Index::remove tells it     *)
(* when its object goes, and the tree tells it when nodes were rotated.    *)
(***************************************************************************)
EXTENDS AvlTree, SequencesExt

CONSTANTS
  Keys, Objects,    \* property values a client may add, and the objects that carry them
  Orders,           \* initial trees, as orders in which the keys were added
  Queries,          \* iterators a client may open
  RemoveAnywhere,   \* may remove objects the open iterator is not at
  MaxOps            \* bound on adds, removes and commits

ASSUME IndexAssumption ==
  /\ Keys \subseteq Nat \ {0} /\ Objects # {} /\ MaxOps \in Nat
  /\ RemoveAnywhere \in BOOLEAN

None == <<>>
NoIterator == [open |-> FALSE]

VARIABLES
  tree,      \* _tree
  freed,     \* nodes freed by this transaction: memory stays until it commits
  wlocked,   \* nodes write locked by this transaction; 0 is the index itself
  it,        \* the open iterator
  content,   \* history: the <<key, object>> pairs added and not removed
  visited,   \* history: the pairs the iterator has shown
  owed,      \* history: pairs there since it was opened and not yet shown
  ops

vars == <<tree, freed, wlocked, it, content, visited, owed, ops>>

-----------------------------------------------------------------------------
(* Compare: a bound with its value and whether the value itself qualifies. *)

Bound(v, eq) == [val |-> v, equal |-> eq]
Open == Bound(0, FALSE)                          \* no bound given
lessthan(c, k) == c = Open \/ c.val < k
greaterthan(c, k) == c = Open \/ c.val > k
equals(c, k) == c.equal /\ c.val = k
lessthanequal(c, k) == lessthan(c, k) \/ equals(c, k)
greaterthanequal(c, k) == greaterthan(c, k) \/ equals(c, k)

Pushed(n, cond) == IF cond THEN <<n.id>> ELSE <<>>

(* Paths, last element on top.                                             *)
RECURSIVE find_start(_, _, _)
find_start(t, cmin, cmax) ==
  IF t = Null THEN <<>>
  ELSE IF lessthan(cmin, t.key)
    THEN Pushed(t, greaterthanequal(cmax, t.key)) \o find_start(t.left, cmin, cmax)
  ELSE IF equals(cmin, t.key) THEN <<t.id>>
  ELSE find_start(t.right, cmin, cmax)

\* Slip: descent ends at the first key above the maximum.
RECURSIVE right_tree_stops(_, _)
right_tree_stops(t, cmax) ==
  IF t = Null THEN <<>>
  ELSE IF ~greaterthanequal(cmax, t.key) THEN <<>>
  ELSE <<t.id>> \o right_tree_stops(t.left, cmax)

RECURSIVE add_right_tree(_, _)
add_right_tree(t, cmax) ==
  IF t = Null THEN <<>>
  ELSE Pushed(t, greaterthanequal(cmax, t.key)) \o add_right_tree(t.left, cmax)

find_start_min(t, cmax) == add_right_tree(t, cmax)
find_start_max(t, cmin) == find_start(t, cmin, Open)
add_full_right_tree(t) == add_right_tree(t, Open)
find_start_all(t) == add_right_tree(t, Open)

RECURSIVE find_start_reverse(_, _, _)
find_start_reverse(t, cmin, cmax) ==
  IF t = Null THEN <<>>
  ELSE IF greaterthan(cmax, t.key)
    THEN Pushed(t, lessthanequal(cmin, t.key)) \o find_start_reverse(t.right, cmin, cmax)
  ELSE IF equals(cmax, t.key) THEN <<t.id>>
  ELSE find_start_reverse(t.left, cmin, cmax)

RECURSIVE add_left_tree(_, _)
add_left_tree(t, cmin) ==
  IF t = Null THEN <<>>
  ELSE Pushed(t, lessthanequal(cmin, t.key)) \o add_left_tree(t.right, cmin)

find_start_max_reverse(t, cmin) == add_left_tree(t, cmin)
find_start_min_reverse(t, cmax) == find_start_reverse(t, Open, cmax)
find_start_all_reverse(t) == add_left_tree(t, Open)
add_full_left_tree(t) == add_left_tree(t, Open)

RECURSIVE add_nodes_neq(_, _)
add_nodes_neq(t, neq) ==
  IF t = Null THEN <<>>
  ELSE (IF neq # t.key THEN <<t.id>> ELSE Pushed(t.right, t.right # Null))
       \o add_nodes_neq(t.left, neq)

RECURSIVE find_node_neq(_, _, _)
find_node_neq(t, cur, neq) ==
  IF t = Null THEN <<>>
  ELSE IF neq = t.key
    THEN (CASE cur.val < t.key -> find_start_max(t.left, cur)
            [] cur.val = t.key -> find_start_all(t.right)
            [] OTHER -> find_start_max(t.right, cur))
  ELSE <<t.id>> \o (CASE cur.val < t.key -> find_node_neq(t.left, cur, neq)
                      [] cur.val > t.key -> find_node_neq(t.right, cur, neq)
                      [] OTHER -> <<>>)

RECURSIVE add_nodes_neq_reverse(_, _)
add_nodes_neq_reverse(t, neq) ==
  IF t = Null THEN <<>>
  ELSE (IF neq # t.key THEN <<t.id>> ELSE Pushed(t.left, t.left # Null))
       \o add_nodes_neq_reverse(t.right, neq)

RECURSIVE find_node_neq_reverse(_, _, _)
find_node_neq_reverse(t, cur, neq) ==
  IF t = Null THEN <<>>
  ELSE IF neq = t.key
    THEN (CASE cur.val > t.key -> find_start_min_reverse(t.right, cur)
            [] cur.val = t.key -> find_start_all_reverse(t.left)
            [] OTHER -> find_start_min_reverse(t.left, cur))
  ELSE <<t.id>> \o (CASE cur.val > t.key -> find_node_neq_reverse(t.right, cur, neq)
                      [] cur.val < t.key -> find_node_neq_reverse(t.left, cur, neq)
                      [] OTHER -> <<>>)

-----------------------------------------------------------------------------
(* The seven iterator classes.  A query is a record op, min, max, reverse; *)
(* op is "eq", "ne" or "range", and a range has Open for a missing bound.  *)

Query(op, min, max, reverse) == [op |-> op, min |-> min, max |-> max, reverse |-> reverse]

\* The keys a query asks for: the meaning of PropertyPredicate.
Asked(q, k) ==
  CASE q.op = "eq" -> k = q.min.val
    [] q.op = "ne" -> k # q.min.val
    [] OTHER -> lessthanequal(q.min, k) /\ greaterthanequal(q.max, k)

\* The path the constructor builds.
StartPath(q, t) ==
  CASE q.op = "ne" /\ ~q.reverse -> add_nodes_neq(t, q.min.val)
    [] q.op = "ne" /\ q.reverse -> add_nodes_neq_reverse(t, q.min.val)
    [] q.min = Open /\ q.max = Open /\ ~q.reverse -> find_start_all(t)
    [] q.min = Open /\ q.max = Open /\ q.reverse -> find_start_all_reverse(t)
    [] q.min = Open /\ q.max # Open /\ ~q.reverse -> find_start_min(t, q.max)
    [] q.min = Open /\ q.max # Open /\ q.reverse -> find_start_min_reverse(t, q.max)
    [] q.min # Open /\ q.max = Open /\ ~q.reverse -> find_start_max(t, q.min)
    [] q.min # Open /\ q.max = Open /\ q.reverse -> find_start_max_reverse(t, q.min)
    [] OTHER -> IF q.reverse THEN find_start_reverse(t, q.min, q.max)
                             ELSE find_start(t, q.min, q.max)

\* _next: what is pushed when the list of node n is exhausted; left and
\* right are its children as the memory holds them.
NextPath(q, left, right) ==
  CASE q.op = "eq" -> <<>>
    [] q.op = "ne" /\ ~q.reverse -> add_nodes_neq(right, q.min.val)
    [] q.op = "ne" /\ q.reverse -> add_nodes_neq_reverse(left, q.min.val)
    [] q.op = "range" /\ ~q.reverse -> IF q.max = Open THEN add_full_right_tree(right)
                                       ELSE add_right_tree(right, q.max)
    [] OTHER -> IF q.min = Open THEN add_full_left_tree(left) ELSE add_left_tree(left, q.min)

\* find_node: the path rebuilt at key k after a rotation.
FindNode(q, t, k) ==
  LET cur == Bound(k, TRUE)
  IN CASE q.op = "ne" /\ ~q.reverse -> find_node_neq(t, cur, q.min.val)
       [] q.op = "ne" /\ q.reverse -> find_node_neq_reverse(t, cur, q.min.val)
       [] q.op = "range" /\ ~q.reverse -> IF q.max = Open THEN find_start_max(t, cur)
                                          ELSE find_start(t, cur, q.max)
       [] OTHER -> IF q.min = Open THEN find_start_min_reverse(t, cur)
                   ELSE find_start_reverse(t, q.min, cur)

-----------------------------------------------------------------------------
(* Pointers: an address is a node of the tree or freed memory.             *)

Deref(a) == IF a \in IdsOf(tree) THEN NodeAt(tree, a) ELSE freed[a]
Live(n) == IF n = Null THEN Null ELSE Deref(n.id)

\* ListTraverser::set: the first element of a node's list.
FirstOf(n) == IF n.val = <<>> THEN None ELSE <<n.key, Head(n.val)>>

\* ListTraverser::next: the element after pos in its list.
AfterPos(pos) ==
  LET l == find(tree, pos[1]).val
      i == CHOOSE i \in 1 .. Len(l) : l[i] = pos[2]
  IN IF i = Len(l) THEN None ELSE <<pos[1], l[i + 1]>>

\* The iterator moved to the node on top of path p.
AtTop(i, p) == [i EXCEPT !.curr = Last(p), !.path = Front(p), !.pos = FirstOf(Deref(Last(p)))]

\* next() past the check of the vacant flag.
Advanced(i) ==
  LET after == AfterPos(i.pos)
      n == Deref(i.curr)
      p == i.path \o NextPath(i.query, Live(n.left), Live(n.right))
  IN IF after # None THEN [i EXCEPT !.pos = after]
     ELSE IF i.query.op = "eq" \/ p = <<>> THEN [i EXCEPT !.pos = None, !.path = p]
     ELSE AtTop(i, p)

\* operator bool
Alive(i) == i.vacant \/ i.pos # None

\* rebalance_notify: the path is rebuilt in tree t from the key of _curr.
Rebuilt(i, t) ==
  LET p == FindNode(i.query, t, Deref(i.curr).key)
  IN [i EXCEPT !.curr = IF p = <<>> THEN 0 ELSE Last(p),
               !.path = IF p = <<>> THEN <<>> ELSE Front(p)]

\* Slip: the iterator keeps its path when nodes are rotated.
KeepPath(i, r) == i

\* iterator_rebalance_notify, sent once by add and remove.
RebalanceNotify(i, r) ==
  IF r.rebalanced /\ i.open /\ i.query.op # "eq" /\ i.pos # None
    THEN Rebuilt(i, r.tree) ELSE i

\* Slip: the iterator stays at the object that is being removed.
StayThere(i, pair) == IF i.open /\ i.pos = pair THEN [i EXCEPT !.vacant = TRUE] ELSE i

\* remove_notify, sent by List::remove before it unlinks the pair.
RemoveNotify(i, pair) ==
  IF i.open /\ i.pos = pair
    THEN [Advanced([i EXCEPT !.vacant = FALSE]) EXCEPT !.vacant = TRUE] ELSE i

\* The pair the client reads now, if ref() does not throw.
Shown(i) == IF i.open /\ ~i.vacant /\ i.pos # None THEN <<i.pos>> ELSE <<>>

-----------------------------------------------------------------------------
(* Actions.                                                                *)

\* A tree built by add() in the given order, object o under every key.
Build(order, o) ==
  FoldLeft(LAMBDA t, k : LET r == add(t, k, k, FALSE).tree
                         IN Repointed(r, k, [find(r, k) EXCEPT !.val = <<o>>]),
           Null, order)

Init ==
  /\ \E order \in Orders : LET o == CHOOSE o \in Objects : TRUE
        IN /\ tree = Build(order, o)
           /\ content = {<<k, o>> : k \in ToSet(order)}
  /\ freed = <<>> /\ wlocked = {} /\ it = NoIterator
  /\ visited = <<>> /\ owed = {} /\ ops = 0

Held == 0 \in wlocked \/ (tree # Null /\ tree.id \in wlocked)
NewId == Min((1 .. Cardinality(IdsOf(tree)) + Cardinality(DOMAIN freed) + 1)
             \ (IdsOf(tree) \cup DOMAIN freed))

\* get_iterator with the iterator's constructor.
get_iterator(q) ==
  /\ ~it.open
  /\ LET p == StartPath(q, tree)
         n == find(tree, q.min.val)
         i == [open |-> TRUE, query |-> q, curr |-> 0, path |-> <<>>,
               pos |-> None, vacant |-> FALSE]
     IN it' = CASE q.op = "eq" /\ n # Null -> [i EXCEPT !.pos = FirstOf(n)]
                [] q.op # "eq" /\ p # <<>> -> AtTop(i, p)
                [] OTHER -> i
  /\ visited' = Shown(it')
  /\ owed' = {c \in content : Asked(q, c[1])} \ ToSet(visited')
  /\ UNCHANGED <<tree, freed, wlocked, content, ops>>

\* next()
next ==
  /\ it.open /\ Alive(it)
  /\ it' = IF it.vacant THEN [it EXCEPT !.vacant = FALSE] ELSE Advanced(it)
  /\ visited' = visited \o Shown(it')
  /\ owed' = owed \ ToSet(Shown(it'))
  /\ UNCHANGED <<tree, freed, wlocked, content, ops>>

\* Index::add: add() finds or creates the tree node, then the object goes to
\* the head of its list.
index_add(k, o) ==
  /\ ops < MaxOps /\ <<k, o>> \notin content
  /\ ops' = ops + 1
  /\ LET r == add(tree, k, NewId, Held)
         n == find(r.tree, k)
         a == IF k \in KeysOf(tree) THEN n.id ELSE get_locks_add(tree, k, Held)
     IN /\ tree' = IF n = Null THEN r.tree
                   ELSE Repointed(r.tree, n.id, [n EXCEPT !.val = <<o>> \o @])
        /\ wlocked' = wlocked \cup {IF Held \/ tree = Null \/ a = tree.id THEN 0 ELSE a}
        /\ it' = RebalanceNotify(it, r)
  /\ content' = content \cup {<<k, o>>}
  /\ UNCHANGED <<freed, visited, owed>>

\* Index::remove: find() write locks the tree node, the list element goes
\* first, and the key when its list is empty.
index_remove(k, o) ==
  /\ ops < MaxOps /\ <<k, o>> \in content
  /\ RemoveAnywhere \/ ~it.open \/ Shown(it) = <<<<k, o>>>>
  /\ ops' = ops + 1
  /\ LET n == find(tree, k)
         t == Repointed(tree, n.id, [n EXCEPT !.val = SelectSeq(@, LAMBDA x : x # o)])
         held == Held \/ n.id = tree.id
         r == IF find(t, k).val = <<>> THEN remove(t, k, held) ELSE Result(t, FALSE)
         gone == IdsOf(t) \ IdsOf(r.tree)
         a == IF find(t, k).val = <<>> THEN get_locks_remove(t, k, held) ELSE n.id
     IN /\ tree' = r.tree
        /\ wlocked' = wlocked \cup {n.id, a}
                      \cup (IF a = 0 /\ ~Held THEN {tree.id} ELSE {})
        /\ freed' = [b \in DOMAIN freed \cup gone |->
                       IF b \in gone THEN NodeAt(t, b) ELSE freed[b]]
        /\ it' = RebalanceNotify(RemoveNotify(it, <<k, o>>), r)
  /\ content' = content \ {<<k, o>>}
  /\ owed' = owed \ {<<k, o>>}
  /\ UNCHANGED visited

\* The transaction ends: its iterator, its locks and its garbage go with it.
commit ==
  /\ ops < MaxOps /\ (it.open \/ wlocked # {})
  /\ ops' = ops + 1
  /\ it' = NoIterator /\ wlocked' = {} /\ freed' = <<>>
  /\ visited' = <<>> /\ owed' = {}
  /\ UNCHANGED <<tree, content>>

Next ==
  \/ \E q \in Queries : get_iterator(q)
  \/ next
  \/ \E k \in Keys, o \in Objects : index_add(k, o)
  \/ \E c \in content : index_remove(c[1], c[2])
  \/ commit

Spec == Init /\ [][Next]_vars

-----------------------------------------------------------------------------
RECURSIVE InOrder(_)
InOrder(t) == IF t = Null THEN <<>> ELSE InOrder(t.left) \o <<t>> \o InOrder(t.right)

\* The tree holds exactly what was added and not removed, each key once, in
\* search order, with the list of its own objects: no plan of the lock
\* analysis makes add() or remove() drop a subtree, and a key that remove()
\* moves into another node takes its list with it.
SearchTree ==
  LET s == InOrder(tree)
  IN /\ \A i, j \in 1 .. Len(s) : i < j => s[i].key < s[j].key
     /\ content = UNION {{<<s[i].key, o>> : o \in ToSet(s[i].val)} : i \in 1 .. Len(s)}
     /\ \A i \in 1 .. Len(s) : s[i].val # <<>>

\* Every stored height is one more than that of the taller child, which makes
\* it the height of the subtree.
HeightsRight == \A n \in Nodes(tree) : n.height = Max({height(n.left), height(n.right)}) + 1

\* What test/avltest.cc checks after every step: sibling heights differ by at
\* most one.
Balanced == \A n \in Nodes(tree) : Tilt(n) \in -1 .. 1

\* In a balanced tree with right heights an add or a remove leaves right
\* heights everywhere, above the node it started from too: the lock analysis
\* stopped where heights stop changing.  In a tree that a remove has left
\* uneven the analysis of add() can be wrong.
HeightsKept == [][Balanced /\ HeightsRight => HeightsRight']_tree

\* An iterator shows the asked pairs in key order and none of them twice,
\* however the tree was rotated under it.
IteratorInOrder ==
  it.open =>
    /\ IsInjective(visited)
    /\ \A i \in 1 .. Len(visited) : Asked(it.query, visited[i][1])
    /\ \A i, j \in 1 .. Len(visited) :
          i < j => IF it.query.reverse THEN visited[i][1] >= visited[j][1]
                                       ELSE visited[i][1] <= visited[j][1]

\* When the iterator is exhausted it has shown every asked pair that was in
\* the index all along.
IteratorComplete == (it.open /\ ~Alive(it)) => owed = {}

\* The object an iterator is at, or will be at after next(), is still in the
\* index: when the object it shows is removed, remove_notify has moved it on.
IteratorAtLiveObject == (it.open /\ it.pos # None) => it.pos \in content
=============================================================================
