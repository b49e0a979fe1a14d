------------------------------- MODULE AvlTree -------------------------------
(***************************************************************************)
(* AvlTree<K,V>: a search tree whose nodes are rotated and re-heighted in  *)
(* place, and the analysis that runs before add() and remove() to find the *)
(* highest node they will change.  Only that node is write locked, and the *)
(* operation then starts there: the pointer it returns is thrown away, so  *)
(* a plan that is one level too low loses nodes or leaves stale heights.   *)
(*                                                                         *)
(* A tree is a nested record; id is the node's address, which rotations    *)
(* keep and which remove() keeps while it moves another key into the node. *)
(* val is the V stored with the key, here the objects of an index list.    *)
(***************************************************************************)
EXTENDS Integers, Sequences, FiniteSets, FiniteSetsExt

Null == [height |-> -1]                 \* height(NULL) is -1
height(t) == t.height

TreeNode(a, k) ==
  [id |-> a, key |-> k, val |-> <<>>, left |-> Null, right |-> Null, height |-> 0]

\* A node given new children, with its height recomputed from them.
WithChildren(t, l, r) ==
  [t EXCEPT !.left = l, !.right = r, !.height = Max({height(l), height(r)}) + 1]

left_rotate(hinge) ==
  LET top == hinge.right
  IN WithChildren(top, WithChildren(hinge, hinge.left, top.left), top.right)

right_rotate(hinge) ==
  LET top == hinge.left
  IN WithChildren(top, top.left, WithChildren(hinge, top.right, hinge.right))

leftright_rotate(hinge) ==
  left_rotate([hinge EXCEPT !.right = right_rotate(@)])

rightleft_rotate(hinge) ==
  right_rotate([hinge EXCEPT !.left = left_rotate(@)])

Tilt(t) == height(t.left) - height(t.right)

RECURSIVE Nodes(_)
Nodes(t) == IF t = Null THEN {} ELSE {t} \cup Nodes(t.left) \cup Nodes(t.right)
KeysOf(t) == {n.key : n \in Nodes(t)}
IdsOf(t) == {n.id : n \in Nodes(t)}
NodeAt(t, a) == CHOOSE n \in Nodes(t) : n.id = a

RECURSIVE find(_, _)
find(t, k) ==
  IF t = Null \/ t.key = k THEN t
  ELSE find(IF k < t.key THEN t.left ELSE t.right, k)

RECURSIVE find_max(_)
find_max(t) == IF t = Null \/ t.right = Null THEN t ELSE find_max(t.right)

-----------------------------------------------------------------------------
(* add_recursive and remove_recursive return the subtree's new root and    *)
(* whether anything was rotated.                                           *)

Result(t, moved) == [tree |-> t, rebalanced |-> moved]

\* curr after its left (or right) child has been replaced by an add.
SettleAdd(curr, k, down) ==
  IF Tilt(curr) = 2 /\ k < curr.key
    THEN Result(IF k > curr.left.key THEN rightleft_rotate(curr) ELSE right_rotate(curr), TRUE)
  ELSE IF Tilt(curr) = -2 /\ k > curr.key
    THEN Result(IF k < curr.right.key THEN leftright_rotate(curr) ELSE left_rotate(curr), TRUE)
  ELSE Result(WithChildren(curr, curr.left, curr.right), down.rebalanced)

RECURSIVE add_recursive(_, _, _)
add_recursive(curr, k, a) ==
  IF curr = Null THEN Result(TreeNode(a, k), FALSE)
  ELSE IF k = curr.key THEN Result(curr, FALSE)
  ELSE IF k < curr.key
    THEN LET down == add_recursive(curr.left, k, a)
         IN SettleAdd([curr EXCEPT !.left = down.tree], k, down)
    ELSE LET down == add_recursive(curr.right, k, a)
         IN SettleAdd([curr EXCEPT !.right = down.tree], k, down)

\* curr after a removal below it.  A right subtree that became too small is
\* answered by a single rotation only when the left child leans left; a left
\* subtree that became too small by a double one only when the right child
\* leans left.
SettleRemove(curr, side, down) ==
  IF side = "right" /\ Tilt(curr) = 2
    THEN Result(IF Tilt(curr.left) > 0 THEN right_rotate(curr) ELSE rightleft_rotate(curr), TRUE)
  ELSE IF side = "left" /\ Tilt(curr) = -2
    THEN Result(IF Tilt(curr.right) > 0 THEN leftright_rotate(curr) ELSE left_rotate(curr), TRUE)
  ELSE Result(WithChildren(curr, curr.left, curr.right), down.rebalanced)

RECURSIVE remove_recursive(_, _)
remove_recursive(curr, k) ==
  IF curr = Null THEN Result(Null, FALSE)
  ELSE IF k > curr.key
    THEN LET down == remove_recursive(curr.right, k)
         IN SettleRemove([curr EXCEPT !.right = down.tree], "right", down)
  ELSE IF k < curr.key
    THEN LET down == remove_recursive(curr.left, k)
         IN SettleRemove([curr EXCEPT !.left = down.tree], "left", down)
  ELSE IF curr.left = Null THEN Result(curr.right, FALSE)
  ELSE IF curr.right = Null THEN Result(curr.left, FALSE)
  ELSE LET last == find_max(curr.left)     \* its in-order predecessor
           down == remove_recursive(curr.left, last.key)
       IN SettleRemove([curr EXCEPT !.key = last.key, !.val = last.val,
                                    !.left = down.tree], "left", down)

-----------------------------------------------------------------------------
(* The lock analysis.  A plan is the vector of LockInfo, root first.       *)

LockInfo(curr, myht, htc, ptrc, up) ==
  [curr |-> curr, myht |-> myht, ht_change |-> htc,
   ptr_change |-> ptrc, ptr_change_for_parent |-> up]

Changes(info) == info.ht_change \/ info.ptr_change

\* What an add below curr does at curr, from the plan of the level below.
InfoAdd(curr, below, lefth, righth) ==
  LET rotates == (lefth - righth) % 4 = 2
      myht == IF rotates THEN height(curr) ELSE Max({lefth, righth}) + 1
  IN LockInfo(curr.id, myht, height(curr) # myht,
              rotates \/ below.ptr_change_for_parent, rotates)

RECURSIVE get_locks_add_recursive(_, _)
get_locks_add_recursive(curr, k) ==
  IF curr = Null THEN <<LockInfo(0, 0, TRUE, TRUE, TRUE)>>
  ELSE IF k < curr.key
    THEN LET below == get_locks_add_recursive(curr.left, k)
         IN <<InfoAdd(curr, below[1], below[1].myht, height(curr.right))>> \o below
    ELSE LET below == get_locks_add_recursive(curr.right, k)
         IN <<InfoAdd(curr, below[1], height(curr.left), below[1].myht)>> \o below

\* Slip: the level above the lowest one that changes.
AboveLowest(plan) ==
  Max({1, Max({i \in 1 .. Len(plan) - 1 : Changes(plan[i])}) - 1})

\* The level above the highest one that changes, or the root.
LevelAbove(plan) ==
  Max({1, Min({i \in 1 .. Len(plan) : Changes(plan[i])}) - 1})

\* The node to start add(k) from; 0 stands for the whole index.  held: the
\* transaction has the index or its root write locked already.
get_locks_add(t, k, held) ==
  IF held \/ t = Null THEN 0
  ELSE LET plan == get_locks_add_recursive(t, k)
           level == LevelAbove(plan)
       IN IF level = 1 \/ plan[1].myht = 1 THEN 0 ELSE plan[level].curr

\* What a removal below curr does at curr; other is the untouched child.
InfoRemove(curr, below, side, ptrc) ==
  LET other == IF side = "left" THEN curr.right ELSE curr.left
      rotates == height(other) - below.myht = 2
      even == Tilt(other) = 0
      myht == CASE rotates /\ even -> height(curr)
                [] rotates /\ ~even -> height(curr) - 1
                [] OTHER -> Max({below.myht, height(other)}) + 1
  IN LockInfo(curr.id, myht, height(curr) # myht,
              ptrc \/ below.ptr_change_for_parent, rotates)

RECURSIVE get_locks_remove_recursive(_, _)
get_locks_remove_recursive(curr, k) ==
  IF k > curr.key
    THEN LET below == get_locks_remove_recursive(curr.right, k)
         IN <<InfoRemove(curr, below[1], "right", FALSE)>> \o below
  ELSE IF k < curr.key
    THEN LET below == get_locks_remove_recursive(curr.left, k)
         IN <<InfoRemove(curr, below[1], "left", FALSE)>> \o below
  ELSE IF curr.left = Null
    THEN <<LockInfo(curr.id, height(curr.right), TRUE, TRUE, TRUE)>>
  ELSE IF curr.right = Null
    THEN <<LockInfo(curr.id, height(curr.left), TRUE, TRUE, TRUE)>>
  ELSE LET below == get_locks_remove_recursive(curr.left, find_max(curr.left).key)
       IN <<InfoRemove(curr, below[1], "left", TRUE)>> \o below

\* Slip: two levels above the last change instead of the first.
AboveLast(plan) ==
  LET i == Max({j \in 1 .. Len(plan) : Changes(plan[j])})
  IN IF i <= 3 THEN 0 ELSE plan[i - 2].curr

\* Two levels above the first change; levels up to the third lock the index.
TwoLevelsUp(plan) ==
  LET i == Min({j \in 1 .. Len(plan) : Changes(plan[j])})
  IN IF i <= 3 THEN 0 ELSE plan[i - 2].curr

get_locks_remove(t, k, held) ==
  IF held THEN 0 ELSE TwoLevelsUp(get_locks_remove_recursive(t, k))

-----------------------------------------------------------------------------
(* The two operations.                                                     *)

\* The parent of node a keeps pointing at a, whatever became of it in s.
RECURSIVE Repointed(_, _, _)
Repointed(t, a, s) ==
  IF t = Null THEN Null
  ELSE IF t.id = a THEN (IF a \in IdsOf(s) THEN NodeAt(s, a) ELSE t)
  ELSE [t EXCEPT !.left = Repointed(@, a, s), !.right = Repointed(t.right, a, s)]

AddFrom(t, a, k, new) ==
  IF a = 0 THEN add_recursive(t, k, new)
  ELSE LET r == add_recursive(NodeAt(t, a), k, new)
       IN Result(Repointed(t, a, r.tree), r.rebalanced)

\* add(k), the new node at address new.  The plan finds a key that is there and
\* nothing changes; without a plan, the index or its root being write locked,
\* add_recursive runs in any case and settles the path down to the key.
add(t, k, new, held) ==
  IF k \in KeysOf(t) /\ ~held THEN Result(t, FALSE)
  ELSE AddFrom(t, get_locks_add(t, k, held), k, new)

\* The node with the key is itself to_lock: the predecessor moves into it and
\* is removed below it, and to_lock is neither rotated nor re-heighted.
ReplaceInPlace(n) ==
  LET last == find_max(n.left)
      r == remove_recursive(n.left, last.key)
  IN Result([n EXCEPT !.key = last.key, !.val = last.val, !.left = r.tree], r.rebalanced)

RemoveFrom(t, a, k) ==
  IF a = 0 THEN remove_recursive(t, k)
  ELSE LET n == NodeAt(t, a)
           r == IF n.key = k /\ n.left # Null /\ n.right # Null
                  THEN ReplaceInPlace(n) ELSE remove_recursive(n, k)
       IN Result(Repointed(t, a, r.tree), r.rebalanced)

\* remove(k): an absent key changes nothing.
remove(t, k, held) ==
  IF k \notin KeysOf(t) THEN Result(t, FALSE)
  ELSE RemoveFrom(t, get_locks_remove(t, k, held), k)
=============================================================================
