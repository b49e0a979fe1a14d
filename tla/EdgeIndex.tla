------------------------------ MODULE EdgeIndex ------------------------------
(***************************************************************************)
(* The edges of a node in one direction: a List of tags, each with a List  *)
(* of edges, both newest first; a tag without edges is not kept.  An       *)
(* iterator stands on a list node, which a removal unlinks; the            *)
(* transaction tells every iterator beforehand, and one that stands there  *)
(* moves on and is vacant until next() is called.  A list node is named by *)
(* the edge, or the tag, that it holds.                                    *)
(***************************************************************************)
EXTENDS Integers, Sequences, SequencesExt

CONSTANT Null

First(s) == IF s = <<>> THEN Null ELSE s[1]

\* The `next` of the list node that holds x.
NextIn(s, x) ==
  LET after == {i \in DOMAIN s : i > 1 /\ s[i - 1] = x}
  IN IF after = {} THEN Null ELSE s[Min(after)]

\* List::remove: the first list node that holds x is unlinked.
Without(s, x) == RemoveFirst(s, x)

Keys(idx) == [i \in DOMAIN idx |-> idx[i].tag]
BucketOf(idx, tag) == CHOOSE i \in DOMAIN idx : idx[i].tag = tag
Edges(idx, tag) == IF tag \in Range(Keys(idx)) THEN idx[BucketOf(idx, tag)].edges ELSE <<>>

get_first(idx, tag) == First(Edges(idx, tag))

add(idx, tag, edge) ==
  IF tag \in Range(Keys(idx))
  THEN [idx EXCEPT ![BucketOf(idx, tag)].edges = <<edge>> \o @]
  ELSE <<[tag |-> tag, edges |-> <<edge>>]>> \o idx

\* Slip: the entry of a tag stays when its last edge is gone.
remove_keep_tag(idx, tag, edge) ==
  IF tag \notin Range(Keys(idx)) THEN idx
  ELSE [idx EXCEPT ![BucketOf(idx, tag)].edges = Without(@, edge)]

remove(idx, tag, edge) ==
  IF tag \notin Range(Keys(idx)) THEN idx
  ELSE IF Without(Edges(idx, tag), edge) = <<>>
  THEN RemoveAt(idx, BucketOf(idx, tag))
  ELSE [idx EXCEPT ![BucketOf(idx, tag)].edges = Without(@, edge)]

-----------------------------------------------------------------------------
(***************************************************************************)
(* Node_EdgeIteratorImpl: _key_pos is Null if a tag was asked for; `more`  *)
(* is _out_idx # NULL, that the outgoing edges follow the incoming ones;   *)
(* `dead` is a NULL pointer read, which ends the program.                  *)
(***************************************************************************)
NoIterator == [node |-> Null, dir |-> "in", more |-> FALSE, key_pos |-> Null,
               tag |-> Null, pos |-> Null, vacant |-> FALSE, dead |-> FALSE]

switch_direction(it, out, no_tag) ==
  IF ~it.more THEN it
  ELSE IF ~no_tag
  THEN [it EXCEPT !.dir = "out", !.more = FALSE, !.pos = get_first(out, it.tag)]
  ELSE IF out = <<>> THEN [it EXCEPT !.dead = TRUE]
  ELSE [it EXCEPT !.dir = "out", !.more = FALSE, !.key_pos = out[1].tag,
                  !.tag = out[1].tag, !.pos = First(out[1].edges)]

\* _next(): the list is at its end; cur is the index it belongs to.
next_list(it, cur, out) ==
  LET k == NextIn(Keys(cur), it.key_pos)
  IN IF it.key_pos = Null THEN switch_direction(it, out, FALSE)
     ELSE IF k = Null THEN switch_direction([it EXCEPT !.key_pos = Null], out, TRUE)
     ELSE [it EXCEPT !.key_pos = k, !.tag = k, !.pos = get_first(cur, k)]

\* Slip: a vacant iterator is advanced once more.
next_skips(it, idx) ==
  LET cur == idx[it.dir]
      p == NextIn(Edges(cur, it.tag), it.pos)
  IN IF it.pos # Null /\ p # Null THEN [it EXCEPT !.pos = p, !.vacant = FALSE]
     ELSE next_list([it EXCEPT !.pos = Null, !.vacant = FALSE], cur, idx["out"])

\* next(): idx gives the indices of the iterator's node by direction.
next(it, idx) ==
  LET cur == idx[it.dir]
      p == NextIn(Edges(cur, it.tag), it.pos)
  IN IF it.vacant THEN [it EXCEPT !.vacant = FALSE]
     ELSE IF it.pos # Null /\ p # Null THEN [it EXCEPT !.pos = p]
     ELSE next_list([it EXCEPT !.pos = Null], cur, idx["out"])

\* Slip: an iterator that is vacant already is not moved again.
remove_notify_once(it, idx, node, dir, edge) ==
  IF <<it.node, it.dir, it.pos>> # <<node, dir, edge>> \/ it.vacant THEN it
  ELSE [next(it, idx) EXCEPT !.vacant = TRUE]

remove_notify(it, idx, node, dir, edge) ==
  IF <<it.node, it.dir, it.pos>> # <<node, dir, edge>> THEN it
  ELSE [next([it EXCEPT !.vacant = FALSE], idx) EXCEPT !.vacant = TRUE]

More(it) == it.vacant \/ it.pos # Null      \* operator bool

\* The constructors for one direction and for both, on an index that has
\* edges if no tag is given.
OneWay(node, dir, idx, tag) ==
  [NoIterator EXCEPT !.node = node, !.dir = dir,
     !.key_pos = IF tag = Null THEN idx[dir][1].tag ELSE Null,
     !.tag = IF tag = Null THEN idx[dir][1].tag ELSE tag,
     !.pos = IF tag = Null THEN First(idx[dir][1].edges) ELSE get_first(idx[dir], tag)]

BothWays(node, idx, tag) ==
  LET it == [OneWay(node, "in", idx, tag) EXCEPT !.more = idx["out"] # <<>>]
  IN IF it.pos = Null THEN next_list(it, idx["in"], idx["out"]) ELSE it

\* get_edges(): Null stands for the tag 0, any tag.
get_edges(node, dir, idx, tag) ==
  IF dir # "any"
  THEN IF tag = Null /\ idx[dir] = <<>> THEN NoIterator ELSE OneWay(node, dir, idx, tag)
  ELSE IF idx["in"] # <<>> THEN BothWays(node, idx, tag)
  ELSE IF idx["out"] # <<>> THEN OneWay(node, "out", idx, tag)
  ELSE NoIterator
=============================================================================
