------------------------ MODULE BatchManagerProofs ------------------------
(***************************************************************************)
(* BatchManager for any number of clients, priorities and operations: no   *)
(* operation is lost or run twice, whatever the executor throws, and in    *)
(* IMMEDIATE mode nothing stays behind.                                    *)
(***************************************************************************)
EXTENDS BatchManager, FiniteSetTheorems, SequenceTheorems, WellFoundedInduction, TLAPS

Op == [id : Nat, hash : Hashes]

Typed ==
  /\ batches \in [Priorities -> Seq(Op)] /\ executed \in Seq(Nat)
  /\ next_id \in Nat /\ thrown \in BOOLEAN
  /\ pc \in [Clients -> {"idle", "check", "flush"}]

\* The ids in the batches, and in what was run, name one operation each.
BatchedOnce ==
  \A p, q \in Priorities : \A i \in 1 .. Len(batches[p]), j \in 1 .. Len(batches[q]) :
    batches[p][i].id = batches[q][j].id => p = q /\ i = j

ExecutedOnce ==
  \A i, j \in 1 .. Len(executed) : executed[i] = executed[j] => i = j

\* An accepted operation is in a batch or was run, and its id will not be drawn
\* again.
Accounted ==
  /\ accepted = Range(executed) \cup Pending /\ Range(executed) \cap Pending = {}
  /\ \A x \in accepted : x < next_id

\* The inductive invariant.
BatchInv ==
  /\ Typed /\ BatchedOnce /\ ExecutedOnce /\ Accounted
  /\ status = "closed" => Pending = {}

\* The priorities are 0 .. MaxPriority; a set of naturals has a least element.
Less == {p \in Nat \X Nat : p[1] < p[2]}

LEMMA NatLeast ==
  ASSUME NEW T, T \subseteq Nat, T # {}
  PROVE  \E x \in T : \A y \in T : x <= y
  <1>1. IsWellFoundedOn(OpToRel(<, Nat), Nat)  BY NatLessThanWellFounded, Zenon
  <1>2. IsWellFoundedOn(Less, Nat)  BY <1>1, Zenon DEF OpToRel, Less
  <1>3. PICK x \in T : \A y \in T : ~(<<y, x>> \in Less)  BY <1>2, WFMin
  <1>4. \A y \in T : ~(y < x)  BY <1>3 DEF Less
  <1>5. QED  BY <1>4

(***************************************************************************)
(* Ordered(P): the loop of flush_all_batches.  A recursive function exists *)
(* because it exists up to every n: there is no least n up to which it     *)
(* does not.                                                               *)
(***************************************************************************)
Part(P, p) == IF p \in P THEN batches[p] ELSE <<>>

Loop(P, f, n) ==
  f = [p \in -1 .. n |-> IF p = -1 THEN <<>> ELSE Part(P, p) \o f[p - 1]]

LEMMA LoopExists ==
  ASSUME NEW P, NEW n \in Nat
  PROVE  \E f : Loop(P, f, n - 1)
  <1> DEFINE T == {k \in Nat : ~ \E f : Loop(P, f, k - 1)}
  <1>1. SUFFICES ASSUME T # {} PROVE FALSE
    OBVIOUS
  <1>2. PICK k \in T : \A y \in T : k <= y
    BY <1>1, NatLeast
  <1>3. CASE k = 0
    <2> DEFINE g == [p \in -1 .. -1 |-> <<>>]
    <2>1. g = [p \in -1 .. -1 |-> IF p = -1 THEN <<>> ELSE Part(P, p) \o g[p - 1]]
      OBVIOUS
    <2>2. Loop(P, g, k - 1)
      BY <1>3, <2>1 DEF Loop
    <2>3. QED  BY <2>2
  <1>4. CASE k # 0
    <2> DEFINE m == k - 1
    <2>1. m \in Nat /\ m \notin T
      BY <1>2, <1>4
    <2>2. PICK f : Loop(P, f, m - 1)
      BY <2>1
    <2> DEFINE g == [p \in -1 .. m |-> IF p = m THEN Part(P, m) \o f[m - 1] ELSE f[p]]
    <2>3. ASSUME NEW p \in -1 .. m
          PROVE  g[p] = IF p = -1 THEN <<>> ELSE Part(P, p) \o g[p - 1]
      <3>1. CASE p = m
        <4>1. g[p] = Part(P, p) \o f[p - 1] /\ p # -1
          <5>1. m \in -1 .. m /\ m # -1
            BY <2>1
          <5>2. g[m] = Part(P, m) \o f[m - 1]
            BY <5>1
          <5>3. QED  BY <3>1, <5>1, <5>2
        <4>2. p - 1 \in -1 .. m /\ p - 1 # m
          BY <2>1, <3>1
        <4>3. g[p - 1] = f[p - 1]
          BY <4>2
        <4>4. QED  BY <4>1, <4>3
      <3>2. CASE p # m
        <4>1. p \in -1 .. (m - 1)
          BY <2>1, <3>2
        <4>2. g[p] = f[p]
          BY <3>2
        <4>3. f[p] = IF p = -1 THEN <<>> ELSE Part(P, p) \o f[p - 1]
          BY <2>2, <4>1 DEF Loop
        <4>4. p # -1 => g[p - 1] = f[p - 1]
          BY <2>1, <4>1
        <4>5. QED  BY <4>2, <4>3, <4>4
      <3>3. QED  BY <3>1, <3>2
    <2>4. Loop(P, g, m)
      <3>1. g = [p \in -1 .. m |-> g[p]]
        OBVIOUS
      <3> HIDE DEF g
      <3>2. QED  BY <2>3, <3>1 DEF Loop
    <2>5. QED  BY <2>4
  <1>5. QED  BY <1>3, <1>4

LEMMA OrderedIs ==
  ASSUME NEW P
  PROVE  \E f : Loop(P, f, MaxPriority) /\ Ordered(P) = f[MaxPriority]
  <1> DEFINE f == CHOOSE f : Loop(P, f, MaxPriority)
  <1>1. MaxPriority + 1 \in Nat /\ (MaxPriority + 1) - 1 = MaxPriority
    BY BatchBounds
  <1>2. \E g : Loop(P, g, MaxPriority)
    BY <1>1, LoopExists, Zenon
  <1>3. Loop(P, f, MaxPriority)
    BY <1>2
  <1>4. Ordered(P) = f[MaxPriority]
    BY DEF Ordered, Loop, Part
  <1>5. QED  BY <1>3, <1>4

(***************************************************************************)
(* What a flush runs.                                                      *)
(***************************************************************************)
\* s holds the operations of the batches in Q, each once.
Lists(s, Q) ==
  /\ s \in Seq(Op)
  /\ \A k \in 1 .. Len(s) : \E p \in Q : \E i \in 1 .. Len(batches[p]) : s[k] = batches[p][i]
  /\ \A p \in Q : \A i \in 1 .. Len(batches[p]) : \E k \in 1 .. Len(s) : s[k] = batches[p][i]
  /\ \A k, l \in 1 .. Len(s) : s[k].id = s[l].id => k = l

LEMMA BatchTyped ==
  ASSUME Typed, NEW p \in Priorities
  PROVE  /\ batches[p] \in Seq(Op) /\ Len(batches[p]) \in Nat
         /\ DOMAIN batches[p] = 1 .. Len(batches[p])
         /\ \A i \in 1 .. Len(batches[p]) : batches[p][i] \in Op /\ batches[p][i].id \in Nat
  <1>1. batches[p] \in Seq(Op)
    BY DEF Typed
  <1>2. Len(batches[p]) \in Nat /\ DOMAIN batches[p] = 1 .. Len(batches[p])
    BY <1>1, LenProperties
  <1>3. \A i \in 1 .. Len(batches[p]) : batches[p][i] \in Op
    BY <1>1, ElementOfSeq
  <1>4. QED  BY <1>1, <1>2, <1>3 DEF Op

\* A batch in front of a list of others.
LEMMA ListsMore ==
  ASSUME Typed, BatchedOnce, NEW p \in Priorities, NEW Q \in SUBSET Priorities,
         p \notin Q, NEW s, Lists(s, Q)
  PROVE  Lists(batches[p] \o s, Q \cup {p})
  <1> DEFINE b == batches[p]
             m == Len(b)
             n == Len(s)
             u == b \o s
  <1>1. b \in Seq(Op) /\ s \in Seq(Op) /\ m \in Nat /\ n \in Nat
    BY BatchTyped, LenProperties DEF Lists
  <1>2. /\ u \in Seq(Op) /\ Len(u) = m + n
        /\ \A k \in 1 .. (m + n) : u[k] = IF k <= m THEN b[k] ELSE s[k - m]
    BY <1>1, ConcatProperties
  <1>3. \A k \in 1 .. m : k \in 1 .. Len(u) /\ u[k] = b[k]
    BY <1>1, <1>2
  <1>4. \A k \in 1 .. n : k + m \in 1 .. Len(u) /\ u[k + m] = s[k]
    <2> TAKE k \in 1 .. n
    <2>1. k + m \in 1 .. (m + n) /\ ~(k + m <= m) /\ (k + m) - m = k
      BY <1>1
    <2>2. QED  BY <1>2, <2>1
  <1>5. \A k \in 1 .. Len(u) : \/ k \in 1 .. m /\ u[k] = b[k]
                               \/ k - m \in 1 .. n /\ u[k] = s[k - m]
    BY <1>1, <1>2
  <1>6. \A k \in 1 .. Len(u) :
          \E q \in Q \cup {p} : \E i \in 1 .. Len(batches[q]) : u[k] = batches[q][i]
    <2> TAKE k \in 1 .. Len(u)
    <2>1. CASE k \in 1 .. m /\ u[k] = b[k]
      BY <2>1
    <2>2. CASE k - m \in 1 .. n /\ u[k] = s[k - m]
      <3> DEFINE j == k - m
      <3>1. PICK q \in Q : \E i \in 1 .. Len(batches[q]) : s[j] = batches[q][i]
        BY <2>2 DEF Lists
      <3>2. QED  BY <2>2, <3>1
    <2>3. QED  BY <1>5, <2>1, <2>2
  <1>7. \A q \in Q \cup {p} : \A i \in 1 .. Len(batches[q]) :
          \E k \in 1 .. Len(u) : u[k] = batches[q][i]
    <2> TAKE q \in Q \cup {p}
    <2> TAKE i \in 1 .. Len(batches[q])
    <2>1. CASE q = p
      BY <1>3, <2>1
    <2>2. CASE q \in Q
      <3>1. PICK k \in 1 .. n : s[k] = batches[q][i]
        BY <2>2 DEF Lists
      <3>2. QED  BY <1>4, <3>1
    <2>3. QED  BY <2>1, <2>2
  <1>8. \A k \in 1 .. m, l \in 1 .. n : b[k].id # s[l].id
    <2> TAKE k \in 1 .. m, l \in 1 .. n
    <2>1. PICK q \in Q : \E i \in 1 .. Len(batches[q]) : s[l] = batches[q][i]
      BY DEF Lists
    <2>2. PICK i \in 1 .. Len(batches[q]) : s[l] = batches[q][i]
      BY <2>1
    <2>3. q \in Priorities /\ q # p
      OBVIOUS
    <2>4. QED  BY <2>2, <2>3 DEF BatchedOnce
  <1>9. \A k, l \in 1 .. m : b[k].id = b[l].id => k = l
    BY DEF BatchedOnce
  <1>10. \A k, l \in 1 .. n : s[k].id = s[l].id => k = l
    BY DEF Lists
  <1> HIDE DEF b, m, n, u
  <1>11. \A k, l \in 1 .. Len(u) : u[k].id = u[l].id => k = l
    <2> TAKE k, l \in 1 .. Len(u)
    <2> HAVE u[k].id = u[l].id
    <2>1. k \in Nat /\ l \in Nat
      OBVIOUS
    <2>2. CASE k \in 1 .. m /\ u[k] = b[k] /\ l \in 1 .. m /\ u[l] = b[l]
      BY <1>9, <2>2
    <2>3. CASE k \in 1 .. m /\ u[k] = b[k] /\ l - m \in 1 .. n /\ u[l] = s[l - m]
      BY <1>8, <2>3
    <2>4. CASE k - m \in 1 .. n /\ u[k] = s[k - m] /\ l \in 1 .. m /\ u[l] = b[l]
      BY <1>8, <2>4
    <2>5. CASE k - m \in 1 .. n /\ u[k] = s[k - m] /\ l - m \in 1 .. n /\ u[l] = s[l - m]
      <3>1. k - m = l - m
        BY <1>10, <2>5
      <3>2. QED  BY <1>1, <2>1, <3>1
    <2>6. QED  BY <1>5, <2>2, <2>3, <2>4, <2>5
  <1>12. Lists(u, Q \cup {p})
    BY <1>2, <1>6, <1>7, <1>11 DEF Lists
  <1>13. QED  BY <1>12 DEF u, b

\* Ordered(P) holds the operations of the batches in P, each once.
LEMMA OrderedLists ==
  ASSUME Typed, BatchedOnce, NEW P \in SUBSET Priorities
  PROVE  Lists(Ordered(P), P)
  <1>1. PICK f : Loop(P, f, MaxPriority) /\ Ordered(P) = f[MaxPriority]
    BY OrderedIs
  <1> DEFINE Below(k) == {p \in P : p < k}
             T == {k \in Nat : k <= MaxPriority + 1 /\ ~Lists(f[k - 1], Below(k))}
  <1>2. \A q \in -1 .. MaxPriority :
          f[q] = IF q = -1 THEN <<>> ELSE Part(P, q) \o f[q - 1]
    BY <1>1 DEF Loop
  <1>0. \A p \in P : p \in Nat /\ p < MaxPriority + 1
    BY BatchBounds DEF Priorities
  <1>3. T = {}
    <2>1. SUFFICES ASSUME T # {} PROVE FALSE
      OBVIOUS
    <2>2. PICK k \in T : \A y \in T : k <= y
      BY <2>1, NatLeast
    <2>3. CASE k = 0
      <3>1. f[k - 1] = <<>>
        BY <1>2, <2>3, BatchBounds
      <3>2. Below(k) = {}
        BY <1>0, <2>3
      <3>3. <<>> \in Seq(Op) /\ Len(<<>>) = 0
        BY EmptySeq
      <3>4. Lists(<<>>, {})
        BY <3>3 DEF Lists
      <3>5. QED  BY <3>1, <3>2, <3>4
    <2>4. CASE k # 0
      <3> DEFINE q == k - 1
      <3>1. q \in Nat /\ q \in Priorities /\ q \in -1 .. MaxPriority /\ q # -1
        BY <2>4, BatchBounds DEF Priorities
      <3>2. q <= MaxPriority + 1 /\ ~(k <= q)
        BY <3>1, BatchBounds
      <3>3. Lists(f[q - 1], Below(q))
        BY <2>2, <3>1, <3>2
      <3>4. f[q] = Part(P, q) \o f[q - 1]
        BY <1>2, <3>1
      <3>5. Below(q) \in SUBSET Priorities /\ q \notin Below(q)
        BY <3>1
      <3>6. CASE q \in P
        <4>1. f[q] = batches[q] \o f[q - 1]
          BY <3>4, <3>6 DEF Part
        <4>2. Below(k) = Below(q) \cup {q}
          <5>1. \A p \in P : p < k <=> p < q \/ p = q
            BY <1>0, <3>1
          <5>2. QED  BY <3>6, <5>1
        <4>3. QED  BY <3>1, <3>3, <3>5, <4>1, <4>2, ListsMore
      <3>7. CASE q \notin P
        <4>1. f[q] = <<>> \o f[q - 1]
          BY <3>4, <3>7 DEF Part
        <4>2. f[q] = f[q - 1]
          BY <3>3, <4>1, ConcatEmptySeq DEF Lists
        <4>3. Below(k) = Below(q)
          <5>1. \A p \in P : p < k <=> p < q \/ p = q
            BY <1>0, <3>1
          <5>2. QED  BY <3>7, <5>1
        <4>4. QED  BY <3>3, <4>2, <4>3
      <3>8. QED  BY <3>6, <3>7
    <2>5. QED  BY <2>3, <2>4
  <1>4. MaxPriority + 1 \in Nat /\ MaxPriority + 1 <= MaxPriority + 1
        /\ (MaxPriority + 1) - 1 = MaxPriority
    BY BatchBounds
  <1>5. Lists(f[MaxPriority], Below(MaxPriority + 1))
    <2>1. Lists(f[(MaxPriority + 1) - 1], Below(MaxPriority + 1))
      BY <1>3, <1>4
    <2>2. QED  BY <1>4, <2>1
  <1>6. Below(MaxPriority + 1) = P
    BY <1>0
  <1>7. QED  BY <1>1, <1>5, <1>6

\* The ids in a set of batches, and those in a sequence.
LEMMA IdsIn ==
  ASSUME NEW b \in [Priorities -> Seq(Op)]
  PROVE  \A x : x \in UNION {{op.id : op \in Range(b[p])} : p \in Priorities} <=>
                \E p \in Priorities : \E i \in 1 .. Len(b[p]) : x = b[p][i].id
  <1>1. \A p \in Priorities : DOMAIN b[p] = 1 .. Len(b[p])
    BY LenProperties
  <1> DEFINE Of(p) == {op.id : op \in Range(b[p])}
  <1>2. \A p \in Priorities : \A x : x \in Of(p) <=> \E i \in 1 .. Len(b[p]) : x = b[p][i].id
    BY <1>1 DEF Range
  <1>3. \A x : x \in UNION {Of(p) : p \in Priorities} <=> \E p \in Priorities : x \in Of(p)
    OBVIOUS
  <1> HIDE DEF Of
  <1>4. \A x : (\E p \in Priorities : x \in Of(p)) <=>
               \E p \in Priorities : \E i \in 1 .. Len(b[p]) : x = b[p][i].id
    BY <1>2
  <1>5. \A x : x \in UNION {Of(p) : p \in Priorities} <=>
               \E p \in Priorities : \E i \in 1 .. Len(b[p]) : x = b[p][i].id
    BY <1>3, <1>4, Zenon
  <1>6. QED  BY <1>5 DEF Of

LEMMA RangeIs ==
  ASSUME NEW s \in Seq(Nat)
  PROVE  /\ Len(s) \in Nat
         /\ \A i \in 1 .. Len(s) : s[i] \in Nat
         /\ \A x : x \in Range(s) <=> \E i \in 1 .. Len(s) : x = s[i]
  <1>1. Len(s) \in Nat /\ DOMAIN s = 1 .. Len(s)
    BY LenProperties
  <1>2. QED  BY <1>1, ElementOfSeq DEF Range

\* A flush of the batches in P: what they held is run, once, and the other
\* batches stay.
LEMMA FlushRuns ==
  ASSUME BatchInv, NEW P \in SUBSET Priorities, Run(P),
         batches' = [p \in Priorities |-> IF p \in P THEN <<>> ELSE batches[p]],
         UNCHANGED <<accepted, next_id>>
  PROVE  /\ batches' \in [Priorities -> Seq(Op)] /\ executed' \in Seq(Nat)
         /\ BatchedOnce' /\ ExecutedOnce' /\ Accounted'
         /\ Pending' \subseteq Pending
         /\ P = Priorities => Pending' = {}
  <1> USE DEF BatchInv
  <1> DEFINE o == Ordered(P)
             n == Len(o)
             m == Len(executed)
             ids == [i \in DOMAIN o |-> o[i].id]
  <1>1. Lists(o, P)
    BY OrderedLists
  <1>2. /\ o \in Seq(Op) /\ n \in Nat /\ DOMAIN o = 1 .. n
        /\ \A i \in 1 .. n : o[i] \in Op /\ o[i].id \in Nat
    <2>1. o \in Seq(Op)
      BY <1>1 DEF Lists
    <2>2. \A i \in 1 .. n : o[i] \in Op
      BY <2>1, ElementOfSeq
    <2>3. QED  BY <2>1, <2>2, LenProperties DEF Op
  <1>3. ids \in Seq(Nat) /\ Len(ids) = n /\ \A i \in 1 .. n : ids[i] = o[i].id
    <2>1. ids \in [1 .. n -> Nat]
      BY <1>2
    <2>2. ids \in Seq(Nat)
      BY <1>2, <2>1, SeqDef
    <2>3. DOMAIN ids = 1 .. n /\ DOMAIN ids = 1 .. Len(ids) /\ Len(ids) \in Nat
      BY <2>1, <2>2, LenProperties
    <2>4. Len(ids) = n
      <3> HIDE DEF ids, n, o
      <3>1. QED  BY <1>2, <2>3
    <2>5. QED  BY <1>2, <2>2, <2>4
  <1>4. executed' = executed \o ids
    BY DEF Run
  <1>5. executed \in Seq(Nat) /\ m \in Nat
    BY LenProperties DEF Typed
  <1> HIDE DEF o, n, ids
  <1>6. /\ executed' \in Seq(Nat) /\ Len(executed') = m + n
        /\ \A k \in 1 .. (m + n) : executed'[k] = IF k <= m THEN executed[k] ELSE ids[k - m]
    BY <1>3, <1>4, <1>5, ConcatProperties
  <1>7. \A k \in 1 .. Len(executed') : \/ k \in 1 .. m /\ executed'[k] = executed[k]
                                       \/ k - m \in 1 .. n /\ executed'[k] = ids[k - m]
    BY <1>2, <1>5, <1>6
  <1>8. /\ \A k \in 1 .. m : k \in 1 .. Len(executed') /\ executed'[k] = executed[k]
        /\ \A k \in 1 .. n : k + m \in 1 .. Len(executed') /\ executed'[k + m] = ids[k]
    <2>1. \A k \in 1 .. m : k \in 1 .. Len(executed') /\ executed'[k] = executed[k]
      BY <1>2, <1>5, <1>6
    <2>2. ASSUME NEW k \in 1 .. n
          PROVE  k + m \in 1 .. Len(executed') /\ executed'[k + m] = ids[k]
      <3>1. k + m \in 1 .. (m + n) /\ ~(k + m <= m) /\ (k + m) - m = k
        BY <1>2, <1>5
      <3>2. QED  BY <1>6, <3>1
    <2>3. QED  BY <2>1, <2>2
  \* What is pending before and after.
  <1>9. batches \in [Priorities -> Seq(Op)] /\ batches' \in [Priorities -> Seq(Op)]
    BY EmptySeq DEF Typed
  <1>10. \A x : x \in Pending <=>
           \E p \in Priorities : \E i \in 1 .. Len(batches[p]) : x = batches[p][i].id
    BY <1>9, IdsIn DEF Pending
  <1>11. \A x : x \in Pending' <=>
           \E p \in Priorities \ P : \E i \in 1 .. Len(batches[p]) : x = batches[p][i].id
    <2>1. \A x : x \in Pending' <=>
            \E p \in Priorities : \E i \in 1 .. Len(batches'[p]) : x = batches'[p][i].id
      BY <1>9, IdsIn DEF Pending
    <2>2. \A p \in P : Len(batches'[p]) = 0
      BY EmptySeq
    <2>3. \A p \in Priorities \ P : batches'[p] = batches[p]
      OBVIOUS
    <2>4. \A p \in P : \A i \in 1 .. Len(batches'[p]) : FALSE
      BY <2>2
    <2>5. QED  BY <2>1, <2>3, <2>4
  <1>12. \A x : x \in Range(ids) <=>
           \E p \in P : \E i \in 1 .. Len(batches[p]) : x = batches[p][i].id
    <2>1. \A x : x \in Range(ids) <=> \E k \in 1 .. n : x = o[k].id
      BY <1>3, RangeIs
    <2>2. /\ \A k \in 1 .. n : \E p \in P : \E i \in 1 .. Len(batches[p]) : o[k] = batches[p][i]
          /\ \A p \in P : \A i \in 1 .. Len(batches[p]) : \E k \in 1 .. n : o[k] = batches[p][i]
      BY <1>1 DEF Lists, n
    <2>3. ASSUME NEW x \in Range(ids)
          PROVE  \E p \in P : \E i \in 1 .. Len(batches[p]) : x = batches[p][i].id
      <3>1. PICK k \in 1 .. n : x = o[k].id
        BY <2>1
      <3>2. PICK p \in P : \E i \in 1 .. Len(batches[p]) : o[k] = batches[p][i]
        BY <2>2
      <3>3. QED  BY <3>1, <3>2
    <2>4. ASSUME NEW p \in P, NEW i \in 1 .. Len(batches[p])
          PROVE  batches[p][i].id \in Range(ids)
      BY <2>1, <2>2
    <2>5. QED  BY <2>3, <2>4
  <1>13. Pending = Pending' \cup Range(ids) /\ Pending' \cap Range(ids) = {}
    <2>1. \A x : x \in Pending <=> x \in Pending' \/ x \in Range(ids)
      BY <1>10, <1>11, <1>12
    <2>2. \A x : ~(x \in Pending' /\ x \in Range(ids))
      BY <1>11, <1>12 DEF BatchedOnce
    <2>3. QED  BY <2>1, <2>2
  <1>14. Range(executed') = Range(executed) \cup Range(ids)
    <2>1. \A x : x \in Range(executed') <=> \E k \in 1 .. Len(executed') : x = executed'[k]
      BY <1>6, RangeIs
    <2>2. \A x : x \in Range(executed) <=> \E k \in 1 .. m : x = executed[k]
      BY <1>5, RangeIs
    <2>3. \A x : x \in Range(ids) <=> \E k \in 1 .. n : x = ids[k]
      BY <1>3, RangeIs
    <2>4. \A x : x \in Range(executed') => x \in Range(executed) \/ x \in Range(ids)
      BY <1>7, <2>1, <2>2, <2>3
    <2>5. \A x : x \in Range(executed) \/ x \in Range(ids) => x \in Range(executed')
      BY <1>8, <2>1, <2>2, <2>3
    <2>6. QED  BY <2>4, <2>5
  <1>15. Accounted'
    BY <1>13, <1>14 DEF Accounted
  <1>16. BatchedOnce'
    <2>1. \A p \in Priorities : Len(batches'[p]) = 0 \/ batches'[p] = batches[p]
      BY EmptySeq
    <2>2. ASSUME NEW p \in Priorities, NEW q \in Priorities,
                 NEW i \in 1 .. Len(batches'[p]), NEW j \in 1 .. Len(batches'[q]),
                 batches'[p][i].id = batches'[q][j].id
          PROVE  p = q /\ i = j
      BY <2>1, <2>2 DEF BatchedOnce
    <2>3. QED  BY <2>2 DEF BatchedOnce
  <1>17. ExecutedOnce'
    <2> SUFFICES ASSUME NEW k \in 1 .. Len(executed'), NEW l \in 1 .. Len(executed'),
                        executed'[k] = executed'[l]
                 PROVE  k = l
      BY DEF ExecutedOnce
    <2>1. \A i, j \in 1 .. n : ids[i] = ids[j] => i = j
      BY <1>1, <1>3 DEF Lists, n
    <2>2. \A i \in 1 .. m, j \in 1 .. n : executed[i] # ids[j]
      <3> TAKE i \in 1 .. m, j \in 1 .. n
      <3>1. executed[i] \in Range(executed)
        BY <1>5, RangeIs
      <3>2. ids[j] \in Range(ids)
        BY <1>3, RangeIs
      <3>3. QED  BY <1>13, <3>1, <3>2 DEF Accounted
    <2>3. \A i, j \in 1 .. m : executed[i] = executed[j] => i = j
      BY DEF ExecutedOnce
    <2>4. k \in Nat /\ l \in Nat
      BY <1>6
    <2>5. CASE k \in 1 .. m /\ executed'[k] = executed[k]
      BY <1>7, <2>2, <2>3, <2>5
    <2>6. CASE k - m \in 1 .. n /\ executed'[k] = ids[k - m]
      <3>1. ~(l \in 1 .. m /\ executed'[l] = executed[l])
        BY <2>2, <2>6
      <3>2. l - m \in 1 .. n /\ executed'[l] = ids[l - m]
        BY <1>7, <3>1
      <3>3. k - m = l - m
        BY <2>1, <2>6, <3>2
      <3>4. QED  BY <1>5, <2>4, <3>3
    <2>7. QED  BY <1>7, <2>5, <2>6
  <1>18. Pending' \subseteq Pending /\ (P = Priorities => Pending' = {})
    BY <1>11, <1>13
  <1>19. QED  BY <1>6, <1>9, <1>15, <1>16, <1>17, <1>18

(***************************************************************************)
(* The steps.                                                              *)
(***************************************************************************)
\* The operation added to a batch has an id that no operation had before.
LEMMA QueueStep ==
  ASSUME BatchInv, NEW c \in Clients, NEW p \in Priorities, NEW h \in Hashes, queue(c, p, h)
  PROVE  BatchInv'
  <1> USE DEF BatchInv
  <1> DEFINE op == [id |-> next_id, hash |-> h]
             k == Len(batches[p]) + 1
  <1>1. /\ next_id \in Nat /\ next_id' = next_id + 1 /\ status' = status /\ status = "open"
        /\ executed' = executed /\ thrown' = thrown
        /\ pc' \in [Clients -> {"idle", "check", "flush"}]
    BY DEF queue, Open, Typed
  <1>2. CASE batches' = batches /\ accepted' = accepted
    <2>1. Pending' = Pending
      BY <1>2 DEF Pending
    <2>2. \A x \in accepted : x < next_id'
      <3>1. \A x \in accepted : x \in Nat
        <4>1. \A x \in Pending : x \in Nat
          <5>1. \A x : x \in Pending <=>
                  \E q \in Priorities : \E i \in 1 .. Len(batches[q]) : x = batches[q][i].id
            BY IdsIn DEF Pending, Typed
          <5>2. QED  BY <5>1, BatchTyped
        <4>2. \A x \in Range(executed) : x \in Nat
          BY RangeIs DEF Typed
        <4>3. QED  BY <4>1, <4>2 DEF Accounted
      <3>2. QED  BY <1>1, <3>1 DEF Accounted
    <2>3. Typed' /\ BatchedOnce' /\ ExecutedOnce' /\ Accounted'
      BY <1>1, <1>2, <2>1, <2>2 DEF Typed, BatchedOnce, ExecutedOnce, Accounted
    <2>4. QED  BY <1>1, <2>3
  <1>3. CASE /\ batches' = [batches EXCEPT ![p] = Append(@, op)]
             /\ accepted' = accepted \cup {next_id}
    <2>1. op \in Op /\ batches[p] \in Seq(Op) /\ k \in Nat /\ k - 1 = Len(batches[p])
      <3>1. op \in Op
        BY <1>1 DEF Op
      <3>2. batches[p] \in Seq(Op) /\ Len(batches[p]) \in Nat
        BY BatchTyped
      <3>3. QED  BY <3>1, <3>2
    <2>2. /\ batches'[p] = Append(batches[p], op)
          /\ \A q \in Priorities \ {p} : batches'[q] = batches[q]
      BY <1>3 DEF Typed
    <2>3. /\ batches'[p] \in Seq(Op) /\ Len(batches'[p]) = k
          /\ \A i \in 1 .. Len(batches[p]) : batches'[p][i] = batches[p][i]
          /\ batches'[p][k] = op
      BY <2>1, <2>2, AppendProperties
    <2>4. batches \in [Priorities -> Seq(Op)] /\ batches' \in [Priorities -> Seq(Op)]
      BY <1>3, <2>2, <2>3 DEF Typed
    <2>5. \A i \in 1 .. k : i = k \/ i \in 1 .. Len(batches[p])
      BY <2>1
    <2>6. \A x : x \in Pending <=>
            \E q \in Priorities : \E i \in 1 .. Len(batches[q]) : x = batches[q][i].id
      BY <2>4, IdsIn DEF Pending
    <2>7. \A x : x \in Pending' <=>
            \E q \in Priorities : \E i \in 1 .. Len(batches'[q]) : x = batches'[q][i].id
      BY <2>4, IdsIn DEF Pending
    \* An operation of the new batches is the new one or an old one.
    <2>8. \A q \in Priorities : \A i \in 1 .. Len(batches'[q]) :
            \/ q = p /\ i = k /\ batches'[q][i] = op
            \/ i \in 1 .. Len(batches[q]) /\ batches'[q][i] = batches[q][i]
      BY <2>2, <2>3, <2>5
    <2>9. \A q \in Priorities : \A i \in 1 .. Len(batches[q]) :
            i \in 1 .. Len(batches'[q]) /\ batches'[q][i] = batches[q][i]
      BY <2>1, <2>2, <2>3
    <2>10. k \in 1 .. Len(batches'[p]) /\ batches'[p][k].id = next_id
      BY <2>1, <2>3
    <2>11. Pending' = Pending \cup {next_id}
      <3>1. \A x \in Pending' : x \in Pending \/ x = next_id
        BY <2>6, <2>7, <2>8
      <3>2. \A x \in Pending : x \in Pending'
        BY <2>6, <2>7, <2>9
      <3>3. next_id \in Pending'
        BY <2>7, <2>10
      <3>4. QED  BY <3>1, <3>2, <3>3
    <2>12. \A x \in accepted : x \in Nat /\ x # next_id /\ x < next_id'
      <3>1. \A x \in Pending : x \in Nat
        BY <2>6, BatchTyped
      <3>2. \A x \in Range(executed) : x \in Nat
        BY RangeIs DEF Typed
      <3>3. QED  BY <1>1, <3>1, <3>2 DEF Accounted
    <2>13. Accounted'
      BY <1>1, <1>3, <2>11, <2>12 DEF Accounted
    <2>14. BatchedOnce'
      <3>1. \A q \in Priorities : \A i \in 1 .. Len(batches[q]) : batches[q][i].id # next_id
        BY <2>6, <2>12 DEF Accounted
      <3>2. ASSUME NEW q \in Priorities, NEW r \in Priorities,
                   NEW i \in 1 .. Len(batches'[q]), NEW j \in 1 .. Len(batches'[r]),
                   batches'[q][i].id = batches'[r][j].id
            PROVE  q = r /\ i = j
        <4>1. op.id = next_id
          OBVIOUS
        <4> HIDE DEF op, k
        <4>2. CASE q = p /\ i = k /\ batches'[q][i] = op
          BY <2>8, <3>1, <3>2, <4>1, <4>2
        <4>3. CASE i \in 1 .. Len(batches[q]) /\ batches'[q][i] = batches[q][i]
          <5>1. batches'[r][j] # op
            BY <3>1, <3>2, <4>1, <4>3
          <5>2. j \in 1 .. Len(batches[r]) /\ batches'[r][j] = batches[r][j]
            BY <2>8, <5>1
          <5>3. QED  BY <3>2, <4>3, <5>2 DEF BatchedOnce
        <4>4. QED  BY <2>8, <4>2, <4>3
      <3>3. QED  BY <3>2 DEF BatchedOnce
    <2>15. Typed' /\ ExecutedOnce'
      BY <1>1, <2>4 DEF Typed, ExecutedOnce
    <2>16. QED  BY <1>1, <2>13, <2>14, <2>15
  <1>4. QED  BY <1>2, <1>3 DEF queue

\* flush_all_batches, when the executor throws at `fails` or not at all.
LEMMA FlushAll ==
  ASSUME BatchInv, NEW fails \in Priorities \cup {-1}, flush_all_batches(fails),
         UNCHANGED <<accepted, next_id>>,
         pc' \in [Clients -> {"idle", "check", "flush"}]
  PROVE  /\ Typed' /\ BatchedOnce' /\ ExecutedOnce' /\ Accounted'
         /\ thrown' = (fails # -1)
         /\ fails = -1 => Pending' = {}
  <1> DEFINE P == {p \in Priorities : p > fails}
  <1>1. /\ Run(P) /\ thrown' = (fails # -1)
        /\ batches' = [p \in Priorities |-> IF p > fails THEN <<>> ELSE batches[p]]
    BY DEF flush_all_batches, Cleared
  <1>2. batches' = [p \in Priorities |-> IF p \in P THEN <<>> ELSE batches[p]]
    BY <1>1
  <1>3. P \in SUBSET Priorities
    OBVIOUS
  <1>4. fails = -1 => P = Priorities
    BY BatchBounds DEF Priorities
  <1> HIDE DEF P
  <1>5. /\ batches' \in [Priorities -> Seq(Op)] /\ executed' \in Seq(Nat)
        /\ BatchedOnce' /\ ExecutedOnce' /\ Accounted'
        /\ P = Priorities => Pending' = {}
    BY <1>1, <1>2, <1>3, FlushRuns
  <1>6. next_id' \in Nat /\ thrown' \in BOOLEAN
    BY <1>1 DEF BatchInv, Typed
  <1>7. QED  BY <1>1, <1>4, <1>5, <1>6 DEF Typed

\* A flush by a client, by the thread, or by the destructor.
LEMMA FlushStep ==
  ASSUME BatchInv,
         thread_flush \/ final_flush \/ \E c \in Clients : flush(c)
  PROVE  BatchInv'
  <1>1. PICK fails \in Priorities \cup {-1} :
          flush_all_batches(fails) /\ (status' = "closed" => fails = -1)
    BY DEF thread_flush, final_flush, flush, Open
  <1>2. UNCHANGED <<accepted, next_id>> /\ pc' \in [Clients -> {"idle", "check", "flush"}]
    BY DEF thread_flush, final_flush, flush, cvars, BatchInv, Typed
  <1>3. QED  BY <1>1, <1>2, FlushAll DEF BatchInv

LEMMA FlushOneStep ==
  ASSUME BatchInv, NEW c \in Clients, NEW p \in Priorities, flush_batch_by_priority(c, p)
  PROVE  BatchInv'
  <1>1. /\ Run({p}) /\ batches' = [batches EXCEPT ![p] = <<>>]
        /\ UNCHANGED <<next_id, accepted, pc, status, thrown>> /\ status = "open"
    BY DEF flush_batch_by_priority, cvars, Open
  <1>2. batches' = [q \in Priorities |-> IF q \in {p} THEN <<>> ELSE batches[q]]
    BY <1>1 DEF BatchInv, Typed
  <1>3. /\ batches' \in [Priorities -> Seq(Op)] /\ executed' \in Seq(Nat)
        /\ BatchedOnce' /\ ExecutedOnce' /\ Accounted'
    BY <1>1, <1>2, FlushRuns
  <1>4. Typed'
    BY <1>1, <1>3 DEF BatchInv, Typed
  <1>5. QED  BY <1>1, <1>3, <1>4 DEF BatchInv

\* The rest changes the mode, the thread and where the clients are.
LEMMA OtherStep ==
  ASSUME BatchInv,
         \/ \E c \in Clients : \/ flush_if_needed(c) \/ resume_auto_flush(c)
                               \/ \E m \in Modes : set_batch_mode(c, m)
         \/ wake \/ stop_thread \/ Over \/ UNCHANGED vars
  PROVE  BatchInv'
  <1>1. /\ UNCHANGED <<batches, next_id, status, accepted, executed, thrown>>
        /\ pc' \in [Clients -> {"idle", "check", "flush"}]
    BY DEF BatchInv, Typed, flush_if_needed, resume_auto_flush, set_batch_mode, wake,
           stop_thread, Over, vars
  <1>2. Pending' = Pending
    BY <1>1 DEF Pending
  <1>3. QED
    BY <1>1, <1>2 DEF BatchInv, Typed, BatchedOnce, ExecutedOnce, Accounted

LEMMA InitBatch == Init => BatchInv
  <1> SUFFICES ASSUME Init PROVE BatchInv  OBVIOUS
  <1>1. Typed
    BY EmptySeq DEF Init, Typed
  <1>2. \A p \in Priorities : Len(batches[p]) = 0
    BY EmptySeq DEF Init
  <1>3. Len(executed) = 0
    BY EmptySeq DEF Init
  <1>4. Pending = {}
    <2>1. \A x : x \in Pending <=>
            \E p \in Priorities : \E i \in 1 .. Len(batches[p]) : x = batches[p][i].id
      BY <1>1, IdsIn DEF Pending, Typed
    <2>2. \A p \in Priorities : \A i \in 1 .. Len(batches[p]) : FALSE
      BY <1>2
    <2>3. QED  BY <2>1, <2>2
  <1>5. Range(executed) = {}
    <2>1. \A x : x \in Range(executed) <=> \E i \in 1 .. Len(executed) : x = executed[i]
      BY <1>1, RangeIs DEF Typed
    <2>2. \A i \in 1 .. Len(executed) : FALSE
      BY <1>3
    <2>3. QED  BY <2>1, <2>2
  <1>6. BatchedOnce /\ ExecutedOnce
    BY <1>2, <1>3 DEF BatchedOnce, ExecutedOnce
  <1>7. Accounted
    BY <1>4, <1>5 DEF Init, Accounted
  <1>8. QED  BY <1>1, <1>4, <1>6, <1>7 DEF BatchInv

LEMMA StepBatch == BatchInv /\ [Next]_vars => BatchInv'
  <1> SUFFICES ASSUME BatchInv, [Next]_vars PROVE BatchInv'  OBVIOUS
  <1>1. QED
    BY QueueStep, FlushStep, FlushOneStep, OtherStep DEF Next

THEOREM BatchInvariance == FairSpec => []BatchInv
  BY InitBatch, StepBatch, PTL DEF FairSpec

\* Every operation that was added to a batch is pending or was run, never both
\* and never twice, wherever the executor throws, and the destructor leaves
\* nothing: for any number of clients, priorities and operations.
THEOREM NoOperationLost == FairSpec => []NothingLost
  <1>1. BatchInv => NothingLost
    <2> SUFFICES ASSUME BatchInv PROVE NothingLost  OBVIOUS
    <2> DEFINE n == Len(executed)
               S == Range(executed)
    <2>1. n \in Nat /\ executed \in [1 .. n -> S] /\ DOMAIN executed = 1 .. n
      <3>1. executed \in [1 .. n -> Nat] /\ n \in Nat /\ DOMAIN executed = 1 .. n
        BY LenProperties DEF BatchInv, Typed
      <3>2. QED  BY <3>1 DEF Range
    <2>2. executed \in Bijection(1 .. n, S)
      <3>1. executed \in Injection(1 .. n, S)
        BY <2>1 DEF BatchInv, ExecutedOnce, Injection, IsInjective
      <3>2. executed \in Surjection(1 .. n, S)
        BY <2>1 DEF Surjection, Range
      <3>3. QED  BY <3>1, <3>2 DEF Bijection
    <2>3. Cardinality(S) = n
      BY <2>1, <2>2, FS_CountingElements DEF ExistsBijection
    <2>4. QED  BY <2>3 DEF NothingLost, BatchInv, Accounted
  <1>2. QED  BY BatchInvariance, <1>1, PTL

\* In IMMEDIATE mode nothing is pending when no call is under way, however
\* queueing and changes of the mode interleave, unless the executor threw.
THEOREM ImmediateRuns == FairSpec => []ImmediateLeavesNothing
  <1>1. Init => ImmediateLeavesNothing
    BY InitBatch DEF Init, ImmediateLeavesNothing, Pending, Range
  <1>2. BatchInv /\ ImmediateLeavesNothing /\ [Next]_vars => ImmediateLeavesNothing'
    <2> SUFFICES ASSUME BatchInv, ImmediateLeavesNothing, [Next]_vars,
                        mode' = "IMMEDIATE", \A c \in Clients : pc'[c] = "idle", ~thrown'
                 PROVE  Pending' = {}
      BY DEF ImmediateLeavesNothing
    <2>1. ASSUME NEW c \in Clients, NEW p \in Priorities, NEW h \in Hashes, queue(c, p, h)
          PROVE  FALSE
      BY <2>1 DEF queue, BatchInv, Typed
    <2>2. ASSUME NEW c \in Clients,
                 \/ flush_if_needed(c) \/ resume_auto_flush(c)
                 \/ \E m \in Modes : set_batch_mode(c, m)
          PROVE  FALSE
      BY <2>2 DEF flush_if_needed, resume_auto_flush, set_batch_mode, BatchInv, Typed
    <2>3. CASE thread_flush \/ final_flush \/ \E c \in Clients : flush(c)
      <3>1. PICK fails \in Priorities \cup {-1} : flush_all_batches(fails)
        BY <2>3 DEF thread_flush, final_flush, flush
      <3>2. UNCHANGED <<accepted, next_id>> /\ pc' \in [Clients -> {"idle", "check", "flush"}]
        BY <2>3 DEF thread_flush, final_flush, flush, cvars, BatchInv, Typed
      <3>3. QED  BY <3>1, <3>2, FlushAll
    <2>4. ASSUME NEW c \in Clients, NEW p \in Priorities, flush_batch_by_priority(c, p)
          PROVE  Pending' = {}
      <3>1. /\ Run({p}) /\ batches' = [batches EXCEPT ![p] = <<>>]
            /\ UNCHANGED <<mode, next_id, accepted, pc, thrown>>
        BY <2>4 DEF flush_batch_by_priority, cvars
      <3>2. batches' = [q \in Priorities |-> IF q \in {p} THEN <<>> ELSE batches[q]]
        BY <3>1 DEF BatchInv, Typed
      <3>3. Pending' \subseteq Pending
        BY <3>1, <3>2, FlushRuns
      <3>4. Pending = {}
        BY <3>1 DEF ImmediateLeavesNothing
      <3>5. QED  BY <3>3, <3>4
    <2>5. CASE wake \/ stop_thread \/ Over \/ UNCHANGED vars
      <3>1. UNCHANGED <<mode, batches, pc, thrown>>
        BY <2>5 DEF wake, stop_thread, Over, vars
      <3>2. QED  BY <3>1 DEF ImmediateLeavesNothing, Pending
    <2>6. QED  BY <2>1, <2>2, <2>3, <2>4, <2>5 DEF Next
  <1>3. QED  BY BatchInvariance, <1>1, <1>2, PTL DEF FairSpec
============================================================================
